---------------------------- MODULE PageLists_proofs ----------------------------
(* Proofs about the pages whose lists follow the server: the account's keys,  *)
(* the staff's forms and tools of a listing, the comments under a page and    *)
(* the owner's listing.                                                       *)
EXTENDS MyBenchmarks, StaffEditing, CommentThread, StaffTools, OwnerListing,
        FiniteSetTheorems, SequenceTheorems, WellFoundedInduction, TLAPS

\* a call of a hook, or a read under way, with what it may be about and bring
CallRecord(requests, answers) ==
    [stage : {"idle", "sent", "checked", "answered", "relisting", "rereading", "refreshing"},
     req : {NoRequest} \cup requests, ok : BOOLEAN, data : answers]

LEMMA NoCallIsIdle ==
    ASSUME NEW requests, NEW answers, 0 \in answers
    PROVE  NoCall \in CallRecord(requests, answers) /\ NoCall.stage = "idle"
  BY DEF NoCall, CallRecord

LEMMA SentIsSent ==
    ASSUME NEW requests, NEW answers, 0 \in answers, NEW req \in requests
    PROVE  /\ Sent(req) \in CallRecord(requests, answers)
           /\ Sent(req).stage = "sent" /\ Sent(req).req = req
  BY DEF Sent, NoCall, CallRecord

LEMMA SucceedsIsAnswered ==
    ASSUME NEW requests, NEW answers, NEW call \in CallRecord(requests, answers),
           NEW data \in answers
    PROVE  /\ Succeeds(call, data) \in CallRecord(requests, answers)
           /\ Succeeds(call, data).stage = "answered" /\ Succeeds(call, data).ok
           /\ Succeeds(call, data).data = data
  BY DEF Succeeds, CallRecord

LEMMA FailsIsAnswered ==
    ASSUME NEW requests, NEW answers, NEW call \in CallRecord(requests, answers)
    PROVE  /\ Fails(call) \in CallRecord(requests, answers)
           /\ Fails(call).stage = "answered" /\ ~Fails(call).ok
  BY DEF Fails, CallRecord

----------------------------------------------------------------------------
\* MyBenchmarks

SubRequests == {FinalizeBenchmarkSubmission(s) : s \in Submissions}
                 \cup {WithdrawBenchmarkSubmission(s) : s \in Submissions}
                 \cup {AddBenchmarkRunScreenshots(s, "shot") : s \in Submissions}
KeyRequests == {CreateApiKey("label")} \cup {RevokeApiKey(k) : k \in KeyIds}
SubListing == [Submissions -> SubStatus]
KeyListing == [KeyIds -> {"none", "live", "revoked"}]
ReadOf(key) == {Request("read", key, "none")}

AccountShape ==
    /\ AccountTypeOK
    /\ subCalls \in [SubHooks -> CallRecord(SubRequests, {0})]
    /\ \A h \in SubHooks : subCalls[h].stage = "sent" => subCalls[h].req.path[1] \in Submissions
    /\ subsRead \in CallRecord(ReadOf(ListMyBenchmarkSubmissions), {0} \cup SubListing)
    /\ subsRead.stage = "answered" => subsRead.data \in SubListing
    /\ keyCalls \in [KeyHooks -> CallRecord(KeyRequests, KeyIds \cup {0})]
    /\ keysRead \in CallRecord(ReadOf(ListMyApiKeys), {0} \cup KeyListing)
    /\ keysRead.stage = "answered" => keysRead.data \in KeyListing

\* A list that is not the server's is about to be read again, or being read:
\* whoever changed the keys has not heard of it yet, the read has not taken its
\* snapshot, or it has and nothing changed since.
KeysFollow ==
    \/ keysUnsettled
    \/ \E h \in KeyHooks : keyCalls[h].stage = "answered" /\ keyCalls[h].ok
    \/ keysRead.stage = "sent"
    \/ keysRead.stage = "answered" /\ keysRead.data = keys
    \/ keysRead.stage = "idle" /\ myKeys = keys

AccountInv == AccountShape /\ KeysFollow

LEMMA AccountInitInv == AccountInit => AccountInv
  <1> SUFFICES ASSUME AccountInit PROVE AccountInv
    OBVIOUS
  <1>1. /\ subs \in SubListing /\ keys \in KeyListing /\ mySubs = subs /\ myKeys = keys
        /\ pictured = {} /\ createdKey = 0
    BY DEF AccountInit, SubListing, KeyListing, SubStatus
  <1>2. /\ subCalls = [h \in SubHooks |-> NoCall] /\ keyCalls = [h \in KeyHooks |-> NoCall]
        /\ subsRead = NoCall /\ keysRead = NoCall
    BY DEF AccountInit
  <1>3. /\ NoCall \in CallRecord(SubRequests, {0})
        /\ NoCall \in CallRecord(KeyRequests, KeyIds \cup {0})
        /\ NoCall \in CallRecord(ReadOf(ListMyBenchmarkSubmissions), {0} \cup SubListing)
        /\ NoCall \in CallRecord(ReadOf(ListMyApiKeys), {0} \cup KeyListing)
        /\ NoCall.stage = "idle"
    BY NoCallIsIdle
  <1>4. AccountTypeOK
    BY <1>1 DEF AccountTypeOK, SubListing, KeyListing
  <1>5. AccountShape
    BY <1>2, <1>3, <1>4 DEF AccountShape
  <1>6. KeysFollow
    BY <1>1, <1>2, <1>3 DEF KeysFollow
  <1> QED BY <1>5, <1>6 DEF AccountInv

\* steps of the submissions leave the keys alone
LEMMA SubStepKeeps ==
    ASSUME AccountInv, UNCHANGED keyVars,
           subs' \in SubListing, mySubs' \in SubListing, pictured' \subseteq Submissions,
           subCalls' \in [SubHooks -> CallRecord(SubRequests, {0})],
           \A h \in SubHooks :
               subCalls'[h].stage = "sent" => subCalls'[h].req.path[1] \in Submissions,
           subsRead' \in CallRecord(ReadOf(ListMyBenchmarkSubmissions), {0} \cup SubListing),
           subsRead'.stage = "answered" => subsRead'.data \in SubListing
    PROVE  AccountInv'
  <1>1. AccountShape'
    BY DEF AccountInv, AccountShape, AccountTypeOK, keyVars, SubListing
  <1>2. KeysFollow'
    BY DEF AccountInv, KeysFollow, keyVars
  <1> QED BY <1>1, <1>2 DEF AccountInv

LEMMA SubRequestsSay ==
    ASSUME NEW s \in Submissions
    PROVE  /\ FinalizeBenchmarkSubmission(s) \in SubRequests
           /\ FinalizeBenchmarkSubmission(s).path[1] = s
           /\ WithdrawBenchmarkSubmission(s) \in SubRequests
           /\ WithdrawBenchmarkSubmission(s).path[1] = s
           /\ AddBenchmarkRunScreenshots(s, "shot") \in SubRequests
           /\ AddBenchmarkRunScreenshots(s, "shot").path[1] = s
  BY DEF SubRequests, FinalizeBenchmarkSubmission, WithdrawBenchmarkSubmission,
         AddBenchmarkRunScreenshots, Request

LEMMA SubAskedKeeps ==
    ASSUME AccountInv, NEW h \in SubHooks, NEW req \in SubRequests,
           req.path[1] \in Submissions, subCalls' = Ask(subCalls, h, req),
           UNCHANGED <<subs, pictured, mySubs, subsRead, keyVars>>
    PROVE  AccountInv'
  <1>1. /\ Sent(req) \in CallRecord(SubRequests, {0})
        /\ Sent(req).stage = "sent" /\ Sent(req).req = req
    BY SentIsSent
  <1>2. AccountShape /\ AccountTypeOK
    BY DEF AccountInv, AccountShape
  <1>3. subCalls' = [subCalls EXCEPT ![h] = Sent(req)]
    BY DEF Ask
  <1>4. /\ subCalls' \in [SubHooks -> CallRecord(SubRequests, {0})]
        /\ \A g \in SubHooks :
               subCalls'[g].stage = "sent" => subCalls'[g].req.path[1] \in Submissions
    BY <1>1, <1>2, <1>3 DEF AccountShape
  <1> QED BY <1>2, <1>4, SubStepKeeps DEF AccountShape, AccountTypeOK, SubListing

LEMMA ServeSubCallKeeps == ASSUME AccountInv, NEW h \in SubHooks, ServeSubCall(h) PROVE AccountInv'
  <1>1. AccountShape /\ AccountTypeOK
    BY DEF AccountInv, AccountShape
  <1> DEFINE call == subCalls[h]
             s == call.req.path[1]
  <1>2. call \in CallRecord(SubRequests, {0}) /\ call.stage = "sent" /\ s \in Submissions
    BY <1>1 DEF ServeSubCall, AccountShape
  <1>3. /\ Succeeds(call, 0) \in CallRecord(SubRequests, {0})
        /\ Fails(call) \in CallRecord(SubRequests, {0})
        /\ Succeeds(call, 0).stage = "answered" /\ Fails(call).stage = "answered"
    BY <1>2, SucceedsIsAnswered, FailsIsAnswered
  <1>4. /\ \/ subCalls' = [subCalls EXCEPT ![h] = Succeeds(call, 0)]
           \/ subCalls' = [subCalls EXCEPT ![h] = Fails(call)]
        /\ SubWritten(h, s) \/ UNCHANGED <<subs, pictured>>
        /\ UNCHANGED <<mySubs, subsRead, keyVars>>
    BY DEF ServeSubCall
  <1>5. /\ subCalls' \in [SubHooks -> CallRecord(SubRequests, {0})]
        /\ \A g \in SubHooks :
               subCalls'[g].stage = "sent" => subCalls'[g].req.path[1] \in Submissions
    <2> HIDE DEF call
    <2> QED BY <1>1, <1>3, <1>4 DEF AccountShape
  <1>6. subs' \in SubListing /\ pictured' \subseteq Submissions
    <2>1. CASE UNCHANGED <<subs, pictured>>
      BY <2>1, <1>1 DEF AccountTypeOK, SubListing
    <2>2. CASE SubWritten(h, s)
      BY <2>2, <1>1, <1>2 DEF SubWritten, AccountTypeOK, SubListing, SubStatus, SubHooks
    <2> QED BY <2>1, <2>2, <1>4
  <1> QED BY <1>1, <1>4, <1>5, <1>6, SubStepKeeps DEF AccountShape, AccountTypeOK, SubListing

\* those a dropped re-read lets go of are idle, the others as they were
LEMMA ReleasedCalls ==
    ASSUME NEW hooks, NEW requests, NEW answers, 0 \in answers,
           NEW calls \in [hooks -> CallRecord(requests, answers)]
    PROVE  /\ Release(calls) \in [hooks -> CallRecord(requests, answers)]
           /\ \A h \in hooks : Release(calls)[h] \in {calls[h], NoCall}
           /\ \A h \in hooks : calls[h].stage = "answered" => Release(calls)[h] = calls[h]
  BY NoCallIsIdle DEF Release

LEMMA FetchIsSent ==
    ASSUME NEW key, NEW answers, 0 \in answers
    PROVE  /\ Fetch(key) \in CallRecord(ReadOf(key), answers) /\ Fetch(key).stage = "sent"
  <1>1. Request("read", key, "none") \in ReadOf(key)
    BY DEF ReadOf
  <1> QED BY <1>1, SentIsSent DEF Fetch

LEMMA SubListStepsKeep ==
    ASSUME AccountInv,
           \/ \E h \in SubHooks : SubAnswered(h)
           \/ PollSubs \/ ServeSubList
           \/ \E arrives \in BOOLEAN : SubsRelisted(arrives)
           \/ EditorsDecide \/ \E s \in Submissions : ScoringEnds(s)
    PROVE  AccountInv'
  <1> DEFINE Reads == CallRecord(ReadOf(ListMyBenchmarkSubmissions), {0} \cup SubListing)
             Hooked == [SubHooks -> CallRecord(SubRequests, {0})]
  <1>1. AccountShape /\ AccountTypeOK
    BY DEF AccountInv, AccountShape
  <1>2. /\ Fetch(ListMyBenchmarkSubmissions) \in Reads /\ NoCall \in Reads
        /\ Fetch(ListMyBenchmarkSubmissions).stage = "sent" /\ NoCall.stage = "idle"
        /\ NoCall \in CallRecord(SubRequests, {0})
    BY FetchIsSent, NoCallIsIdle
  <1>3. subs \in SubListing /\ mySubs \in SubListing /\ pictured \subseteq Submissions
        /\ subCalls \in Hooked /\ subsRead \in Reads
    BY <1>1 DEF AccountShape, AccountTypeOK, SubListing
  <1>4. /\ Release(subCalls) \in Hooked
        /\ \A g \in SubHooks : Release(subCalls)[g] \in {subCalls[g], NoCall}
    BY <1>3, ReleasedCalls
  <1>5. ASSUME NEW h \in SubHooks, SubAnswered(h) PROVE AccountInv'
    <2> DEFINE later == [subCalls[h] EXCEPT !.stage = "relisting"]
    <2>1. later \in CallRecord(SubRequests, {0}) /\ later.stage = "relisting"
      BY <1>3 DEF CallRecord
    <2>2. \/ /\ subsRead' = Fetch(ListMyBenchmarkSubmissions)
             /\ subCalls' = [Release(subCalls) EXCEPT ![h] = later]
          \/ subCalls' = [subCalls EXCEPT ![h] = NoCall] /\ UNCHANGED subsRead
      BY <1>5 DEF SubAnswered
    <2> HIDE DEF later
    <2>3. /\ subCalls' \in Hooked
          /\ \A g \in SubHooks :
               subCalls'[g].stage = "sent" => subCalls'[g].req.path[1] \in Submissions
      BY <1>1, <1>2, <1>3, <1>4, <2>1, <2>2 DEF AccountShape
    <2>4. /\ subsRead' \in Reads
          /\ subsRead'.stage = "answered" => subsRead'.data \in SubListing
      BY <1>1, <1>2, <1>3, <2>2 DEF AccountShape
    <2>5. UNCHANGED <<subs, mySubs, pictured, keyVars>>
      BY <1>5 DEF SubAnswered
    <2> QED BY <1>3, <2>3, <2>4, <2>5, SubStepKeeps
  <1>6. CASE PollSubs
    <2>1. /\ subsRead' = Fetch(ListMyBenchmarkSubmissions)
          /\ UNCHANGED <<subs, pictured, mySubs, subCalls, keyVars>>
      BY <1>6 DEF PollSubs
    <2> QED BY <1>1, <1>2, <1>3, <2>1, SubStepKeeps DEF AccountShape
  <1>7. CASE ServeSubList
    <2>1. /\ subsRead' = Succeeds(subsRead, subs)
          /\ UNCHANGED <<subs, pictured, mySubs, subCalls, keyVars>>
      BY <1>7 DEF ServeSubList
    <2>2. subsRead' \in Reads /\ subsRead'.data = subs
      BY <1>3, <2>1, SucceedsIsAnswered
    <2> QED BY <1>1, <1>3, <2>1, <2>2, SubStepKeeps DEF AccountShape
  <1>8. ASSUME NEW arrives \in BOOLEAN, SubsRelisted(arrives) PROVE AccountInv'
    <2>1. /\ mySubs' \in {mySubs, subsRead.data} /\ subsRead.stage = "answered"
          /\ subsRead' = NoCall /\ subCalls' = Release(subCalls)
          /\ UNCHANGED <<subs, pictured, keyVars>>
      BY <1>8 DEF SubsRelisted
    <2>2. mySubs' \in SubListing
      BY <1>1, <1>3, <2>1 DEF AccountShape
    <2>3. \A g \in SubHooks :
               subCalls'[g].stage = "sent" => subCalls'[g].req.path[1] \in Submissions
      BY <1>1, <1>2, <1>4, <2>1 DEF AccountShape
    <2> QED BY <1>2, <1>3, <1>4, <2>1, <2>2, <2>3, SubStepKeeps
  <1>9. CASE EditorsDecide \/ \E s \in Submissions : ScoringEnds(s)
    <2>1. subs' \in SubListing
      BY <1>9, <1>3 DEF EditorsDecide, ScoringEnds, SubListing, SubStatus
    <2>2. UNCHANGED <<pictured, mySubs, subsRead, subCalls, keyVars>>
      BY <1>9 DEF EditorsDecide, ScoringEnds
    <2> QED BY <1>1, <1>3, <2>1, <2>2, SubStepKeeps DEF AccountShape
  <1> QED BY <1>5, <1>6, <1>7, <1>8, <1>9

\* steps of the keys leave the submissions alone
LEMMA KeyStepShape ==
    ASSUME AccountInv, UNCHANGED subVars,
           keys' \in KeyListing, myKeys' \in KeyListing, createdKey' \in KeyIds \cup {0},
           keyCalls' \in [KeyHooks -> CallRecord(KeyRequests, KeyIds \cup {0})],
           keysRead' \in CallRecord(ReadOf(ListMyApiKeys), {0} \cup KeyListing),
           keysRead'.stage = "answered" => keysRead'.data \in KeyListing
    PROVE  AccountShape'
  BY DEF AccountInv, AccountShape, AccountTypeOK, subVars, KeyListing

LEMMA KeyAskedKeeps ==
    ASSUME AccountInv, NEW h \in KeyHooks, NEW req \in KeyRequests,
           ~Pending(keyCalls[h]), keyCalls' = Ask(keyCalls, h, req),
           UNCHANGED <<subVars, keys, myKeys, keysRead, createdKey, keysUnsettled>>
    PROVE  AccountInv'
  <1>1. Sent(req) \in CallRecord(KeyRequests, KeyIds \cup {0})
    BY SentIsSent
  <1>2. AccountShape /\ AccountTypeOK /\ KeysFollow
    BY DEF AccountInv, AccountShape
  <1>3. keyCalls' = [keyCalls EXCEPT ![h] = Sent(req)]
    BY DEF Ask
  <1>4. /\ keyCalls' \in [KeyHooks -> CallRecord(KeyRequests, KeyIds \cup {0})]
        /\ \A g \in KeyHooks \ {h} : keyCalls'[g] = keyCalls[g]
    BY <1>1, <1>2, <1>3 DEF AccountShape
  <1>5. AccountShape'
    BY <1>2, <1>4, KeyStepShape DEF AccountShape, AccountTypeOK, KeyListing
  <1>6. keyCalls[h].stage # "answered"
    BY DEF Pending
  <1>7. KeysFollow'
    BY <1>2, <1>4, <1>6 DEF KeysFollow
  <1> QED BY <1>5, <1>7 DEF AccountInv

\* a change of the keys is answered, or the page may not learn of it
LEMMA ServeKeyCallKeeps == ASSUME AccountInv, NEW h \in KeyHooks, ServeKeyCall(h) PROVE AccountInv'
  <1> DEFINE call == keyCalls[h]
             Calls == CallRecord(KeyRequests, KeyIds \cup {0})
  <1>1. AccountShape /\ AccountTypeOK /\ KeysFollow
    BY DEF AccountInv, AccountShape
  <1>2. call \in Calls /\ call.stage = "sent"
    BY <1>1 DEF ServeKeyCall, AccountShape
  <1>3. /\ Fails(call) \in Calls
        /\ \A data \in KeyIds \cup {0} :
              /\ Succeeds(call, data) \in Calls
              /\ Succeeds(call, data).stage = "answered" /\ Succeeds(call, data).ok
    <2>1. Fails(call) \in Calls
      BY <1>2, FailsIsAnswered
    <2>2. ASSUME NEW data \in KeyIds \cup {0}
          PROVE  /\ Succeeds(call, data) \in Calls
                 /\ Succeeds(call, data).stage = "answered" /\ Succeeds(call, data).ok
      BY <1>2, SucceedsIsAnswered
    <2> QED BY <2>1, <2>2
  <1>4. UNCHANGED <<subVars, myKeys, keysRead, createdKey>>
    BY DEF ServeKeyCall
  <1>5. \/ \E data \in KeyIds \cup {0} :
              /\ keyCalls' = [keyCalls EXCEPT ![h] = Succeeds(call, data)]
                                         /\ keys' \in KeyListing
        \/ /\ keys' \in KeyListing /\ keysUnsettled'
           /\ keyCalls' = [keyCalls EXCEPT ![h] = Fails(call)]
        \/ /\ keyCalls' = [keyCalls EXCEPT ![h] = Fails(call)]
           /\ UNCHANGED <<keys, keysUnsettled>>
    <2>1. keys \in KeyListing
      BY <1>1 DEF AccountTypeOK, KeyListing
    <2>2. CASE \E k \in KeyIds, arrives \in BOOLEAN :
                  /\ keys' = [keys EXCEPT ![k] = "live"]
                  /\ keyCalls' = [keyCalls EXCEPT ![h] =
                                     IF arrives THEN Succeeds(call, k) ELSE Fails(call)]
                  /\ keysUnsettled' = (keysUnsettled \/ ~arrives)
      <3>1. PICK k \in KeyIds, arrives \in BOOLEAN :
                  /\ keys' = [keys EXCEPT ![k] = "live"]
                  /\ keyCalls' = [keyCalls EXCEPT ![h] =
                                     IF arrives THEN Succeeds(call, k) ELSE Fails(call)]
                  /\ keysUnsettled' = (keysUnsettled \/ ~arrives)
        BY <2>2
      <3>2. keys' \in KeyListing
        BY <2>1, <3>1 DEF KeyListing
      <3>3. CASE arrives
        BY <3>1, <3>2, <3>3
      <3>4. CASE ~arrives
        BY <3>1, <3>2, <3>4
      <3> QED BY <3>3, <3>4
    <2>3. CASE /\ keys' = [keys EXCEPT ![call.req.path[1]] = "revoked"]
               /\ \E arrives \in BOOLEAN :
                     /\ keyCalls' = [keyCalls EXCEPT ![h] =
                                       IF arrives THEN Succeeds(call, 0) ELSE Fails(call)]
                     /\ keysUnsettled' = (keysUnsettled \/ ~arrives)
      <3>1. PICK arrives \in BOOLEAN :
                  /\ keyCalls' = [keyCalls EXCEPT ![h] =
                                     IF arrives THEN Succeeds(call, 0) ELSE Fails(call)]
                  /\ keysUnsettled' = (keysUnsettled \/ ~arrives)
        BY <2>3
      <3>2. keys' \in KeyListing
        BY <2>1, <2>3 DEF KeyListing
      <3>3. CASE arrives
        BY <3>1, <3>2, <3>3
      <3>4. CASE ~arrives
        BY <3>1, <3>2, <3>4
      <3> QED BY <3>3, <3>4
    <2> QED BY <2>2, <2>3 DEF ServeKeyCall
  <1> HIDE DEF call
  <1>6. /\ keyCalls' \in [KeyHooks -> Calls] /\ keys' \in KeyListing
        /\ \A g \in KeyHooks \ {h} : keyCalls'[g] = keyCalls[g]
    BY <1>1, <1>3, <1>5 DEF AccountShape, AccountTypeOK, KeyListing
  <1>7. AccountShape'
    BY <1>1, <1>4, <1>6, KeyStepShape DEF AccountShape, AccountTypeOK, KeyListing
  <1>8. KeysFollow'
    <2>1. CASE \E data \in KeyIds \cup {0} :
                  keyCalls' = [keyCalls EXCEPT ![h] = Succeeds(call, data)]
      <3>1. PICK data \in KeyIds \cup {0} :
                keyCalls' = [keyCalls EXCEPT ![h] = Succeeds(call, data)]
        BY <2>1
      <3>2. keyCalls'[h] = Succeeds(call, data)
        BY <3>1, <1>1 DEF AccountShape
      <3>3. keyCalls'[h].stage = "answered" /\ keyCalls'[h].ok
        BY <3>2, <1>3
      <3> QED BY <3>3 DEF KeysFollow
    <2>2. CASE keysUnsettled'
      BY <2>2 DEF KeysFollow
    <2>3. CASE UNCHANGED <<keys, keysUnsettled>>
      <3>1. keyCalls[h].stage = "sent"
        BY <1>2 DEF call
      <3> QED BY <2>3, <3>1, <1>1, <1>4, <1>6 DEF KeysFollow
    <2> QED BY <1>5, <2>1, <2>2, <2>3
  <1> QED BY <1>7, <1>8 DEF AccountInv

\* what the page hears of a change it reads again
LEMMA KeyAnsweredKeeps == ASSUME AccountInv, NEW h \in KeyHooks, KeyAnswered(h) PROVE AccountInv'
  <1> DEFINE Calls == CallRecord(KeyRequests, KeyIds \cup {0})
             Reads == CallRecord(ReadOf(ListMyApiKeys), {0} \cup KeyListing)
             later == [keyCalls[h] EXCEPT !.stage = "relisting"]
  <1>1. AccountShape /\ AccountTypeOK /\ KeysFollow
    BY DEF AccountInv, AccountShape
  <1>2. /\ Fetch(ListMyApiKeys) \in Reads /\ Fetch(ListMyApiKeys).stage = "sent"
        /\ NoCall \in Calls
    BY FetchIsSent, NoCallIsIdle
  <1>3. keyCalls \in [KeyHooks -> Calls] /\ keysRead \in Reads
    BY <1>1 DEF AccountShape
  <1>4. Release(keyCalls) \in [KeyHooks -> Calls]
    BY <1>3, ReleasedCalls
  <1>5. later \in Calls /\ keyCalls[h].data \in KeyIds \cup {0}
    BY <1>3 DEF CallRecord
  <1>6. /\ \/ /\ keysRead' = Fetch(ListMyApiKeys)
              /\ \/ keyCalls' = [Release(keyCalls) EXCEPT ![h] = later]
                 \/ keyCalls' = [Release(keyCalls) EXCEPT ![h] = NoCall]
           \/ ~keyCalls[h].ok /\ keyCalls' = [keyCalls EXCEPT ![h] = NoCall] /\ UNCHANGED keysRead
        /\ createdKey' \in {createdKey, keyCalls[h].data}
        /\ UNCHANGED <<accountVisit, subVars, keys, myKeys, keysUnsettled>>
    BY DEF KeyAnswered
  <1> HIDE DEF later
  <1>7. /\ keyCalls' \in [KeyHooks -> Calls] /\ keysRead' \in Reads
        /\ keysRead'.stage = "answered" => keysRead'.data \in KeyListing
    BY <1>1, <1>2, <1>3, <1>4, <1>5, <1>6 DEF AccountShape
  <1>8. AccountShape'
    BY <1>1, <1>5, <1>6, <1>7, KeyStepShape DEF AccountTypeOK, KeyListing
  <1>9. KeysFollow'
    <2>1. CASE keysRead' = Fetch(ListMyApiKeys)
      BY <2>1, <1>2 DEF KeysFollow
    <2>2. CASE ~keyCalls[h].ok /\ keyCalls' = [keyCalls EXCEPT ![h] = NoCall] /\ UNCHANGED keysRead
      BY <2>2, <1>1, <1>3, <1>6 DEF KeysFollow
    <2> QED BY <1>6, <2>1, <2>2
  <1> QED BY <1>8, <1>9 DEF AccountInv

LEMMA KeyListStepsKeep == ASSUME AccountInv, ServeKeyList \/ KeysRelisted PROVE AccountInv'
  <1> DEFINE Reads == CallRecord(ReadOf(ListMyApiKeys), {0} \cup KeyListing)
             Hooked == [KeyHooks -> CallRecord(KeyRequests, KeyIds \cup {0})]
  <1>1. AccountShape /\ AccountTypeOK /\ KeysFollow
    BY DEF AccountInv, AccountShape
  <1>2. /\ keys \in KeyListing /\ myKeys \in KeyListing /\ createdKey \in KeyIds \cup {0}
        /\ keyCalls \in Hooked /\ keysRead \in Reads
    BY <1>1 DEF AccountShape, AccountTypeOK, KeyListing
  <1>3. CASE ServeKeyList
    <2>1. /\ keysRead' = Succeeds(keysRead, keys)
          /\ UNCHANGED <<subVars, keys, myKeys, keyCalls, createdKey, keysUnsettled>>
      BY <1>3 DEF ServeKeyList
    <2>2. keysRead' \in Reads /\ keysRead'.stage = "answered" /\ keysRead'.data = keys
      BY <1>2, <2>1, SucceedsIsAnswered
    <2>3. AccountShape'
      BY <1>2, <2>1, <2>2, KeyStepShape
    <2>4. KeysFollow'
      BY <2>1, <2>2 DEF KeysFollow
    <2> QED BY <2>3, <2>4 DEF AccountInv
  <1>4. CASE KeysRelisted
    <2>1. /\ keysRead.stage = "answered" /\ keysRead' = NoCall
          /\ \/ myKeys' = keysRead.data /\ UNCHANGED keysUnsettled
             \/ keysUnsettled' /\ UNCHANGED myKeys
          /\ keyCalls' = Release(keyCalls)
          /\ UNCHANGED <<subVars, keys, createdKey>>
      BY <1>4 DEF KeysRelisted
    <2>2. NoCall \in Reads /\ NoCall.stage = "idle"
      BY NoCallIsIdle
    <2>3. /\ keyCalls' \in Hooked
          /\ \A g \in KeyHooks : keyCalls[g].stage = "answered" => keyCalls'[g] = keyCalls[g]
      <3>1. /\ Release(keyCalls) \in Hooked
            /\ \A g \in KeyHooks : keyCalls[g].stage = "answered"
                                       => Release(keyCalls)[g] = keyCalls[g]
        BY <1>2, ReleasedCalls
      <3> QED BY <2>1, <3>1
    <2>4. myKeys' \in KeyListing
      BY <1>1, <1>2, <2>1 DEF AccountShape
    <2>5. AccountShape'
      BY <1>2, <2>1, <2>2, <2>3, <2>4, KeyStepShape
    <2>6. KeysFollow'
      BY <1>1, <2>1, <2>2, <2>3 DEF KeysFollow
    <2> QED BY <2>5, <2>6 DEF AccountInv
  <1> QED BY <1>3, <1>4

LEMMA AccountNextInv == AccountInv /\ [AccountNext]_accountVars => AccountInv'
  <1> SUFFICES ASSUME AccountInv, [AccountNext]_accountVars PROVE AccountInv'
    OBVIOUS
  <1>1. ASSUME NEW s \in Submissions,
               SendDraft(s) \/ WithdrawSubmission(s) \/ AddPictures(s)
        PROVE  AccountInv'
    <2>1. {"send", "withdraw", "add"} \subseteq SubHooks
      BY DEF SubHooks
    <2>2. CASE SendDraft(s)
      BY <2>1, <2>2, SubRequestsSay, SubAskedKeeps DEF SendDraft
    <2>3. CASE WithdrawSubmission(s)
      BY <2>1, <2>3, SubRequestsSay, SubAskedKeeps DEF WithdrawSubmission
    <2>4. CASE AddPictures(s)
      BY <2>1, <2>4, SubRequestsSay, SubAskedKeeps DEF AddPictures
    <2> QED BY <1>1, <2>2, <2>3, <2>4
  <1>2. ASSUME CreateKey \/ \E k \in KeyIds : RevokeKey(k) PROVE AccountInv'
    <2>1. /\ {"create", "revoke"} \subseteq KeyHooks /\ CreateApiKey("label") \in KeyRequests
          /\ \A k \in KeyIds : RevokeApiKey(k) \in KeyRequests
      BY DEF KeyHooks, KeyRequests
    <2>2. CASE CreateKey
      BY <2>1, <2>2, KeyAskedKeeps DEF CreateKey
    <2>3. ASSUME NEW k \in KeyIds, RevokeKey(k) PROVE AccountInv'
      BY <2>1, <2>3, KeyAskedKeeps DEF RevokeKey
    <2> QED BY <1>2, <2>2, <2>3
  <1>3. CASE AccountSteps
    BY <1>3, ServeSubCallKeeps, SubListStepsKeep, ServeKeyCallKeeps, KeyAnsweredKeeps,
       KeyListStepsKeep DEF AccountSteps
  <1>4. CASE ListingSteps
    BY <1>4, SubListStepsKeep DEF ListingSteps
  <1>5. CASE EditorsDecide \/ \E s \in Submissions : ScoringEnds(s)
    BY <1>5, SubListStepsKeep
  <1>6. CASE UNCHANGED accountVars
    BY <1>6 DEF accountVars, AccountInv, AccountShape, AccountTypeOK, KeysFollow
  <1> QED BY <1>1, <1>2, <1>3, <1>4, <1>5, <1>6 DEF AccountNext, AccountReader

LEMMA AccountInvImplies == AccountInv => AccountTypeOK /\ KeysListIsCurrent
  BY NoCallIsIdle DEF AccountInv, AccountShape, KeysFollow, KeysListIsCurrent, AccountSettled,
     NoCall

----------------------------------------------------------------------------
\* StaffEditing

FacetRequests == {StaffAddToolFacet(Slug, v) : v \in Facets}
                   \cup {StaffRemoveToolFacet(Slug, v) : v \in Facets}
SaveRequests(b) ==
    CASE b \in Fields  -> {StaffUpdateTool(Slug, b, v) : v \in Values}
      [] b = "facets"  -> FacetRequests
      [] b = "details" -> {StaffUpdatePlan(Slug, c) :
                              c \in UNION {[D -> Values] : D \in SUBSET DetailFields}}
      [] b = "price"   -> {StaffSetPlanPrice(Slug, v) : v \in Values}
      [] b = "cap"     -> {StaffSetPlanLimit(Slug, v) : v \in Values}
StaffRequests == UNION {SaveRequests(b) : b \in Blocks}
Drafts == {0} \cup Values \cup (SUBSET Facets) \cup [DetailFields -> Values]
FormRecord == [id : Nat, draft : Drafts, error : BOOLEAN]
SaveRecord == [block : Blocks \cup {"none"}, id : Nat, wants : Drafts, todo : Seq(FacetRequests),
               call : CallRecord(StaffRequests, {0}),
               stage : {"idle", "sending", "rereading", "reread"}, ok : BOOLEAN]
RecordRead == [stage : {"idle", "sent", "answered"}, data : {0} \cup StaffListing]

StaffShape ==
    /\ listing \in StaffListing /\ staffRecord \in StaffListing
    /\ rereading \in RecordRead
    /\ rereading.stage = "answered" => rereading.data \in StaffListing
    /\ rereading.stage = "idle" => rereading = NoRead
    /\ opens \in Nat /\ swapRefused \in BOOLEAN /\ otherRemoval \subseteq Facets
    /\ disturbed \subseteq {"others", "lost", "overlap", "stale"}
    /\ form \in [Blocks -> FormRecord] /\ saves \in [SaveSlots -> SaveRecord]

FormsSound ==
    \A b \in Blocks : IsOpen(b) => form[b].draft \in DraftValues(b) /\ form[b].id # 0

\* a save that is being sent is about its own block, and only facets take several
\* requests
SaveSound(s) ==
    /\ saves[s] # NoSave => saves[s].block \in Blocks /\ saves[s].id # 0
    /\ saves[s].stage # "sending" => saves[s].call = NoCall
    /\ saves[s].stage = "sending" =>
          /\ saves[s].block \in Blocks
          /\ saves[s].call.stage \in {"sent", "checked", "answered"}
          /\ saves[s].call.req \in SaveRequests(saves[s].block)
          /\ saves[s].block = "facets" => saves[s].wants \subseteq Facets
          /\ saves[s].block # "facets" => saves[s].todo = <<>>
SavesSound == \A s \in SaveSlots : SaveSound(s)

\* only facets are refused: a save of another block that failed has lost its answer
LostIsKnown ==
    \A s \in SaveSlots :
        /\ saves[s].stage = "sending" /\ saves[s].block # "facets"
        /\ saves[s].call.stage = "answered" /\ ~saves[s].call.ok
        => "lost" \in disturbed

\* a record that is not the server's will be read again, is being read, or is on
\* its way
RecordFollows ==
    \/ {"others", "lost"} \cap disturbed # {}
    \/ \E s \in SaveSlots : saves[s].stage = "sending"
    \/ rereading.stage = "sent"
    \/ rereading.stage = "answered" /\ rereading.data = listing
    \/ rereading.stage = "idle" /\ staffRecord = listing

\* the same of its facets, which only saves of facets change
FacetsSending(s) == saves[s].block = "facets" /\ saves[s].stage = "sending"
FacetsFollow ==
    \/ \E s \in SaveSlots : FacetsSending(s)
    \/ rereading.stage = "sent"
    \/ rereading.stage = "answered" /\ rereading.data.facets = listing.facets
    \/ rereading.stage = "idle" /\ staffRecord.facets = listing.facets

\* facets are saved one save at a time, and the form it came from stays the form
OneFacetsSave ==
    \A s \in SaveSlots : saves[s].block = "facets" =>
        /\ IsOpen("facets") => form["facets"].id = saves[s].id
        /\ \A t \in SaveSlots : saves[t].block = "facets" => s = t

\* what a facets save has yet to send, numbered from the request that is out
StepsLeft(s) == (IF saves[s].call.stage = "answered" THEN 1 ELSE 0)..Len(saves[s].todo)
StepAt(s, i) == IF i = 0 THEN saves[s].call.req ELSE saves[s].todo[i]

\* each step adds what is missing or removes what is not wanted, no step comes
\* twice, removals come last, and what is wanted is there or will be added
StepFits(s, i) ==
    \/ \E v \in Facets \ listing.facets : StepAt(s, i) = StaffAddToolFacet(Slug, v)
    \/ \E v \in listing.facets \ saves[s].wants : StepAt(s, i) = StaffRemoveToolFacet(Slug, v)
StepsInOrder(s, i, j) ==
    /\ StepAt(s, i) # StepAt(s, j)
    /\ StepAt(s, i).op = "StaffRemoveToolFacet" => StepAt(s, j).op = "StaffRemoveToolFacet"
WillHold(s, v) ==
    v \in listing.facets \/ \E i \in StepsLeft(s) : StepAt(s, i) = StaffAddToolFacet(Slug, v)
SwapGoesOn(s) ==
    /\ \A i \in StepsLeft(s) : StepFits(s, i)
    /\ \A i, j \in StepsLeft(s) : i < j => StepsInOrder(s, i, j)
    /\ \A v \in saves[s].wants : WillHold(s, v)
SwapsGoOn ==
    \A s \in SaveSlots :
        FacetsSending(s) /\ (saves[s].call.stage # "answered" \/ saves[s].call.ok) => SwapGoesOn(s)

Undisturbed == disturbed = {}
StaffInv ==
    /\ StaffShape /\ FormsSound /\ SavesSound /\ LostIsKnown /\ RecordFollows
    /\ SwapNotRefused
    /\ Undisturbed => FacetsFollow /\ OneFacetsSave /\ SwapsGoOn

----------------------------------------------------------------------------
\* the blocks are different forms
LEMMA BlocksDiffer ==
    /\ Fields \cap {"facets", "details", "price", "cap"} = {}
    /\ Blocks = Fields \cup {"facets", "details", "price", "cap"}
    /\ "facets" \notin PlanForms /\ Required \subseteq Facets /\ IsFiniteSet(Facets)
  BY StaffAssumption DEF StaffAssumption, Blocks, PlanForms

LEMMA DraftsTyped ==
    ASSUME NEW b \in Blocks, NEW r \in StaffListing
    PROVE  DraftOf(r, b) \in DraftValues(b) /\ DraftValues(b) \subseteq Drafts
  <1>1. CASE b \in Fields
    BY <1>1, BlocksDiffer DEF DraftOf, DraftValues, Drafts, StaffListing
  <1>2. CASE b = "facets"
    BY <1>2, BlocksDiffer DEF DraftOf, DraftValues, Drafts, StaffListing
  <1>3. CASE b = "details"
    <2>1. DraftOf(r, b) = r.details /\ DraftValues(b) = [DetailFields -> Values]
      BY <1>3, BlocksDiffer DEF DraftOf, DraftValues
    <2>2. r.details \in [DetailFields -> Values]
      BY DEF StaffListing
    <2> QED BY <2>1, <2>2 DEF Drafts
  <1>4. CASE b = "price"
    BY <1>4, BlocksDiffer DEF DraftOf, DraftValues, Drafts, StaffListing
  <1>5. CASE b = "cap"
    BY <1>5, BlocksDiffer DEF DraftOf, DraftValues, Drafts, StaffListing
  <1> QED BY <1>1, <1>2, <1>3, <1>4, <1>5, BlocksDiffer

LEMMA SaveRequestsSay ==
    /\ \A b \in Fields : SaveRequests(b) = {StaffUpdateTool(Slug, b, v) : v \in Values}
    /\ SaveRequests("facets") = FacetRequests
    /\ SaveRequests("details") = {StaffUpdatePlan(Slug, c) :
                                     c \in UNION {[D -> Values] : D \in SUBSET DetailFields}}
    /\ SaveRequests("price") = {StaffSetPlanPrice(Slug, v) : v \in Values}
    /\ SaveRequests("cap") = {StaffSetPlanLimit(Slug, v) : v \in Values}
  <1>1. \A b \in Fields : SaveRequests(b) = {StaffUpdateTool(Slug, b, v) : v \in Values}
    BY BlocksDiffer DEF SaveRequests
  <1>2. SaveRequests("facets") = FacetRequests
    BY BlocksDiffer DEF SaveRequests
  <1>3. SaveRequests("details") = {StaffUpdatePlan(Slug, c) :
                                     c \in UNION {[D -> Values] : D \in SUBSET DetailFields}}
    BY BlocksDiffer DEF SaveRequests
  <1>4. SaveRequests("price") = {StaffSetPlanPrice(Slug, v) : v \in Values}
    BY BlocksDiffer DEF SaveRequests
  <1>5. SaveRequests("cap") = {StaffSetPlanLimit(Slug, v) : v \in Values}
    BY BlocksDiffer DEF SaveRequests
  <1> QED BY <1>1, <1>2, <1>3, <1>4, <1>5

\* what the requests for facets say
LEMMA FacetRequestsSay ==
    ASSUME NEW v
    PROVE  /\ StaffAddToolFacet(Slug, v).op = "StaffAddToolFacet"
           /\ StaffAddToolFacet(Slug, v).path[2] = v
           /\ StaffRemoveToolFacet(Slug, v).op = "StaffRemoveToolFacet"
           /\ StaffRemoveToolFacet(Slug, v).path[2] = v
  BY DEF StaffAddToolFacet, StaffRemoveToolFacet, Request

\* what the server makes of each request
LEMMA FieldWritten ==
    ASSUME listing \in StaffListing, NEW b \in Fields, NEW req \in SaveRequests(b)
    PROVE  /\ Allowed(req) /\ Written(req) \in StaffListing
           /\ Written(req).facets = listing.facets
  <1>1. PICK v \in Values : req = StaffUpdateTool(Slug, b, v)
    BY SaveRequestsSay
  <1>2. req.op = "StaffUpdateTool" /\ req.path[2] = b /\ req.body = v
    BY <1>1 DEF StaffUpdateTool, Request
  <1>3. Written(req) = [listing EXCEPT !.fields[b] = v]
    BY <1>2 DEF Written
  <1>4. Written(req) \in StaffListing /\ Written(req).facets = listing.facets
    BY <1>3 DEF StaffListing
  <1> QED BY <1>2, <1>4 DEF Allowed

LEMMA PlanWritten ==
    ASSUME listing \in StaffListing, NEW b \in PlanForms, NEW req \in SaveRequests(b)
    PROVE  /\ Allowed(req) /\ Written(req) \in StaffListing
           /\ Written(req).facets = listing.facets
  <1>1. CASE b = "details"
    <2>1. PICK c \in UNION {[D -> Values] : D \in SUBSET DetailFields} :
              req = StaffUpdatePlan(Slug, c)
      BY <1>1, SaveRequestsSay
    <2>2. req.op = "StaffUpdatePlan" /\ req.body = c
      BY <2>1 DEF StaffUpdatePlan, Request
    <2> DEFINE details == [f \in DetailFields |-> IF f \in DOMAIN c THEN c[f]
                                                  ELSE listing.details[f]]
    <2>3. details \in [DetailFields -> Values]
      BY DEF StaffListing
    <2>4. Written(req) = [listing EXCEPT !.details = details]
      BY <2>2 DEF Written
    <2> HIDE DEF details
    <2>5. Written(req) \in StaffListing /\ Written(req).facets = listing.facets
      BY <2>3, <2>4 DEF StaffListing
    <2> QED BY <2>2, <2>5 DEF Allowed
  <1>2. CASE b = "price"
    <2>1. PICK v \in Values : req = StaffSetPlanPrice(Slug, v)
      BY <1>2, SaveRequestsSay
    <2>2. req.op = "StaffSetPlanPrice" /\ req.body = v
      BY <2>1 DEF StaffSetPlanPrice, Request
    <2>3. Written(req) = [listing EXCEPT !.price = v]
      BY <2>2 DEF Written
    <2>4. Written(req) \in StaffListing /\ Written(req).facets = listing.facets
      BY <2>3 DEF StaffListing
    <2> QED BY <2>2, <2>4 DEF Allowed
  <1>3. CASE b = "cap"
    <2>1. PICK v \in Values : req = StaffSetPlanLimit(Slug, v)
      BY <1>3, SaveRequestsSay
    <2>2. req.op = "StaffSetPlanLimit" /\ req.body = v
      BY <2>1 DEF StaffSetPlanLimit, Request
    <2>3. Written(req) = [listing EXCEPT !.cap = v]
      BY <2>2 DEF Written
    <2>4. Written(req) \in StaffListing /\ Written(req).facets = listing.facets
      BY <2>3 DEF StaffListing
    <2> QED BY <2>2, <2>4 DEF Allowed
  <1> QED BY <1>1, <1>2, <1>3 DEF PlanForms

LEMMA FacetWritten ==
    ASSUME listing \in StaffListing, NEW v \in Facets
    PROVE  /\ Written(StaffAddToolFacet(Slug, v)) \in StaffListing
           /\ Written(StaffAddToolFacet(Slug, v)).facets = listing.facets \cup {v}
           /\ Allowed(StaffAddToolFacet(Slug, v)) <=> v \notin listing.facets
           /\ Written(StaffRemoveToolFacet(Slug, v)) \in StaffListing
           /\ Written(StaffRemoveToolFacet(Slug, v)).facets = listing.facets \ {v}
           /\ Allowed(StaffRemoveToolFacet(Slug, v)) <=>
                 /\ v \in listing.facets
                 /\ v \in Required => \E u \in Required \ {v} : u \in listing.facets
  <1>1. /\ Written(StaffAddToolFacet(Slug, v)) = [listing EXCEPT !.facets = @ \cup {v}]
        /\ Written(StaffRemoveToolFacet(Slug, v)) = [listing EXCEPT !.facets = @ \ {v}]
    BY FacetRequestsSay DEF Written
  <1>2. /\ Allowed(StaffAddToolFacet(Slug, v)) <=> v \notin listing.facets
        /\ Allowed(StaffRemoveToolFacet(Slug, v)) <=>
                 /\ v \in listing.facets
                 /\ v \in Required => \E u \in Required \ {v} : u \in listing.facets
    BY FacetRequestsSay DEF Allowed
  <1>3. listing.facets \subseteq Facets
    BY DEF StaffListing
  <1>4. /\ [listing EXCEPT !.facets = @ \cup {v}] \in StaffListing
        /\ [listing EXCEPT !.facets = @ \ {v}] \in StaffListing
    BY <1>3 DEF StaffListing
  <1>5. /\ [listing EXCEPT !.facets = @ \cup {v}].facets = listing.facets \cup {v}
        /\ [listing EXCEPT !.facets = @ \ {v}].facets = listing.facets \ {v}
    BY DEF StaffListing
  <1> QED BY <1>1, <1>2, <1>4, <1>5

LEMMA RequestWritten ==
    ASSUME listing \in StaffListing, NEW b \in Blocks, NEW req \in SaveRequests(b)
    PROVE  /\ Written(req) \in StaffListing
           /\ b # "facets" => Allowed(req) /\ Written(req).facets = listing.facets
  <1>1. CASE b = "facets"
    BY <1>1, FacetWritten, SaveRequestsSay DEF FacetRequests
  <1>2. CASE b # "facets"
    BY <1>2, FieldWritten, PlanWritten DEF Blocks
  <1> QED BY <1>1, <1>2

----------------------------------------------------------------------------
\* a set as a sequence: every member, once
LEMMA SetToSeqIs ==
    ASSUME NEW S, IsFiniteSet(S)
    PROVE  /\ Cardinality(S) \in Nat
           /\ SetToSeq(S) \in [1..Cardinality(S) -> S]
           /\ \A i, j \in 1..Cardinality(S) : SetToSeq(S)[i] = SetToSeq(S)[j] => i = j
           /\ \A v \in S : \E i \in 1..Cardinality(S) : SetToSeq(S)[i] = v
  <1> DEFINE n == Cardinality(S)
             f == SetToSeq(S)
  <1>1. n \in Nat /\ ExistsBijection(1..n, S)
    BY FS_CardinalityType
  <1>2. PICK g \in Bijection(1..n, S) : TRUE
    BY <1>1 DEF ExistsBijection
  <1>3. g \in [1..n -> S] /\ IsInjective(g)
    BY <1>2 DEF Bijection, Injection
  <1>4. f \in [1..n -> S] /\ IsInjective(f)
    BY <1>3 DEF SetToSeq
  <1>5. f \in Injection(1..n, S)
    BY <1>4 DEF Injection
  <1>6. IsFiniteSet(1..n) /\ Cardinality(1..n) = n
    BY <1>1, FS_Interval
  <1>7. f \in Surjection(1..n, S)
    BY <1>5, <1>6, FS_Injection
  <1>8. \A v \in S : \E i \in 1..n : f[i] = v
    BY <1>7 DEF Surjection
  <1>9. \A i, j \in 1..n : f[i] = f[j] => i = j
    BY <1>4 DEF IsInjective
  <1> QED BY <1>1, <1>4, <1>8, <1>9

\* what the facet editor sends: each change once, the adds before the removals
LEMMA FacetChangesSay ==
    ASSUME NEW ticked \in SUBSET Facets, staffRecord \in StaffListing
    PROVE  LET todo == FacetChanges(ticked) IN
           /\ todo \in Seq(FacetRequests)
           /\ \A i \in 1..Len(todo) :
                 \/ \E v \in ticked \ staffRecord.facets : todo[i] = StaffAddToolFacet(Slug, v)
                 \/ \E v \in staffRecord.facets \ ticked : todo[i] = StaffRemoveToolFacet(Slug, v)
           /\ \A i, j \in 1..Len(todo) : i < j =>
                 /\ todo[i] # todo[j]
                 /\ todo[i].op = "StaffRemoveToolFacet" => todo[j].op = "StaffRemoveToolFacet"
           /\ \A v \in ticked \ staffRecord.facets :
                 \E i \in 1..Len(todo) : todo[i] = StaffAddToolFacet(Slug, v)
  <1> DEFINE A == ticked \ staffRecord.facets
             R == staffRecord.facets \ ticked
             adds == SetToSeq(A)
             removals == SetToSeq(R)
             p == Cardinality(A)
             q == Cardinality(R)
             asks == [i \in DOMAIN adds |-> StaffAddToolFacet(Slug, adds[i])]
             drops == [i \in DOMAIN removals |-> StaffRemoveToolFacet(Slug, removals[i])]
             todo == FacetChanges(ticked)
  <1>1. IsFiniteSet(A) /\ IsFiniteSet(R) /\ A \subseteq Facets /\ R \subseteq Facets
    <2>1. A \in SUBSET Facets /\ R \in SUBSET Facets
      BY DEF StaffListing
    <2> QED BY <2>1, BlocksDiffer, FS_Subset
  <1>2. /\ p \in Nat /\ adds \in [1..p -> A]
        /\ \A i, j \in 1..p : adds[i] = adds[j] => i = j
        /\ \A v \in A : \E i \in 1..p : adds[i] = v
    BY <1>1, SetToSeqIs
  <1>3. /\ q \in Nat /\ removals \in [1..q -> R]
        /\ \A i, j \in 1..q : removals[i] = removals[j] => i = j
    BY <1>1, SetToSeqIs
  <1>4. todo = asks \o drops
    BY DEF FacetChanges
  <1> HIDE DEF A, R, adds, removals, p, q, todo
  <1>5. /\ asks \in Seq(FacetRequests) /\ Len(asks) = p
        /\ \A i \in 1..p : asks[i] = StaffAddToolFacet(Slug, adds[i])
    <2>1. asks \in [1..p -> FacetRequests]
      BY <1>1, <1>2 DEF FacetRequests
    <2> QED BY <2>1, <1>2
  <1>6. /\ drops \in Seq(FacetRequests) /\ Len(drops) = q
        /\ \A i \in 1..q : drops[i] = StaffRemoveToolFacet(Slug, removals[i])
    <2>1. drops \in [1..q -> FacetRequests]
      BY <1>1, <1>3 DEF FacetRequests
    <2> QED BY <2>1, <1>3
  <1> HIDE DEF asks, drops
  <1>7. todo \in Seq(FacetRequests) /\ Len(todo) = p + q
    <2>1. asks \o drops \in Seq(FacetRequests) /\ Len(asks \o drops) = Len(asks) + Len(drops)
      BY <1>5, <1>6, ConcatProperties
    <2> QED BY <1>4, <1>5, <1>6, <2>1
  <1> DEFINE joined == asks \o drops
  <1>7a. \A i \in 1..Len(asks) + Len(drops) :
            joined[i] = IF i <= Len(asks) THEN asks[i] ELSE drops[i - Len(asks)]
    BY <1>5, <1>6, ConcatProperties
  <1>7b. \A i \in 1..p + q : todo[i] = IF i <= p THEN asks[i] ELSE drops[i - p]
    <2> HIDE DEF joined
    <2>1. todo = joined
      BY <1>4 DEF joined
    <2> QED BY <1>7a, <1>5, <1>6, <2>1
  <1>8. \A i \in 1..p : todo[i] = StaffAddToolFacet(Slug, adds[i]) /\ adds[i] \in A
    BY <1>2, <1>3, <1>5, <1>7b
  <1>9. \A i \in p+1..p+q : /\ todo[i] = StaffRemoveToolFacet(Slug, removals[i - p])
                            /\ removals[i - p] \in R
    <2> SUFFICES ASSUME NEW i \in p+1..p+q
                 PROVE  /\ todo[i] = StaffRemoveToolFacet(Slug, removals[i - p])
                        /\ removals[i - p] \in R
      OBVIOUS
    <2>1. i - p \in 1..q /\ i \in 1..p+q /\ i > p
      BY <1>2, <1>3
    <2>2. todo[i] = drops[i - p]
      BY <1>2, <1>3, <1>7b, <2>1
    <2> QED BY <2>1, <2>2, <1>3, <1>6
  <1>10. \A i \in 1..Len(todo) : i \in 1..p \/ i \in p+1..p+q
    BY <1>2, <1>3, <1>7
  <1>11. ASSUME NEW i \in 1..Len(todo)
         PROVE  \/ \E v \in A : todo[i] = StaffAddToolFacet(Slug, v)
                \/ \E v \in R : todo[i] = StaffRemoveToolFacet(Slug, v)
    BY <1>8, <1>9, <1>10
  <1>12. ASSUME NEW i \in 1..Len(todo), NEW j \in 1..Len(todo), i < j
         PROVE  /\ todo[i] # todo[j]
                /\ todo[i].op = "StaffRemoveToolFacet" => todo[j].op = "StaffRemoveToolFacet"
    <2>1. CASE i \in 1..p /\ j \in 1..p
      <3>1. todo[i].op # "StaffRemoveToolFacet" /\ adds[i] # adds[j]
        BY <2>1, <1>2, <1>8, <1>12, FacetRequestsSay
      <3>2. todo[i].path[2] = adds[i] /\ todo[j].path[2] = adds[j]
        BY <2>1, <1>8, FacetRequestsSay
      <3> QED BY <3>1, <3>2
    <2>2. CASE i \in 1..p /\ j \in p+1..p+q
      BY <2>2, <1>8, <1>9, FacetRequestsSay
    <2>3. CASE i \in p+1..p+q /\ j \in p+1..p+q
      <3>1. i - p \in 1..q /\ j - p \in 1..q /\ i - p # j - p
        BY <2>3, <1>2, <1>3, <1>12
      <3>2. removals[i - p] # removals[j - p]
        BY <3>1, <1>3
      <3>3. /\ todo[i].path[2] = removals[i - p] /\ todo[j].path[2] = removals[j - p]
            /\ todo[j].op = "StaffRemoveToolFacet"
        BY <2>3, <1>9, FacetRequestsSay
      <3> QED BY <3>2, <3>3
    <2> QED BY <2>1, <2>2, <2>3, <1>2, <1>3, <1>10, <1>12
  <1>13. ASSUME NEW v \in A PROVE \E i \in 1..Len(todo) : todo[i] = StaffAddToolFacet(Slug, v)
    <2>1. PICK i \in 1..p : adds[i] = v
      BY <1>2
    <2> QED BY <2>1, <1>2, <1>3, <1>7, <1>8
  <1> QED BY <1>7, <1>11, <1>12, <1>13 DEF A, R, todo

\* what any block sends is about that block
LEMMA ChangesTyped ==
    ASSUME NEW b \in Blocks, NEW draft \in DraftValues(b), staffRecord \in StaffListing,
           ChangesOf(b, draft) # <<>>
    PROVE  /\ Head(ChangesOf(b, draft)) \in SaveRequests(b)
           /\ Tail(ChangesOf(b, draft)) \in Seq(FacetRequests)
           /\ b # "facets" => Tail(ChangesOf(b, draft)) = <<>>
  <1>1. ASSUME NEW req \in SaveRequests(b), ChangesOf(b, draft) = <<req>>, b # "facets"
        PROVE  /\ Head(ChangesOf(b, draft)) \in SaveRequests(b)
               /\ Tail(ChangesOf(b, draft)) \in Seq(FacetRequests)
               /\ b # "facets" => Tail(ChangesOf(b, draft)) = <<>>
    <2>1. Head(<<req>>) = req /\ Tail(<<req>>) = <<>>
      OBVIOUS
    <2>2. <<>> \in Seq(FacetRequests)
      OBVIOUS
    <2> QED BY <1>1, <2>1, <2>2
  <1>2. CASE b \in Fields
    <2>1. draft \in Values /\ ChangesOf(b, draft) = FieldChange(b, draft)
      BY <1>2, BlocksDiffer DEF DraftValues, ChangesOf
    <2>2. ChangesOf(b, draft) = <<StaffUpdateTool(Slug, b, draft)>>
      BY <2>1 DEF FieldChange
    <2>3. StaffUpdateTool(Slug, b, draft) \in SaveRequests(b)
      BY <1>2, <2>1, SaveRequestsSay
    <2> QED BY <1>1, <1>2, <2>2, <2>3, BlocksDiffer
  <1>3. CASE b = "facets"
    <2>1. draft \in SUBSET Facets /\ ChangesOf(b, draft) = FacetChanges(draft)
      BY <1>3, BlocksDiffer DEF DraftValues, ChangesOf
    <2>2. FacetChanges(draft) \in Seq(FacetRequests)
      BY <2>1, FacetChangesSay
    <2> QED BY <1>3, <2>1, <2>2, SaveRequestsSay
  <1>4. CASE b = "details"
    <2> DEFINE touched == {f \in DetailFields : draft[f] # staffRecord.details[f]}
    <2>1. draft \in [DetailFields -> Values] /\ ChangesOf(b, draft) = DetailChanges(draft)
      BY <1>4, BlocksDiffer DEF DraftValues, ChangesOf
    <2>2. ChangesOf(b, draft) = <<StaffUpdatePlan(Slug, Restrict(draft, touched))>>
      BY <2>1 DEF DetailChanges
    <2>3. Restrict(draft, touched) \in [touched -> Values] /\ touched \in SUBSET DetailFields
      BY <2>1 DEF Restrict
    <2> HIDE DEF touched
    <2>4. StaffUpdatePlan(Slug, Restrict(draft, touched)) \in SaveRequests(b)
      BY <1>4, <2>3, SaveRequestsSay
    <2> QED BY <1>1, <1>4, <2>2, <2>4
  <1>5. CASE b = "price"
    <2>1. draft \in Values /\ ChangesOf(b, draft) = <<StaffSetPlanPrice(Slug, draft)>>
      BY <1>5, BlocksDiffer DEF DraftValues, ChangesOf
    <2>2. StaffSetPlanPrice(Slug, draft) \in SaveRequests(b)
      BY <1>5, <2>1, SaveRequestsSay
    <2> QED BY <1>1, <1>5, <2>1, <2>2
  <1>6. CASE b = "cap"
    <2>1. draft \in Values /\ ChangesOf(b, draft) = <<StaffSetPlanLimit(Slug, draft)>>
      BY <1>6, BlocksDiffer DEF DraftValues, ChangesOf
    <2>2. StaffSetPlanLimit(Slug, draft) \in SaveRequests(b)
      BY <1>6, <2>1, SaveRequestsSay
    <2> QED BY <1>1, <1>6, <2>1, <2>2
  <1> QED BY <1>2, <1>3, <1>4, <1>5, <1>6, BlocksDiffer

----------------------------------------------------------------------------
LEMMA NoSaveIs ==
    /\ NoSave \in SaveRecord /\ NoSave.block = "none" /\ NoSave.stage = "idle"
    /\ NoSave.call = NoCall /\ NoCall.stage = "idle"
  <1>1. NoCall \in CallRecord(StaffRequests, {0}) /\ NoCall.stage = "idle"
    BY NoCallIsIdle
  <1>2. 0 \in Drafts /\ <<>> \in Seq(FacetRequests)
    BY DEF Drafts
  <1>3. NoSave \in SaveRecord
    BY <1>1, <1>2 DEF NoSave, SaveRecord
  <1> QED BY <1>1, <1>3 DEF NoSave

LEMMA ClosedFormIs == ClosedForm \in FormRecord
  BY DEF ClosedForm, FormRecord, Drafts

LEMMA StaffInitInv == StaffInit => StaffInv
  <1> SUFFICES ASSUME StaffInit PROVE StaffInv
    OBVIOUS
  <1>1. /\ listing \in StaffListing /\ staffRecord = listing /\ rereading = NoRead
        /\ opens = 0 /\ swapRefused = FALSE /\ disturbed = {} /\ otherRemoval = {}
        /\ form = [b \in Blocks |-> ClosedForm] /\ saves = [s \in SaveSlots |-> NoSave]
    BY DEF StaffInit
  <1>3. rereading \in RecordRead /\ rereading.stage = "idle"
    BY <1>1 DEF NoRead, RecordRead
  <1>4. form \in [Blocks -> FormRecord] /\ FormsSound
    BY <1>1, ClosedFormIs DEF FormsSound, IsOpen
  <1>5. saves \in [SaveSlots -> SaveRecord] /\ SavesSound /\ LostIsKnown
    BY <1>1, NoSaveIs DEF SavesSound, SaveSound, LostIsKnown
  <1>6. StaffShape
    BY <1>1, <1>3, <1>4, <1>5 DEF StaffShape
  <1>7. RecordFollows /\ FacetsFollow /\ SwapNotRefused
    BY <1>1, <1>3 DEF RecordFollows, FacetsFollow, SwapNotRefused
  <1>8. OneFacetsSave /\ SwapsGoOn
    BY <1>1, NoSaveIs DEF OneFacetsSave, SwapsGoOn, FacetsSending
  <1> QED BY <1>4, <1>5, <1>6, <1>7, <1>8 DEF StaffInv

\* a save under way that a step does not touch goes on as it was
LEMMA SwapsStay ==
    ASSUME SwapsGoOn, listing'.facets = listing.facets,
           \A t \in SaveSlots : FacetsSending(t)' => saves'[t] = saves[t]
    PROVE  SwapsGoOn'
  <1> SUFFICES ASSUME NEW t \in SaveSlots, FacetsSending(t)',
                      saves'[t].call.stage # "answered" \/ saves'[t].call.ok
               PROVE  SwapGoesOn(t)'
    BY DEF SwapsGoOn
  <1>1. saves'[t] = saves[t]
    OBVIOUS
  <1>2. SwapGoesOn(t)
    BY <1>1 DEF SwapsGoOn, FacetsSending
  <1> QED BY <1>1, <1>2 DEF SwapGoesOn, StepsLeft, StepAt, StepFits, StepsInOrder, WillHold

\* a step that leaves the page and the listing alone
LEMMA NothingOfOursKeeps ==
    ASSUME StaffInv, otherRemoval' \subseteq Facets,
           UNCHANGED <<listing, staffRecord, rereading, form, opens, saves, swapRefused, disturbed>>
    PROVE  StaffInv'
  <1>1. /\ StaffShape' /\ FormsSound' /\ SavesSound' /\ LostIsKnown' /\ RecordFollows'
        /\ SwapNotRefused'
    BY DEF StaffInv, StaffShape, FormsSound, IsOpen, SavesSound, SaveSound, LostIsKnown,
       RecordFollows, SwapNotRefused
  <1>2. ASSUME Undisturbed' PROVE FacetsFollow' /\ OneFacetsSave' /\ SwapsGoOn'
    <2>1. FacetsFollow /\ OneFacetsSave /\ SwapsGoOn
      BY <1>2 DEF StaffInv, Undisturbed
    <2>2. FacetsFollow' /\ OneFacetsSave'
      BY <2>1 DEF FacetsFollow, FacetsSending, OneFacetsSave, IsOpen
    <2>3. SwapsGoOn'
      BY <2>1, SwapsStay
    <2> QED BY <2>2, <2>3
  <1> QED BY <1>1, <1>2 DEF StaffInv

\* the forms, while nothing is sent
LEMMA FormStepKeeps ==
    ASSUME StaffInv, UNCHANGED <<listing, staffRecord, rereading, saves, otherRemoval, swapRefused>>,
           form' \in [Blocks -> FormRecord], FormsSound', opens' \in Nat,
           disturbed \subseteq disturbed',
           disturbed' \subseteq {"others", "lost", "overlap", "stale"},
           Undisturbed' => OneFacetsSave'
    PROVE  StaffInv'
  <1>1. StaffShape' /\ SavesSound' /\ LostIsKnown' /\ RecordFollows' /\ SwapNotRefused'
    BY DEF StaffInv, StaffShape, SavesSound, SaveSound, LostIsKnown, RecordFollows,
           SwapNotRefused
  <1>2. ASSUME Undisturbed' PROVE FacetsFollow' /\ SwapsGoOn'
    <2>1. Undisturbed
      BY <1>2 DEF Undisturbed
    <2> QED BY <2>1, SwapsStay DEF StaffInv, FacetsFollow, FacetsSending
  <1> QED BY <1>1, <1>2 DEF StaffInv

LEMMA OpenFormKeeps == ASSUME StaffInv, NEW b \in Blocks, OpenForm(b) PROVE StaffInv'
  <1>1. StaffShape /\ FormsSound
    BY DEF StaffInv
  <1> DEFINE opened == [id |-> opens + 1, draft |-> DraftOf(staffRecord, b), error |-> FALSE]
  <1>2. DraftOf(staffRecord, b) \in DraftValues(b) /\ DraftValues(b) \subseteq Drafts
    BY <1>1, DraftsTyped DEF StaffShape
  <1>3. opened \in FormRecord /\ opened.draft \in DraftValues(b) /\ opened.id # 0
    BY <1>1, <1>2 DEF StaffShape, FormRecord
  <1> HIDE DEF opened
  <1>4. form' = [c \in Blocks |-> IF c = b THEN opened
                                  ELSE IF {b, c} \subseteq PlanForms THEN ClosedForm ELSE form[c]]
    BY DEF OpenForm, opened
  <1>5. form' \in [Blocks -> FormRecord]
    BY <1>1, <1>3, <1>4, ClosedFormIs DEF StaffShape
  <1>6. FormsSound'
    BY <1>1, <1>3, <1>4 DEF FormsSound, IsOpen
  <1>7. opens' \in Nat /\ disturbed' = disturbed \cup
            {k \in {"overlap"} : \E s \in SaveSlots : saves[s].block = b}
    BY <1>1 DEF OpenForm, StaffShape
  <1>8. ASSUME Undisturbed' PROVE OneFacetsSave'
    <2>1. Undisturbed /\ \A s \in SaveSlots : saves[s].block # b
      BY <1>7, <1>8 DEF Undisturbed
    <2>2. OneFacetsSave
      BY <2>1 DEF StaffInv
    <2>3. b # "facets" => form'["facets"] = form["facets"]
      BY <1>4, BlocksDiffer
    <2> QED BY <2>1, <2>2, <2>3 DEF OneFacetsSave, OpenForm, IsOpen
  <1> QED BY <1>1, <1>5, <1>6, <1>7, <1>8, FormStepKeeps DEF OpenForm, StaffShape, othersVars

LEMMA TypeInFormKeeps == ASSUME StaffInv, NEW b \in Blocks, TypeInForm(b) PROVE StaffInv'
  <1>1. StaffShape /\ FormsSound
    BY DEF StaffInv
  <1>2. PICK d \in DraftValues(b) : form' = [form EXCEPT ![b].draft = d]
    BY DEF TypeInForm
  <1>3. DraftValues(b) \subseteq Drafts
    BY <1>1, DraftsTyped DEF StaffShape
  <1> DEFINE typed == [form[b] EXCEPT !.draft = d]
  <1>4. typed \in FormRecord /\ typed.draft = d /\ typed.id = form[b].id
    BY <1>1, <1>3 DEF StaffShape, FormRecord
  <1>5. form' = [form EXCEPT ![b] = typed]
    BY <1>2
  <1> HIDE DEF typed
  <1>6. form' \in [Blocks -> FormRecord] /\ FormsSound'
    BY <1>1, <1>4, <1>5 DEF StaffShape, FormsSound, IsOpen, TypeInForm
  <1>7. ASSUME Undisturbed' PROVE OneFacetsSave'
    <2>1. OneFacetsSave
      BY <1>7 DEF StaffInv, Undisturbed, TypeInForm
    <2>2. form'["facets"].id = form["facets"].id /\ (IsOpen("facets")' => IsOpen("facets"))
      BY <1>1, <1>4, <1>5, BlocksDiffer DEF StaffShape, IsOpen, TypeInForm
    <2> QED BY <2>1, <2>2 DEF OneFacetsSave, TypeInForm
  <1> QED BY <1>1, <1>6, <1>7, FormStepKeeps DEF TypeInForm, StaffShape, othersVars

LEMMA CancelFormKeeps == ASSUME StaffInv, NEW b \in Blocks, CancelForm(b) PROVE StaffInv'
  <1>1. StaffShape /\ FormsSound
    BY DEF StaffInv
  <1>2. form' = [form EXCEPT ![b] = ClosedForm]
    BY DEF CancelForm
  <1>3. form' \in [Blocks -> FormRecord] /\ FormsSound'
    BY <1>1, <1>2, ClosedFormIs DEF StaffShape, FormsSound, IsOpen
  <1>4. ASSUME Undisturbed' PROVE OneFacetsSave'
    <2>1. OneFacetsSave
      BY <1>4 DEF StaffInv, Undisturbed, CancelForm
    <2>2. IsOpen("facets")' => IsOpen("facets") /\ form'["facets"] = form["facets"]
      BY <1>1, <1>2, BlocksDiffer DEF StaffShape, IsOpen
    <2> QED BY <2>1, <2>2 DEF OneFacetsSave, CancelForm
  <1> QED BY <1>1, <1>3, <1>4, FormStepKeeps DEF CancelForm, StaffShape, othersVars

\* a facets save starts with the whole way from the server's facets to the ticked ones
LEMMA SwapStarts ==
    ASSUME NEW s \in SaveSlots, NEW ticked \in SUBSET Facets,
           listing \in StaffListing, listing' = listing, staffRecord \in StaffListing,
           staffRecord.facets = listing.facets, FacetChanges(ticked) # <<>>,
           saves'[s].wants = ticked, saves'[s].call.stage = "sent",
           saves'[s].call.req = Head(FacetChanges(ticked)),
           saves'[s].todo = Tail(FacetChanges(ticked))
    PROVE  SwapGoesOn(s)'
  <1> DEFINE todo == FacetChanges(ticked)
  <1>1. /\ todo \in Seq(FacetRequests)
        /\ \A i \in 1..Len(todo) :
              \/ \E v \in ticked \ listing.facets : todo[i] = StaffAddToolFacet(Slug, v)
              \/ \E v \in listing.facets \ ticked : todo[i] = StaffRemoveToolFacet(Slug, v)
        /\ \A i, j \in 1..Len(todo) : i < j =>
              /\ todo[i] # todo[j]
              /\ todo[i].op = "StaffRemoveToolFacet" => todo[j].op = "StaffRemoveToolFacet"
        /\ \A v \in ticked \ listing.facets :
              \E i \in 1..Len(todo) : todo[i] = StaffAddToolFacet(Slug, v)
    BY FacetChangesSay
  <1> HIDE DEF todo
  <1>2. /\ Len(todo) \in Nat \ {0} /\ Head(todo) = todo[1] /\ Len(Tail(todo)) = Len(todo) - 1
        /\ \A i \in 1..Len(todo) - 1 : Tail(todo)[i] = todo[i + 1]
    BY <1>1 DEF todo
  <1>3. StepsLeft(s)' = 0..Len(todo) - 1
    BY <1>2 DEF StepsLeft, todo
  <1>4. \A i \in 0..Len(todo) - 1 : StepAt(s, i)' = todo[i + 1] /\ i + 1 \in 1..Len(todo)
    BY <1>2 DEF StepAt, todo
  <1>5. ASSUME NEW i \in StepsLeft(s)' PROVE StepFits(s, i)'
    <2>1. \/ \E v \in ticked \ listing.facets : StepAt(s, i)' = StaffAddToolFacet(Slug, v)
          \/ \E v \in listing.facets \ ticked : StepAt(s, i)' = StaffRemoveToolFacet(Slug, v)
      BY <1>1, <1>3, <1>4, <1>5
    <2> QED BY <2>1 DEF StepFits
  <1>6. ASSUME NEW i \in StepsLeft(s)', NEW j \in StepsLeft(s)', i < j
        PROVE  StepsInOrder(s, i, j)'
    <2>1. i + 1 \in 1..Len(todo) /\ j + 1 \in 1..Len(todo) /\ i + 1 < j + 1
      BY <1>2, <1>3, <1>6
    <2>2. StepAt(s, i)' = todo[i + 1] /\ StepAt(s, j)' = todo[j + 1]
      BY <1>3, <1>4, <1>6
    <2>3. /\ todo[i + 1] # todo[j + 1]
          /\ todo[i + 1].op = "StaffRemoveToolFacet" => todo[j + 1].op = "StaffRemoveToolFacet"
      BY <1>1, <2>1
    <2> QED BY <2>2, <2>3 DEF StepsInOrder
  <1>7. ASSUME NEW v \in ticked PROVE WillHold(s, v)'
    <2>1. CASE v \in listing.facets
      BY <2>1 DEF WillHold
    <2>2. CASE v \notin listing.facets
      <3>1. PICK i \in 1..Len(todo) : todo[i] = StaffAddToolFacet(Slug, v)
        BY <1>1, <2>2
      <3>2. i - 1 \in StepsLeft(s)' /\ StepAt(s, i - 1)' = StaffAddToolFacet(Slug, v)
        BY <1>2, <1>3, <1>4, <3>1
      <3> QED BY <3>2 DEF WillHold
    <2> QED BY <2>1, <2>2
  <1> QED BY <1>5, <1>6, <1>7 DEF SwapGoesOn

LEMMA SaveFormKeeps ==
    ASSUME StaffInv, NEW b \in Blocks, NEW s \in SaveSlots, SaveForm(b, s) PROVE StaffInv'
  <1>1. StaffShape /\ FormsSound /\ SavesSound /\ LostIsKnown /\ SwapNotRefused
    BY DEF StaffInv
  <1> DEFINE draft == form[b].draft
             todo == ChangesOf(b, draft)
             save == [block |-> b, id |-> form[b].id, wants |-> draft, todo |-> Tail(todo),
                      call |-> Sent(Head(todo)), stage |-> "sending", ok |-> FALSE]
             fresh == [form[b] EXCEPT !.error = FALSE]
  <1>2. /\ draft \in DraftValues(b) /\ draft \in Drafts /\ todo # <<>>
        /\ saves[s] = NoSave /\ saves' = [saves EXCEPT ![s] = save]
        /\ form' = [form EXCEPT ![b] = fresh]
        /\ disturbed' = disturbed \cup {k \in {"stale"} :
              rereading # NoRead /\ DraftOf(staffRecord, b) # DraftOf(listing, b)}
    BY <1>1, DraftsTyped DEF SaveForm, StaffShape, FormsSound
  <1>3. fresh \in FormRecord /\ fresh.draft = draft /\ fresh.id = form[b].id
    BY <1>1 DEF StaffShape, FormRecord
  <1>4. /\ Head(todo) \in SaveRequests(b) /\ Head(todo) \in StaffRequests
        /\ Tail(todo) \in Seq(FacetRequests)
        /\ b # "facets" => Tail(todo) = <<>>
    BY <1>1, <1>2, ChangesTyped DEF StaffShape, StaffRequests
  <1> HIDE DEF todo, fresh
  <1>5. /\ Sent(Head(todo)) \in CallRecord(StaffRequests, {0})
        /\ Sent(Head(todo)).stage = "sent" /\ Sent(Head(todo)).req = Head(todo)
    BY <1>4, SentIsSent
  <1>6. save \in SaveRecord
    BY <1>1, <1>2, <1>4, <1>5 DEF SaveRecord, StaffShape, FormRecord
  <1>7. /\ save.block = b /\ save.id = form[b].id /\ save.wants = draft
        /\ save.todo = Tail(todo) /\ save.call = Sent(Head(todo)) /\ save.stage = "sending"
    OBVIOUS
  <1> HIDE DEF save
  <1>8. /\ saves' \in [SaveSlots -> SaveRecord] /\ saves'[s] = save
        /\ \A t \in SaveSlots \ {s} : saves'[t] = saves[t]
    BY <1>1, <1>2, <1>6 DEF StaffShape
  <1>9. form[b].id # 0 /\ (b = "facets" => draft \subseteq Facets)
    BY <1>1, <1>2, BlocksDiffer DEF DraftValues, FormsSound, SaveForm
  <1>10. SavesSound'
    <2>1. SaveSound(s)'
      BY <1>4, <1>5, <1>7, <1>8, <1>9 DEF SaveSound
    <2>2. ASSUME NEW t \in SaveSlots, t # s PROVE SaveSound(t)'
      BY <1>1, <1>8, <2>2 DEF SavesSound, SaveSound
    <2> QED BY <2>1, <2>2 DEF SavesSound
  <1>11. LostIsKnown'
    BY <1>1, <1>2, <1>5, <1>7, <1>8 DEF LostIsKnown
  <1>12. StaffShape' /\ RecordFollows' /\ SwapNotRefused'
    <2>1. form' \in [Blocks -> FormRecord]
      BY <1>1, <1>2, <1>3 DEF StaffShape
    <2> QED BY <1>1, <1>2, <1>7, <1>8, <2>1
            DEF StaffShape, RecordFollows, SwapNotRefused, SaveForm, othersVars
  <1>13. FormsSound'
    BY <1>1, <1>2, <1>3 DEF FormsSound, IsOpen, SaveForm, StaffShape
  <1>14. ASSUME Undisturbed' PROVE FacetsFollow' /\ OneFacetsSave' /\ SwapsGoOn'
    <2>1. Undisturbed /\ FacetsFollow /\ OneFacetsSave /\ SwapsGoOn
      BY <1>2, <1>14 DEF StaffInv, Undisturbed
    <2>2. CASE b = "facets"
      <3>1. \A t \in SaveSlots : saves[t].block # "facets"
        BY <2>1, <2>2 DEF OneFacetsSave, SaveForm, SavePending
      <3>2. OneFacetsSave'
        <4>1. form'["facets"].id = save.id
          BY <1>1, <1>2, <1>3, <1>7, <2>2 DEF StaffShape
        <4> QED BY <1>7, <1>8, <2>2, <3>1, <4>1 DEF OneFacetsSave
      <3>3. FacetsFollow'
        BY <1>7, <1>8, <2>2 DEF FacetsFollow, FacetsSending
      <3>4. staffRecord.facets = listing.facets
        <4>1. CASE rereading = NoRead
          BY <2>1, <3>1, <4>1 DEF FacetsFollow, FacetsSending, NoRead
        <4>2. CASE rereading # NoRead
          <5>1. DraftOf(staffRecord, b) = DraftOf(listing, b)
            BY <1>2, <1>14, <4>2 DEF Undisturbed
          <5> QED BY <2>2, <5>1, BlocksDiffer DEF DraftOf
        <4> QED BY <4>1, <4>2
      <3>5. todo = FacetChanges(draft)
        BY <2>2, BlocksDiffer DEF todo, ChangesOf
      <3>6. SwapGoesOn(s)'
        <4>1. /\ saves'[s].wants = draft /\ saves'[s].call.stage = "sent"
              /\ saves'[s].call.req = Head(FacetChanges(draft))
              /\ saves'[s].todo = Tail(FacetChanges(draft))
          BY <1>5, <1>7, <1>8, <3>5
        <4>2. draft \in SUBSET Facets /\ FacetChanges(draft) # <<>> /\ listing' = listing
          BY <1>2, <1>9, <2>2, <3>5 DEF SaveForm
        <4> QED BY <1>1, <3>4, <4>1, <4>2, SwapStarts DEF StaffShape
      <3>7. SwapsGoOn'
        BY <1>8, <3>1, <3>6 DEF SwapsGoOn, FacetsSending
      <3> QED BY <3>2, <3>3, <3>7
    <2>3. CASE b # "facets"
      <3>1. \A t \in SaveSlots : saves'[t].block = "facets" => saves'[t] = saves[t]
        BY <1>7, <1>8, <2>3
      <3>2. form'["facets"] = form["facets"]
        BY <1>1, <1>2, <2>3, BlocksDiffer DEF StaffShape
      <3>3. OneFacetsSave'
        BY <2>1, <3>1, <3>2 DEF OneFacetsSave, IsOpen
      <3>4. FacetsFollow'
        <4>1. ASSUME NEW t \in SaveSlots, FacetsSending(t) PROVE FacetsSending(t)'
          BY <1>2, <1>8, <4>1, NoSaveIs DEF FacetsSending
        <4> QED BY <2>1, <4>1 DEF FacetsFollow, SaveForm
      <3>5. SwapsGoOn'
        BY <2>1, <3>1, SwapsStay DEF FacetsSending, SaveForm
      <3> QED BY <3>3, <3>4, <3>5
    <2> QED BY <2>2, <2>3
  <1> QED BY <1>10, <1>11, <1>12, <1>13, <1>14 DEF StaffInv

\* a step of a facets save that the server makes leaves the rest of the way
LEMMA SwapAdvances ==
    ASSUME NEW s \in SaveSlots, listing \in StaffListing, saves[s] \in SaveRecord,
           saves[s].call.stage # "answered", saves'[s].call.stage = "answered",
           saves'[s].todo = saves[s].todo, saves'[s].wants = saves[s].wants,
           listing' = Written(saves[s].call.req), SwapGoesOn(s)
    PROVE  SwapGoesOn(s)'
  <1> DEFINE n == Len(saves[s].todo)
             L == listing.facets
             M == listing'.facets
             req == saves[s].call.req
  <1>1. n \in Nat /\ L \subseteq Facets
    BY DEF SaveRecord, StaffListing
  <1>2. StepsLeft(s) = 0..n /\ StepsLeft(s)' = 1..n
    BY DEF StepsLeft
  <1> HIDE DEF n
  <1>3. 0 \in StepsLeft(s) /\ StepAt(s, 0) = req
    BY <1>1, <1>2 DEF StepAt
  <1>4. \A i \in 1..n : /\ StepAt(s, i)' = StepAt(s, i) /\ i \in StepsLeft(s)
                        /\ StepAt(s, i) # req
                        /\ req.op = "StaffRemoveToolFacet"
                              => StepAt(s, i).op = "StaffRemoveToolFacet"
                        /\ StepFits(s, i)
    <2> SUFFICES ASSUME NEW i \in 1..n
                 PROVE  /\ StepAt(s, i)' = StepAt(s, i) /\ i \in StepsLeft(s)
                        /\ StepAt(s, i) # req
                        /\ req.op = "StaffRemoveToolFacet"
                              => StepAt(s, i).op = "StaffRemoveToolFacet"
                        /\ StepFits(s, i)
      OBVIOUS
    <2>1. i \in StepsLeft(s) /\ 0 < i /\ i # 0
      BY <1>1, <1>2
    <2>2. StepsInOrder(s, 0, i) /\ StepFits(s, i)
      BY <1>3, <2>1 DEF SwapGoesOn
    <2>3. StepAt(s, i)' = StepAt(s, i)
      BY <2>1 DEF StepAt
    <2> QED BY <1>3, <2>1, <2>2, <2>3 DEF StepsInOrder
  <1>5. \/ \E v \in Facets \ L : req = StaffAddToolFacet(Slug, v) /\ M = L \cup {v}
        \/ \E v \in L \ saves[s].wants : req = StaffRemoveToolFacet(Slug, v) /\ M = L \ {v}
    <2>1. StepFits(s, 0)
      BY <1>3 DEF SwapGoesOn
    <2>2. \/ \E v \in Facets \ L : req = StaffAddToolFacet(Slug, v)
          \/ \E v \in L \ saves[s].wants : req = StaffRemoveToolFacet(Slug, v)
      BY <1>3, <2>1 DEF StepFits
    <2> QED BY <1>1, <2>2, FacetWritten
  <1> HIDE DEF req, L, M
  <1>6. ASSUME NEW i \in StepsLeft(s)' PROVE StepFits(s, i)'
    <2>1. /\ i \in 1..n /\ StepAt(s, i)' = StepAt(s, i) /\ StepAt(s, i) # req
          /\ req.op = "StaffRemoveToolFacet" => StepAt(s, i).op = "StaffRemoveToolFacet"
      BY <1>2, <1>4
    <2>2. \/ \E v \in Facets \ L : StepAt(s, i) = StaffAddToolFacet(Slug, v)
          \/ \E v \in L \ saves[s].wants : StepAt(s, i) = StaffRemoveToolFacet(Slug, v)
      BY <1>4, <2>1 DEF StepFits, L
    <2>3. \/ \E v \in Facets \ M : StepAt(s, i) = StaffAddToolFacet(Slug, v)
          \/ \E v \in M \ saves[s].wants : StepAt(s, i) = StaffRemoveToolFacet(Slug, v)
      BY <1>5, <2>1, <2>2, FacetRequestsSay
    <2> QED BY <2>1, <2>3 DEF StepFits, M
  <1>7. ASSUME NEW i \in StepsLeft(s)', NEW j \in StepsLeft(s)', i < j
        PROVE  StepsInOrder(s, i, j)'
    <2>1. /\ i \in StepsLeft(s) /\ j \in StepsLeft(s)
          /\ StepAt(s, i)' = StepAt(s, i) /\ StepAt(s, j)' = StepAt(s, j)
      BY <1>2, <1>4
    <2>2. StepsInOrder(s, i, j)
      BY <1>7, <2>1 DEF SwapGoesOn
    <2> QED BY <2>1, <2>2 DEF StepsInOrder
  <1>8. ASSUME NEW w \in saves[s].wants PROVE WillHold(s, w)'
    <2>1. w \in L \/ \E i \in 0..n : StepAt(s, i) = StaffAddToolFacet(Slug, w)
      BY <1>2, <1>8 DEF SwapGoesOn, WillHold, L
    <2>2. CASE w \in L
      <3>1. w \in M
        BY <1>5, <1>8, <2>2
      <3> QED BY <3>1 DEF WillHold, M
    <2>3. ASSUME NEW i \in 0..n, StepAt(s, i) = StaffAddToolFacet(Slug, w)
          PROVE  WillHold(s, w)'
      <3>1. CASE i = 0
        <4>1. req = StaffAddToolFacet(Slug, w)
          BY <1>3, <2>3, <3>1
        <4>2. w \in M
          BY <1>5, <4>1, FacetRequestsSay
        <4> QED BY <4>2 DEF WillHold, M
      <3>2. CASE i # 0
        <4>1. i \in StepsLeft(s)' /\ StepAt(s, i)' = StaffAddToolFacet(Slug, w)
          BY <1>1, <1>2, <1>4, <2>3, <3>2
        <4> QED BY <4>1 DEF WillHold
      <3> QED BY <3>1, <3>2
    <2> QED BY <2>1, <2>2, <2>3
  <1>9. \A w \in saves'[s].wants : WillHold(s, w)'
    BY <1>8
  <1> QED BY <1>6, <1>7, <1>9 DEF SwapGoesOn

\* a facets save that nothing disturbed asks for nothing the server's rule forbids
LEMMA SwapIsAllowed ==
    ASSUME NEW s \in SaveSlots, listing \in StaffListing, saves[s] \in SaveRecord,
           saves[s].call.stage = "sent", SwapGoesOn(s),
           saves[s].wants \cap Required # {}
    PROVE  Allowed(saves[s].call.req)
  <1> DEFINE req == saves[s].call.req
  <1>1. listing.facets \subseteq Facets /\ Len(saves[s].todo) \in Nat
    BY DEF StaffListing, SaveRecord
  <1>2. /\ StepsLeft(s) = 0..Len(saves[s].todo) /\ 0 \in StepsLeft(s)
        /\ StepAt(s, 0) = req
    BY <1>1 DEF StepsLeft, StepAt
  <1>3. StepFits(s, 0)
    BY <1>2 DEF SwapGoesOn
  <1>4. ASSUME NEW v \in Facets \ listing.facets, req = StaffAddToolFacet(Slug, v)
        PROVE  Allowed(req)
    BY <1>4, FacetWritten
  <1>5. ASSUME NEW v \in listing.facets \ saves[s].wants, req = StaffRemoveToolFacet(Slug, v)
        PROVE  Allowed(req)
    <2>1. PICK w \in saves[s].wants : w \in Required
      OBVIOUS
    <2>2. w \in listing.facets
      <3> SUFFICES ASSUME NEW i \in StepsLeft(s), StepAt(s, i) = StaffAddToolFacet(Slug, w)
                   PROVE  FALSE
        BY <2>1 DEF SwapGoesOn, WillHold
      <3>1. i # 0
        BY <1>2, <1>5, FacetRequestsSay
      <3>2. 0 < i
        BY <1>1, <1>2, <3>1
      <3>3. StepsInOrder(s, 0, i)
        BY <1>2, <3>2 DEF SwapGoesOn
      <3> QED BY <1>2, <1>5, <3>3, FacetRequestsSay DEF StepsInOrder
    <2>3. w # v /\ v \in Facets
      BY <1>1, <1>5
    <2> QED BY <1>5, <2>1, <2>2, <2>3, FacetWritten
  <1> QED BY <1>2, <1>3, <1>4, <1>5 DEF StepFits

\* a call of a save that moves on: the save is otherwise as it was
LEMMA CallMoves ==
    ASSUME StaffShape, SavesSound, NEW s \in SaveSlots, NEW call \in CallRecord(StaffRequests, {0}),
           saves[s].call.stage \in {"sent", "checked"},
           call.stage \in {"checked", "answered"}, call.req = saves[s].call.req,
           saves' = [saves EXCEPT ![s].call = call]
    PROVE  /\ saves[s].stage = "sending" /\ saves[s].block \in Blocks
           /\ saves[s].call.req \in SaveRequests(saves[s].block)
           /\ saves' \in [SaveSlots -> SaveRecord] /\ SavesSound'
           /\ \A t \in SaveSlots \ {s} : saves'[t] = saves[t]
           /\ saves'[s].call = call /\ saves'[s].block = saves[s].block
           /\ saves'[s].id = saves[s].id /\ saves'[s].stage = saves[s].stage
           /\ saves'[s].todo = saves[s].todo /\ saves'[s].wants = saves[s].wants
  <1>1. PICK save \in SaveRecord : save = saves[s]
    BY DEF StaffShape
  <1>2. /\ save.stage = "sending" /\ save.block \in Blocks /\ save.id # 0
        /\ save.call.req \in SaveRequests(save.block)
    BY <1>1, NoSaveIs DEF SavesSound, SaveSound
  <1> DEFINE served == [save EXCEPT !.call = call]
  <1>3. /\ served \in SaveRecord /\ served.call = call /\ served.block = save.block
        /\ served.id = save.id /\ served.wants = save.wants /\ served.todo = save.todo
        /\ served.stage = save.stage
    BY DEF SaveRecord
  <1>4. saves' = [saves EXCEPT ![s] = served]
    BY <1>1
  <1> HIDE DEF served
  <1>5. /\ saves' \in [SaveSlots -> SaveRecord] /\ saves'[s] = served
        /\ \A t \in SaveSlots \ {s} : saves'[t] = saves[t]
    BY <1>3, <1>4 DEF StaffShape
  <1>6. SavesSound'
    <2>1. SaveSound(s)'
      BY <1>1, <1>2, <1>3, <1>5 DEF SavesSound, SaveSound
    <2>2. ASSUME NEW t \in SaveSlots, t # s PROVE SaveSound(t)'
      BY <1>5, <2>2 DEF SavesSound, SaveSound
    <2> QED BY <2>1, <2>2 DEF SavesSound
  <1> QED BY <1>1, <1>2, <1>3, <1>5, <1>6

\* whatever the server makes of a call, the forms and the record stay, and the
\* swap goes on if it was not disturbed
LEMMA ServedKeepsForms ==
    ASSUME StaffInv, NEW s \in SaveSlots, NEW call \in CallRecord(StaffRequests, {0}),
           saves[s].call.stage \in {"sent", "checked"},
           call.stage \in {"checked", "answered"}, call.req = saves[s].call.req,
           saves' = [saves EXCEPT ![s].call = call],
           listing' \in StaffListing, swapRefused' \in BOOLEAN, disturbed \subseteq disturbed',
           disturbed' \subseteq {"others", "lost", "overlap", "stale"},
           UNCHANGED <<staffRecord, rereading, form, opens, otherRemoval>>,
           saves[s].block # "facets" => listing'.facets = listing.facets,
           call.stage = "answered" /\ ~call.ok /\ saves[s].block # "facets" => "lost" \in disturbed',
           SwapNotRefused',
           Undisturbed' /\ SwapGoesOn(s) /\ (call.stage # "answered" \/ call.ok)
               => SwapGoesOn(s)'
    PROVE  StaffInv'
  <1>1. StaffShape /\ FormsSound /\ SavesSound /\ LostIsKnown /\ RecordFollows
    BY DEF StaffInv
  <1>2. /\ saves[s].stage = "sending" /\ saves[s].block \in Blocks
        /\ saves' \in [SaveSlots -> SaveRecord] /\ SavesSound'
        /\ \A t \in SaveSlots \ {s} : saves'[t] = saves[t]
        /\ saves'[s].call = call /\ saves'[s].block = saves[s].block
        /\ saves'[s].id = saves[s].id /\ saves'[s].stage = saves[s].stage
    BY <1>1, CallMoves
  <1>3. StaffShape' /\ FormsSound'
    BY <1>1, <1>2 DEF StaffShape, FormsSound, IsOpen
  <1>4. LostIsKnown'
    <2> SUFFICES ASSUME NEW t \in SaveSlots, saves'[t].stage = "sending",
                        saves'[t].block # "facets", saves'[t].call.stage = "answered",
                        ~saves'[t].call.ok
                 PROVE  "lost" \in disturbed'
      BY DEF LostIsKnown
    <2>1. CASE t = s
      BY <1>2, <2>1
    <2>2. CASE t # s
      BY <1>1, <1>2, <2>2 DEF LostIsKnown
    <2> QED BY <2>1, <2>2
  <1>5. RecordFollows'
    BY <1>2 DEF RecordFollows
  <1>6. ASSUME Undisturbed' PROVE FacetsFollow' /\ OneFacetsSave' /\ SwapsGoOn'
    <2>1. Undisturbed /\ FacetsFollow /\ OneFacetsSave /\ SwapsGoOn
      BY <1>6 DEF StaffInv, Undisturbed
    <2>2. \A t \in SaveSlots : /\ saves'[t].block = saves[t].block
                               /\ saves'[t].id = saves[t].id
                               /\ saves'[t].stage = saves[t].stage
      BY <1>2
    <2>3. OneFacetsSave'
      BY <2>1, <2>2 DEF OneFacetsSave, IsOpen
    <2>4. CASE saves[s].block = "facets"
      <3>1. FacetsFollow'
        BY <1>2, <2>4 DEF FacetsFollow, FacetsSending
      <3>2. \A t \in SaveSlots \ {s} : saves[t].block # "facets"
        BY <2>1, <2>4 DEF OneFacetsSave
      <3>3. SwapsGoOn'
        <4> SUFFICES ASSUME NEW t \in SaveSlots, saves'[t].block = "facets",
                            saves'[t].call.stage # "answered" \/ saves'[t].call.ok
                     PROVE  SwapGoesOn(t)'
          BY DEF SwapsGoOn, FacetsSending
        <4>1. t = s
          BY <2>2, <3>2
        <4>2. FacetsSending(s) /\ SwapGoesOn(s)
          BY <1>2, <2>1, <2>4 DEF SwapsGoOn, FacetsSending
        <4> QED BY <1>2, <1>6, <4>1, <4>2
      <3> QED BY <2>3, <3>1, <3>3
    <2>5. CASE saves[s].block # "facets"
      <3>1. FacetsFollow'
        BY <2>1, <2>2, <2>5 DEF FacetsFollow, FacetsSending
      <3>2. SwapsGoOn'
        <4>1. \A t \in SaveSlots : FacetsSending(t)' => saves'[t] = saves[t]
          BY <1>2, <2>5 DEF FacetsSending
        <4> QED BY <2>1, <2>5, <4>1, SwapsStay
      <3> QED BY <2>3, <3>1, <3>2
    <2> QED BY <2>4, <2>5
  <1> QED BY <1>2, <1>3, <1>4, <1>5, <1>6 DEF StaffInv

LEMMA CheckSaveKeeps == ASSUME StaffInv, NEW s \in SaveSlots, CheckSave(s) PROVE StaffInv'
  <1>1. StaffShape /\ SavesSound /\ SwapNotRefused
    BY DEF StaffInv
  <1>2. PICK save \in SaveRecord : save = saves[s]
    BY <1>1 DEF StaffShape
  <1>3. save.call \in CallRecord(StaffRequests, {0}) /\ save.call.stage = "sent"
    BY <1>2 DEF CheckSave, SaveRecord
  <1>4. /\ save.stage = "sending" /\ save.block \in Blocks
        /\ save.call.req \in SaveRequests(save.block)
    BY <1>1, <1>2, <1>3, NoSaveIs DEF SavesSound, SaveSound
  <1>5. save.block # "facets" => Allowed(save.call.req)
    BY <1>1, <1>4, RequestWritten DEF StaffShape
  <1>6. UNCHANGED <<listing, staffRecord, rereading, form, opens, otherRemoval, disturbed>>
    BY DEF CheckSave, othersVars
  <1>7. listing' \in StaffListing /\ disturbed' \subseteq {"others", "lost", "overlap", "stale"}
    BY <1>1, <1>6 DEF StaffShape
  <1>8. CASE Allowed(save.call.req)
    <2> DEFINE call == [save.call EXCEPT !.stage = "checked"]
    <2>1. /\ call \in CallRecord(StaffRequests, {0}) /\ call.stage = "checked"
          /\ call.req = save.call.req
      BY <1>3 DEF CallRecord
    <2>2. saves' = [saves EXCEPT ![s].call = call] /\ UNCHANGED swapRefused
      BY <1>2, <1>8 DEF CheckSave
    <2> HIDE DEF call
    <2>3. /\ saves'[s].call = call /\ saves'[s].todo = saves[s].todo
          /\ saves'[s].wants = saves[s].wants
      BY <1>1, <1>2, <1>3, <2>1, <2>2, CallMoves
    <2>4. ASSUME SwapGoesOn(s) PROVE SwapGoesOn(s)'
      <3>1. /\ StepsLeft(s)' = StepsLeft(s)
            /\ \A i : StepAt(s, i)' = StepAt(s, i)
        BY <1>2, <1>3, <2>1, <2>3 DEF StepsLeft, StepAt
      <3> QED BY <1>6, <2>3, <2>4, <3>1
              DEF SwapGoesOn, StepFits, StepsInOrder, WillHold
    <2>5. SwapNotRefused'
      BY <1>1, <1>6, <2>2 DEF SwapNotRefused
    <2> QED BY <1>1, <1>2, <1>3, <1>6, <1>7, <2>1, <2>2, <2>4, <2>5, ServedKeepsForms
            DEF StaffShape
  <1>9. CASE ~Allowed(save.call.req)
    <2> DEFINE call == Fails(save.call)
    <2>1. /\ call \in CallRecord(StaffRequests, {0}) /\ call.stage = "answered"
          /\ call.req = save.call.req
      BY <1>3 DEF Fails, CallRecord
    <2>2. call.ok = FALSE
      BY <1>3 DEF Fails, CallRecord
    <2>3. /\ saves' = [saves EXCEPT ![s].call = call]
          /\ swapRefused' = (swapRefused \/ save.wants \cap Required # {})
      BY <1>2, <1>9 DEF CheckSave
    <2> HIDE DEF call
    <2>4. save.block = "facets"
      BY <1>5, <1>9
    <2>5. SwapNotRefused'
      <3> SUFFICES ASSUME swapRefused', disturbed = {} PROVE FALSE
        BY <1>6 DEF SwapNotRefused
      <3>1. save.wants \cap Required # {}
        BY <1>1, <2>3 DEF SwapNotRefused
      <3>2. SwapGoesOn(s)
        BY <1>2, <1>3, <1>4, <2>4 DEF StaffInv, Undisturbed, SwapsGoOn, FacetsSending
      <3>3. Allowed(saves[s].call.req)
        BY <1>1, <1>2, <1>3, <3>1, <3>2, SwapIsAllowed DEF StaffShape
      <3> QED BY <1>2, <1>9, <3>3
    <2>6. swapRefused' \in BOOLEAN
      BY <1>1, <2>3 DEF StaffShape
    <2> QED BY <1>2, <1>3, <1>6, <1>7, <2>1, <2>2, <2>3, <2>4, <2>5, <2>6, ServedKeepsForms
  <1> QED BY <1>8, <1>9

LEMMA WriteSaveKeeps == ASSUME StaffInv, NEW s \in SaveSlots, WriteSave(s) PROVE StaffInv'
  <1>1. StaffShape /\ SavesSound /\ SwapNotRefused
    BY DEF StaffInv
  <1>2. PICK save \in SaveRecord : save = saves[s]
    BY <1>1 DEF StaffShape
  <1>3. save.call \in CallRecord(StaffRequests, {0}) /\ save.call.stage = "checked"
    BY <1>2 DEF WriteSave, SaveRecord
  <1>4. /\ save.stage = "sending" /\ save.block \in Blocks
        /\ save.call.req \in SaveRequests(save.block)
    BY <1>1, <1>2, <1>3, NoSaveIs DEF SavesSound, SaveSound
  <1>5. PICK done \in BOOLEAN, arrives \in BOOLEAN :
            /\ arrives => done
            /\ listing' = IF done THEN Written(save.call.req) ELSE listing
            /\ saves' = [saves EXCEPT ![s].call =
                            IF arrives THEN Succeeds(save.call, 0) ELSE Fails(save.call)]
            /\ disturbed' = disturbed \cup {k \in {"lost"} : ~arrives}
    BY <1>2 DEF WriteSave
  <1>6. UNCHANGED <<staffRecord, rereading, form, opens, otherRemoval, swapRefused>>
    BY DEF WriteSave, othersVars
  <1>7. /\ Written(save.call.req) \in StaffListing
        /\ save.block # "facets" => Written(save.call.req).facets = listing.facets
    BY <1>1, <1>4, RequestWritten DEF StaffShape
  <1>8. /\ listing' \in StaffListing /\ swapRefused' \in BOOLEAN
        /\ save.block # "facets" => listing'.facets = listing.facets
    BY <1>1, <1>5, <1>6, <1>7 DEF StaffShape
  <1>9. /\ disturbed \subseteq disturbed'
        /\ disturbed' \subseteq {"others", "lost", "overlap", "stale"}
        /\ ~arrives => "lost" \in disturbed'
    BY <1>1, <1>5 DEF StaffShape
  <1> DEFINE call == IF arrives THEN Succeeds(save.call, 0) ELSE Fails(save.call)
  <1>10. /\ call \in CallRecord(StaffRequests, {0}) /\ call.stage = "answered"
         /\ call.ok = arrives /\ call.req = save.call.req
    <2>1. /\ Succeeds(save.call, 0) \in CallRecord(StaffRequests, {0})
          /\ Succeeds(save.call, 0).stage = "answered" /\ Succeeds(save.call, 0).ok = TRUE
          /\ Succeeds(save.call, 0).req = save.call.req
      BY <1>3 DEF Succeeds, CallRecord
    <2>2. /\ Fails(save.call) \in CallRecord(StaffRequests, {0})
          /\ Fails(save.call).stage = "answered" /\ Fails(save.call).ok = FALSE
          /\ Fails(save.call).req = save.call.req
      BY <1>3 DEF Fails, CallRecord
    <2> QED BY <2>1, <2>2
  <1>11. saves' = [saves EXCEPT ![s].call = call]
    BY <1>5
  <1> HIDE DEF call
  <1>12. SwapNotRefused'
    BY <1>1, <1>6, <1>9 DEF SwapNotRefused
  <1>13. ASSUME Undisturbed', SwapGoesOn(s) PROVE SwapGoesOn(s)'
    <2>1. arrives /\ listing' = Written(saves[s].call.req)
      BY <1>2, <1>5, <1>9, <1>13 DEF Undisturbed
    <2>2. /\ saves'[s].call = call /\ saves'[s].todo = saves[s].todo
          /\ saves'[s].wants = saves[s].wants
      BY <1>1, <1>2, <1>3, <1>10, <1>11, CallMoves
    <2> QED BY <1>1, <1>2, <1>3, <1>10, <1>13, <2>1, <2>2, SwapAdvances DEF StaffShape
  <1> QED BY <1>2, <1>3, <1>6, <1>8, <1>9, <1>10, <1>11, <1>12, <1>13, ServedKeepsForms

\* saves that are answered, wait, go on or end, with the record they wait for
LEMMA SavesMoveKeeps ==
    ASSUME StaffInv, UNCHANGED <<listing, opens, otherRemoval, swapRefused>>,
           staffRecord' \in StaffListing, rereading' \in RecordRead,
           rereading'.stage = "answered" => rereading'.data \in StaffListing,
           rereading'.stage = "idle" => rereading' = NoRead,
           form' \in [Blocks -> FormRecord], FormsSound',
           IsOpen("facets")' => IsOpen("facets") /\ form'["facets"].id = form["facets"].id,
           saves' \in [SaveSlots -> SaveRecord],
           \A t \in SaveSlots :
               /\ saves'[t] # NoSave => saves'[t].block = saves[t].block /\ saves[t] # NoSave
               /\ saves'[t] # NoSave => saves'[t].id = saves[t].id
               /\ saves'[t].stage = "sending" => saves'[t] = saves[t]
               /\ saves'[t].stage # "sending" => saves'[t].call = NoCall,
           disturbed \subseteq disturbed',
           disturbed' \subseteq {"others", "lost", "overlap", "stale"},
           RecordFollows', Undisturbed' => FacetsFollow'
    PROVE  StaffInv'
  <1>1. StaffShape /\ SavesSound /\ LostIsKnown /\ SwapNotRefused
    BY DEF StaffInv
  <1>2. StaffShape' /\ SwapNotRefused'
    BY <1>1 DEF StaffShape, SwapNotRefused
  <1>3. SavesSound'
    BY <1>1, NoSaveIs DEF SavesSound, SaveSound
  <1>4. LostIsKnown'
    BY <1>1 DEF LostIsKnown
  <1>5. ASSUME Undisturbed' PROVE OneFacetsSave' /\ SwapsGoOn'
    <2>1. OneFacetsSave /\ SwapsGoOn
      BY <1>5 DEF StaffInv, Undisturbed
    <2>2. \A t \in SaveSlots : saves'[t].block = "facets" =>
              saves[t].block = "facets" /\ saves'[t].id = saves[t].id
      BY NoSaveIs
    <2>3. OneFacetsSave'
      BY <2>1, <2>2 DEF OneFacetsSave
    <2>4. SwapsGoOn'
      BY <2>1, SwapsStay DEF FacetsSending
    <2> QED BY <2>3, <2>4
  <1> QED BY <1>2, <1>3, <1>4, <1>5 DEF StaffInv

\* the next request of a facets save
LEMMA SwapSends ==
    ASSUME NEW s \in SaveSlots, listing' = listing, saves[s] \in SaveRecord,
           saves[s].call.stage = "answered", saves[s].todo # <<>>,
           saves'[s].call.stage = "sent", saves'[s].call.req = Head(saves[s].todo),
           saves'[s].todo = Tail(saves[s].todo), saves'[s].wants = saves[s].wants,
           SwapGoesOn(s)
    PROVE  SwapGoesOn(s)'
  <1> DEFINE todo == saves[s].todo
             n == Len(todo)
  <1>1. todo \in Seq(FacetRequests)
    BY DEF SaveRecord
  <1>2. /\ n \in Nat \ {0} /\ Head(todo) = todo[1] /\ Len(Tail(todo)) = n - 1
        /\ \A i \in 1..n - 1 : Tail(todo)[i] = todo[i + 1]
    BY <1>1
  <1>3. StepsLeft(s) = 1..n /\ StepsLeft(s)' = 0..n - 1
    BY <1>2 DEF StepsLeft
  <1>4. \A i \in 0..n - 1 : StepAt(s, i)' = StepAt(s, i + 1) /\ i + 1 \in 1..n
    BY <1>2 DEF StepAt
  <1> HIDE DEF n, todo
  <1>5. ASSUME NEW i \in StepsLeft(s)' PROVE StepFits(s, i)'
    <2>1. StepAt(s, i)' = StepAt(s, i + 1) /\ StepFits(s, i + 1)
      BY <1>3, <1>4, <1>5 DEF SwapGoesOn
    <2> QED BY <2>1 DEF StepFits
  <1>6. ASSUME NEW i \in StepsLeft(s)', NEW j \in StepsLeft(s)', i < j
        PROVE  StepsInOrder(s, i, j)'
    <2>1. /\ i + 1 \in StepsLeft(s) /\ j + 1 \in StepsLeft(s) /\ i + 1 < j + 1
          /\ StepAt(s, i)' = StepAt(s, i + 1) /\ StepAt(s, j)' = StepAt(s, j + 1)
      BY <1>2, <1>3, <1>4, <1>6
    <2>2. StepsInOrder(s, i + 1, j + 1)
      BY <2>1 DEF SwapGoesOn
    <2> QED BY <2>1, <2>2 DEF StepsInOrder
  <1>7. ASSUME NEW w \in saves[s].wants PROVE WillHold(s, w)'
    <2>1. ASSUME NEW i \in StepsLeft(s), StepAt(s, i) = StaffAddToolFacet(Slug, w)
          PROVE  WillHold(s, w)'
      <3>1. i - 1 \in StepsLeft(s)' /\ (i - 1) + 1 = i
        BY <1>2, <1>3, <2>1
      <3>2. StepAt(s, i - 1)' = StaffAddToolFacet(Slug, w)
        BY <1>3, <1>4, <2>1, <3>1
      <3> QED BY <3>1, <3>2 DEF WillHold
    <2>2. CASE w \in listing.facets
      BY <2>2 DEF WillHold
    <2> QED BY <1>7, <2>1, <2>2 DEF SwapGoesOn, WillHold
  <1>8. \A w \in saves'[s].wants : WillHold(s, w)'
    BY <1>7
  <1> QED BY <1>5, <1>6, <1>8 DEF SwapGoesOn

NextRequest(s) ==
    /\ saves[s].call.stage = "answered" /\ saves[s].call.ok /\ saves[s].todo # <<>>
    /\ saves' = [saves EXCEPT ![s].todo = Tail(saves[s].todo),
                              ![s].call = Sent(Head(saves[s].todo))]
    /\ UNCHANGED <<listing, staffRecord, rereading, form, opens, otherRemoval, swapRefused,
                   disturbed>>

LEMMA NextRequestKeeps == ASSUME StaffInv, NEW s \in SaveSlots, NextRequest(s) PROVE StaffInv'
  <1>1. StaffShape /\ FormsSound /\ SavesSound /\ LostIsKnown /\ SwapNotRefused
    BY DEF StaffInv
  <1>2. PICK save \in SaveRecord : save = saves[s]
    BY <1>1 DEF StaffShape
  <1>3. /\ save.stage = "sending" /\ save.block \in Blocks /\ save.block = "facets"
        /\ save.id # 0
        /\ save.wants \subseteq Facets /\ save.todo # <<>>
    BY <1>1, <1>2, NoSaveIs DEF SavesSound, SaveSound, NextRequest
  <1>4. /\ Head(save.todo) \in FacetRequests /\ Tail(save.todo) \in Seq(FacetRequests)
    BY <1>3 DEF SaveRecord
  <1>5. Head(save.todo) \in SaveRequests("facets") /\ Head(save.todo) \in StaffRequests
    BY <1>3, <1>4, SaveRequestsSay DEF StaffRequests
  <1> DEFINE call == Sent(Head(save.todo))
             next == [save EXCEPT !.todo = Tail(save.todo), !.call = call]
  <1>6. /\ call \in CallRecord(StaffRequests, {0})
        /\ call.stage = "sent" /\ call.req = Head(save.todo)
    BY <1>5, SentIsSent
  <1> HIDE DEF call
  <1>7. /\ next \in SaveRecord /\ next.block = "facets" /\ next.id = save.id
        /\ next.wants = save.wants /\ next.todo = Tail(save.todo) /\ next.call = call
        /\ next.stage = "sending"
    BY <1>3, <1>4, <1>6 DEF SaveRecord
  <1>8. saves' = [saves EXCEPT ![s] = next]
    BY <1>2 DEF NextRequest, call
  <1> HIDE DEF next
  <1>9. /\ saves' \in [SaveSlots -> SaveRecord] /\ saves'[s] = next
        /\ \A t \in SaveSlots \ {s} : saves'[t] = saves[t]
    BY <1>1, <1>7, <1>8 DEF StaffShape
  <1>10. StaffShape' /\ FormsSound' /\ SwapNotRefused'
    BY <1>1, <1>9 DEF StaffShape, FormsSound, IsOpen, SwapNotRefused, NextRequest
  <1>11. SavesSound'
    <2>1. SaveSound(s)'
      BY <1>2, <1>3, <1>5, <1>6, <1>7, <1>9 DEF SaveSound
    <2>2. ASSUME NEW t \in SaveSlots, t # s PROVE SaveSound(t)'
      BY <1>1, <1>9, <2>2 DEF SavesSound, SaveSound
    <2> QED BY <2>1, <2>2 DEF SavesSound
  <1>12. LostIsKnown'
    BY <1>1, <1>7, <1>9 DEF LostIsKnown, NextRequest
  <1>13. RecordFollows'
    BY <1>7, <1>9 DEF RecordFollows
  <1>14. ASSUME Undisturbed' PROVE FacetsFollow' /\ OneFacetsSave' /\ SwapsGoOn'
    <2>1. OneFacetsSave /\ SwapsGoOn
      BY <1>14 DEF StaffInv, Undisturbed, NextRequest
    <2>2. FacetsFollow'
      BY <1>7, <1>9 DEF FacetsFollow, FacetsSending
    <2>3. \A t \in SaveSlots : saves'[t].block = saves[t].block /\ saves'[t].id = saves[t].id
      BY <1>2, <1>3, <1>7, <1>9
    <2>4. OneFacetsSave'
      BY <2>1, <2>3, ZenonT(30) DEF OneFacetsSave, IsOpen, NextRequest
    <2>5. \A t \in SaveSlots \ {s} : saves[t].block # "facets"
      BY <1>2, <1>3, <2>1 DEF OneFacetsSave
    <2>6. SwapGoesOn(s)
      BY <1>2, <1>3, <2>1 DEF SwapsGoOn, FacetsSending, NextRequest
    <2>7. SwapGoesOn(s)'
      BY <1>2, <1>3, <1>6, <1>7, <1>9, <2>6, SwapSends, ZenonT(30) DEF NextRequest
    <2>8. SwapsGoOn'
      BY <2>3, <2>5, <2>7 DEF SwapsGoOn, FacetsSending
    <2> QED BY <2>2, <2>4, <2>8
  <1> QED BY <1>10, <1>11, <1>12, <1>13, <1>14 DEF StaffInv

LEMMA AfterWriteKeeps ==
    ASSUME StaffInv, NEW s \in SaveSlots, NEW ok \in BOOLEAN,
           saves[s].call.stage = "answered", AfterWrite(s, ok),
           form' \in [Blocks -> FormRecord], FormsSound',
           IsOpen("facets")' => IsOpen("facets") /\ form'["facets"].id = form["facets"].id,
           UNCHANGED <<listing, staffRecord, opens, otherRemoval, swapRefused, disturbed>>
    PROVE  StaffInv'
  <1>1. StaffShape /\ SavesSound
    BY DEF StaffInv
  <1>2. PICK goOn \in BOOLEAN : saves' = [t \in SaveSlots |->
          IF t = s THEN [saves[s] EXCEPT !.stage = "rereading", !.call = NoCall, !.ok = ok]
          ELSE IF goOn /\ saves[t].stage = "rereading" THEN [saves[t] EXCEPT !.stage = "reread"]
          ELSE saves[t]]
    BY DEF AfterWrite
  <1>3. rereading' \in RecordRead /\ rereading'.stage = "sent"
    BY DEF AfterWrite, RecordRead
  <1>4. NoCall \in CallRecord(StaffRequests, {0})
    BY NoCallIsIdle
  <1>5. ASSUME NEW t \in SaveSlots
        PROVE  /\ saves'[t] \in SaveRecord
               /\ saves'[t] # NoSave => saves'[t].block = saves[t].block /\ saves[t] # NoSave
               /\ saves'[t] # NoSave => saves'[t].id = saves[t].id
               /\ saves'[t].stage = "sending" => saves'[t] = saves[t]
               /\ saves'[t].stage # "sending" => saves'[t].call = NoCall
    <2>1. PICK save \in SaveRecord : save = saves[t]
      BY <1>1 DEF StaffShape
    <2>2. save.stage # "sending" => save.call = NoCall
      BY <1>1, <2>1 DEF SavesSound, SaveSound
    <2>3. CASE t = s
      <3>1. save # NoSave
        BY <2>1, <2>3, NoSaveIs
      <3>2. saves'[t] = [save EXCEPT !.stage = "rereading", !.call = NoCall, !.ok = ok]
        BY <1>2, <2>1, <2>3
      <3>3. /\ saves'[t] \in SaveRecord /\ saves'[t].block = save.block
            /\ saves'[t].id = save.id /\ saves'[t].stage = "rereading"
            /\ saves'[t].call = NoCall
        BY <1>4, <3>2 DEF SaveRecord
      <3> QED BY <2>1, <3>1, <3>3
    <2>4. CASE t # s /\ goOn /\ save.stage = "rereading"
      <3>1. saves'[t] = [save EXCEPT !.stage = "reread"]
        BY <1>2, <2>1, <2>4
      <3>2. /\ saves'[t] \in SaveRecord /\ saves'[t].block = save.block
            /\ saves'[t].id = save.id /\ saves'[t].stage = "reread"
            /\ saves'[t].call = save.call
        BY <3>1 DEF SaveRecord
      <3> QED BY <2>1, <2>2, <2>4, <3>2, NoSaveIs
    <2>5. CASE t # s /\ ~(goOn /\ save.stage = "rereading")
      <3>1. saves'[t] = save
        BY <1>2, <2>1, <2>5
      <3> QED BY <2>1, <2>2, <3>1
    <2> QED BY <2>3, <2>4, <2>5
  <1>6. saves' \in [SaveSlots -> SaveRecord]
    BY <1>2, <1>5
  <1>7. RecordFollows' /\ FacetsFollow'
    BY <1>3 DEF RecordFollows, FacetsFollow
  <1>8. staffRecord' \in StaffListing /\ disturbed' \subseteq {"others", "lost", "overlap", "stale"}
    BY <1>1 DEF StaffShape
  <1> QED BY <1>3, <1>5, <1>6, <1>7, <1>8, SavesMoveKeeps

LEMMA ErrorShows ==
    ASSUME StaffInv, NEW s \in SaveSlots, saves[s] # NoSave, ShowError(saves[s])
    PROVE  /\ form' \in [Blocks -> FormRecord] /\ FormsSound'
           /\ IsOpen("facets")' => IsOpen("facets") /\ form'["facets"].id = form["facets"].id
  <1>1. StaffShape /\ FormsSound
    BY DEF StaffInv
  <1>2. PICK b \in Blocks : b = saves[s].block
    BY DEF StaffInv, SavesSound, SaveSound
  <1>3. saves[s].id # 0
    BY DEF StaffInv, SavesSound, SaveSound
  <1> DEFINE shown == IF form[b].id = saves[s].id THEN [form[b] EXCEPT !.error = TRUE]
                      ELSE form[b]
  <1>4. form' = [form EXCEPT ![b] = shown]
    BY <1>2 DEF ShowError
  <1>5. /\ shown \in FormRecord /\ shown.draft = form[b].draft /\ shown.id = form[b].id
        /\ shown # ClosedForm => form[b] # ClosedForm
    <2>1. PICK old \in FormRecord : old = form[b]
      BY <1>1 DEF StaffShape
    <2>2. CASE old.id = saves[s].id
      <3>1. shown = [old EXCEPT !.error = TRUE] /\ old # ClosedForm
        BY <1>3, <2>1, <2>2 DEF ClosedForm
      <3> QED BY <2>1, <3>1 DEF FormRecord
    <2>3. CASE old.id # saves[s].id
      BY <2>1, <2>3
    <2> QED BY <2>2, <2>3
  <1> HIDE DEF shown
  <1>6. form' \in [Blocks -> FormRecord] /\ FormsSound'
    BY <1>1, <1>4, <1>5 DEF StaffShape, FormsSound, IsOpen
  <1>7. IsOpen("facets")' => IsOpen("facets") /\ form'["facets"].id = form["facets"].id
    BY <1>1, <1>4, <1>5, BlocksDiffer DEF StaffShape, IsOpen
  <1> QED BY <1>6, <1>7

LEMMA SaveAnsweredKeeps ==
    ASSUME StaffInv, NEW s \in SaveSlots, SaveAnswered(s) PROVE StaffInv'
  <1>1. StaffShape /\ FormsSound /\ SavesSound /\ LostIsKnown
    BY DEF StaffInv
  <1>2. saves[s].call.stage = "answered" /\ saves[s] # NoSave /\ saves[s].stage = "sending"
    BY <1>1, NoSaveIs DEF SaveAnswered, SavesSound, SaveSound
  <1>3. CASE NextRequest(s)
    BY <1>3, NextRequestKeeps
  <1>4. CASE AfterWrite(s, TRUE) /\ UNCHANGED form
    <2>1. /\ form' \in [Blocks -> FormRecord] /\ FormsSound'
          /\ (IsOpen("facets")' <=> IsOpen("facets"))
      BY <1>1, <1>4 DEF StaffShape, FormsSound, IsOpen
    <2> QED BY <1>2, <1>4, <2>1, AfterWriteKeeps DEF SaveAnswered, othersVars
  <1>5. CASE AfterWrite(s, FALSE) /\ ShowError(saves[s])
    BY <1>2, <1>5, ErrorShows, AfterWriteKeeps DEF SaveAnswered, othersVars
  <1>6. CASE /\ ~saves[s].call.ok /\ saves[s].block # "facets" /\ ShowError(saves[s])
             /\ saves' = [saves EXCEPT ![s] = NoSave] /\ UNCHANGED rereading
    <2>1. "lost" \in disturbed /\ disturbed' = disturbed
      BY <1>1, <1>2, <1>6 DEF LostIsKnown, SaveAnswered
    <2>2. /\ saves' \in [SaveSlots -> SaveRecord] /\ saves'[s] = NoSave
          /\ \A t \in SaveSlots \ {s} : saves'[t] = saves[t]
      BY <1>1, <1>6, NoSaveIs DEF StaffShape
    <2>3. \A t \in SaveSlots :
              /\ saves'[t] # NoSave => saves'[t].block = saves[t].block /\ saves[t] # NoSave
              /\ saves'[t] # NoSave => saves'[t].id = saves[t].id
              /\ saves'[t].stage = "sending" => saves'[t] = saves[t]
              /\ saves'[t].stage # "sending" => saves'[t].call = NoCall
      BY <1>1, <2>2, NoSaveIs DEF SavesSound, SaveSound
    <2>4. RecordFollows' /\ ~Undisturbed'
      BY <2>1 DEF RecordFollows, Undisturbed
    <2> QED BY <1>1, <1>2, <1>6, <2>1, <2>2, <2>3, <2>4, ErrorShows, SavesMoveKeeps
            DEF SaveAnswered, StaffShape, othersVars
  <1> QED BY <1>3, <1>4, <1>5, <1>6 DEF SaveAnswered, NextRequest, othersVars

LEMMA RecordStepsKeep == ASSUME StaffInv, RecordSteps PROVE StaffInv'
  <1>1. /\ StaffShape /\ FormsSound /\ SavesSound /\ RecordFollows
        /\ Undisturbed => FacetsFollow
    BY DEF StaffInv
  <1>2. form' = form /\ form \in [Blocks -> FormRecord] /\ FormsSound'
    BY <1>1 DEF RecordSteps, ServeRecord, RecordReread, StaffShape, FormsSound, IsOpen
  <1>3. IsOpen("facets")' <=> IsOpen("facets")
    BY <1>2 DEF IsOpen
  <1>4. CASE ServeRecord
    <2>1. rereading' \in RecordRead /\ rereading'.stage = "answered" /\ rereading'.data = listing
      BY <1>1, <1>4 DEF ServeRecord, RecordRead, StaffShape
    <2>2. \A t \in SaveSlots : saves'[t].stage # "sending" => saves'[t].call = NoCall
      BY <1>1, <1>4 DEF ServeRecord, SavesSound, SaveSound
    <2>3. RecordFollows' /\ FacetsFollow'
      BY <1>4, <2>1 DEF ServeRecord, RecordFollows, FacetsFollow
    <2> QED BY <1>1, <1>2, <1>3, <1>4, <2>1, <2>2, <2>3, SavesMoveKeeps
            DEF ServeRecord, StaffShape, othersVars
  <1>5. CASE RecordReread
    <2>1. /\ rereading' = NoRead /\ NoRead.stage = "idle" /\ NoRead \in RecordRead
          /\ rereading.stage = "answered" /\ rereading.data \in StaffListing
      BY <1>1, <1>5 DEF RecordReread, NoRead, RecordRead, StaffShape
    <2>2. ASSUME NEW t \in SaveSlots
          PROVE  /\ saves'[t] \in SaveRecord
                 /\ saves'[t] # NoSave => saves'[t].block = saves[t].block /\ saves[t] # NoSave
                 /\ saves'[t] # NoSave => saves'[t].id = saves[t].id
                 /\ saves'[t].stage = "sending" => saves'[t] = saves[t]
                 /\ saves[t].stage = "sending" => saves'[t] = saves[t]
                 /\ saves'[t].stage # "sending" => saves'[t].call = NoCall
      <3>1. PICK save \in SaveRecord : save = saves[t]
        BY <1>1 DEF StaffShape
      <3>2. save.stage # "sending" => save.call = NoCall
        BY <1>1, <3>1 DEF SavesSound, SaveSound
      <3>3. CASE save.stage = "rereading"
        <4>1. saves'[t] = [save EXCEPT !.stage = "reread"]
          BY <1>5, <3>1, <3>3 DEF RecordReread
        <4>2. /\ saves'[t] \in SaveRecord /\ saves'[t].block = save.block
              /\ saves'[t].id = save.id /\ saves'[t].stage = "reread"
              /\ saves'[t].call = save.call
          BY <4>1 DEF SaveRecord
        <4> QED BY <3>1, <3>2, <3>3, <4>2, NoSaveIs
      <3>4. CASE save.stage # "rereading"
        <4>1. saves'[t] = save
          BY <1>5, <3>1, <3>4 DEF RecordReread
        <4> QED BY <3>1, <3>2, <4>1
      <3> QED BY <3>3, <3>4
    <2>3. saves' \in [SaveSlots -> SaveRecord]
      BY <1>5, <2>2 DEF RecordReread
    <2>4. UNCHANGED <<listing, opens, otherRemoval, swapRefused>>
      BY <1>5 DEF RecordReread, othersVars
    <2>5. CASE staffRecord' = rereading.data /\ UNCHANGED disturbed
      <3>1. RecordFollows'
        BY <1>1, <2>1, <2>2, <2>4, <2>5 DEF RecordFollows
      <3>2. Undisturbed' => FacetsFollow'
        BY <1>1, <2>1, <2>2, <2>4, <2>5 DEF FacetsFollow, FacetsSending, Undisturbed
      <3> QED BY <1>1, <1>2, <1>3, <2>1, <2>2, <2>3, <2>4, <2>5, <3>1, <3>2, SavesMoveKeeps
              DEF StaffShape
    <2>6. CASE UNCHANGED staffRecord /\ disturbed' = disturbed \cup {"lost"}
      <3>1. RecordFollows' /\ ~Undisturbed'
        BY <2>6 DEF RecordFollows, Undisturbed
      <3> QED BY <1>1, <1>2, <1>3, <2>1, <2>2, <2>3, <2>4, <2>6, <3>1, SavesMoveKeeps
              DEF StaffShape
    <2> QED BY <1>5, <2>5, <2>6 DEF RecordReread
  <1> QED BY <1>4, <1>5 DEF RecordSteps

LEMMA SaveDoneKeeps == ASSUME StaffInv, NEW s \in SaveSlots, SaveDone(s) PROVE StaffInv'
  <1>1. StaffShape /\ FormsSound /\ SavesSound /\ RecordFollows /\ (Undisturbed => FacetsFollow)
    BY DEF StaffInv
  <1>2. /\ saves[s].stage = "reread" /\ saves' = [saves EXCEPT ![s] = NoSave]
        /\ form' = [b \in Blocks |->
              IF saves[s].ok /\ b \in ClosesWith(saves[s].block) THEN ClosedForm ELSE form[b]]
        /\ UNCHANGED <<listing, staffRecord, rereading, opens, otherRemoval, swapRefused,
                       disturbed>>
    BY DEF SaveDone, othersVars
  <1>3. /\ saves' \in [SaveSlots -> SaveRecord] /\ saves'[s] = NoSave
        /\ \A t \in SaveSlots \ {s} : saves'[t] = saves[t]
    BY <1>1, <1>2, NoSaveIs DEF StaffShape
  <1>4. /\ form' \in [Blocks -> FormRecord] /\ FormsSound'
        /\ IsOpen("facets")' => IsOpen("facets") /\ form'["facets"].id = form["facets"].id
    BY <1>1, <1>2, ClosedFormIs, BlocksDiffer DEF StaffShape, FormsSound, IsOpen
  <1>5. \A t \in SaveSlots :
            /\ saves'[t] # NoSave => saves'[t].block = saves[t].block /\ saves[t] # NoSave
            /\ saves'[t] # NoSave => saves'[t].id = saves[t].id
            /\ saves'[t].stage = "sending" => saves'[t] = saves[t]
            /\ saves[t].stage = "sending" => saves'[t] = saves[t]
            /\ saves'[t].stage # "sending" => saves'[t].call = NoCall
    BY <1>1, <1>2, <1>3, NoSaveIs DEF SavesSound, SaveSound
  <1>6. RecordFollows' /\ (Undisturbed' => FacetsFollow')
    BY <1>1, <1>2, <1>5 DEF RecordFollows, FacetsFollow, FacetsSending, Undisturbed
  <1> QED BY <1>1, <1>2, <1>3, <1>4, <1>5, <1>6, SavesMoveKeeps DEF StaffShape

LEMMA OtherStaffKeeps ==
    ASSUME StaffInv,
           OtherStaffWrites \/ OtherStaffRemoved \/ \E v \in Facets : OtherStaffRemove(v)
    PROVE  StaffInv'
  <1>1. StaffShape /\ FormsSound /\ SavesSound /\ LostIsKnown /\ SwapNotRefused
    BY DEF StaffInv
  <1>2. listing.facets \in SUBSET Facets
    BY <1>1 DEF StaffShape, StaffListing
  <1>3. ASSUME NEW facets \in SUBSET Facets PROVE [listing EXCEPT !.facets = facets] \in StaffListing
    BY <1>1 DEF StaffShape, StaffListing
  <1>4. CASE OtherStaffWrites \/ OtherStaffRemoved
    <2>1. listing' \in StaffListing /\ otherRemoval' \subseteq Facets
      <3>1. ASSUME NEW f \in Fields, NEW v \in Values, listing' = [listing EXCEPT !.fields[f] = v]
            PROVE  listing' \in StaffListing
        BY <1>1, <3>1 DEF StaffShape, StaffListing
      <3>2. ASSUME NEW f \in DetailFields, NEW v \in Values,
                   listing' = [listing EXCEPT !.details[f] = v]
            PROVE  listing' \in StaffListing
        BY <1>1, <3>2 DEF StaffShape, StaffListing
      <3>3. ASSUME NEW v \in Facets, listing' = [listing EXCEPT !.facets = @ \cup {v}]
            PROVE  listing' \in StaffListing
        <4>1. (listing.facets \cup {v}) \in SUBSET Facets
          BY <1>2
        <4> QED BY <1>3, <3>3, <4>1
      <3>4. CASE OtherStaffRemoved
        <4>1. (listing.facets \ otherRemoval) \in SUBSET Facets
          BY <1>2
        <4>2. listing' \in StaffListing
          BY <1>3, <3>4, <4>1 DEF OtherStaffRemoved
        <4> QED BY <3>4, <4>2 DEF OtherStaffRemoved
      <3>5. CASE OtherStaffWrites
        BY <1>1, <3>1, <3>2, <3>3, <3>5 DEF OtherStaffWrites, StaffShape
      <3> QED BY <1>4, <3>4, <3>5
    <2>2. disturbed' = disturbed \cup {"others"}
          /\ UNCHANGED <<staffVisit, staffRecord, rereading, form, opens, saves, swapRefused>>
      BY <1>4 DEF OtherStaffWrites, OtherStaffRemoved
    <2>3. StaffShape' /\ FormsSound' /\ SavesSound' /\ LostIsKnown' /\ SwapNotRefused'
      BY <1>1, <2>1, <2>2 DEF StaffShape, FormsSound, IsOpen, SavesSound, SaveSound,
         LostIsKnown, SwapNotRefused
    <2>4. RecordFollows' /\ ~Undisturbed'
      BY <2>2 DEF RecordFollows, Undisturbed
    <2> QED BY <2>3, <2>4 DEF StaffInv
  <1>5. ASSUME NEW v \in Facets, OtherStaffRemove(v) PROVE StaffInv'
    <2>1. otherRemoval' \subseteq Facets
      BY <1>5 DEF OtherStaffRemove
    <2>2. UNCHANGED <<listing, staffRecord, rereading, form, opens, saves, swapRefused, disturbed>>
      BY <1>5 DEF OtherStaffRemove
    <2> QED BY <2>1, <2>2, NothingOfOursKeeps
  <1> QED BY <1>4, <1>5

LEMMA StaffNextInv == StaffInv /\ [StaffNext]_staffVars => StaffInv'
  <1> SUFFICES ASSUME StaffInv, [StaffNext]_staffVars PROVE StaffInv'
    OBVIOUS
  <1>1. ASSUME NEW b \in Blocks, OpenForm(b) \/ TypeInForm(b) \/ CancelForm(b) PROVE StaffInv'
    BY <1>1, OpenFormKeeps, TypeInFormKeeps, CancelFormKeeps
  <1>2. CASE StaffReader
    BY <1>1, <1>2, SaveFormKeeps, OtherStaffKeeps, Zenon DEF StaffReader
  <1>3. ASSUME NEW s \in SaveSlots, SaveSteps(s) PROVE StaffInv'
    BY <1>3, CheckSaveKeeps, WriteSaveKeeps, SaveAnsweredKeeps, SaveDoneKeeps DEF SaveSteps
  <1>4. CASE UNCHANGED staffVars
    <2>1. /\ UNCHANGED <<listing, staffRecord, rereading, form, opens, saves, swapRefused,
                       disturbed>>
          /\ otherRemoval' \subseteq Facets
      BY <1>4 DEF staffVars, StaffInv, StaffShape
    <2> QED BY <2>1, NothingOfOursKeeps
  <1> QED BY <1>2, <1>3, <1>4, RecordStepsKeep DEF StaffNext

LEMMA StaffInvImplies == StaffInv => StaffTypeOK /\ SwapNotRefused /\ SettledPageIsCurrent
  <1> SUFFICES ASSUME StaffInv PROVE StaffTypeOK /\ SwapNotRefused /\ SettledPageIsCurrent
    OBVIOUS
  <1>1. StaffTypeOK
    BY DEF StaffInv, StaffShape, FormsSound, SavesSound, SaveSound, StaffTypeOK, RecordRead
  <1>2. SettledPageIsCurrent
    BY NoSaveIs DEF StaffInv, RecordFollows, SettledPageIsCurrent, StaffSettled, NoRead
  <1> QED BY <1>1, <1>2 DEF StaffInv

----------------------------------------------------------------------------
\* CommentThread

CommentRecord == [status : Statuses, parent : 0..MaxComments,
                  author : {"none", "reader", "other"}, text : Nat]
WriteRequests == {CreateComment(Page, c) : c \in 0..MaxComments}
                   \cup {UpdateComment(c, text) : c \in CommentIds, text \in Nat}
                   \cup {DeleteComment(c) : c \in CommentIds}
                   \cup {StaffReviewComment(c, next) : c \in CommentIds, next \in Statuses}
WriteRecord == [at : 0..MaxComments, call : CallRecord(WriteRequests, {0}),
                read : CommentRecord, waits : SUBSET {PublicList, MineList, QueueList}]
\* what a list can say: comments of the page, with their text
ListSound(list) == DOMAIN list \subseteq CommentIds /\ \A c \in DOMAIN list : list[c].text \in Nat

ReadsSound ==
    /\ listReads = [l \in Lists |-> listReads[l]]
    /\ \A l \in Lists : /\ listReads[l].stage \in {"idle", "sent", "answered"}
                        /\ ListSound(listReads[l].data)

CommentShape ==
    /\ CommentTypeOK
    /\ lists = [l \in Lists |-> lists[l]] /\ \A l \in Lists : ListSound(lists[l])
    /\ ReadsSound
    /\ writes \in [WriteSlots -> WriteRecord]

\* A list that is not the server's will be read again when the write is answered,
\* is being read, or its answer is on its way, unless something was lost
ListsFollow ==
    \A l \in Lists :
        \/ unsettled
        \/ \E w \in WriteSlots : writes[w].call.stage = "answered" /\ writes[w].call.ok
        \/ listReads[l].stage = "sent"
        \/ listReads[l].stage = "answered" /\ listReads[l].data = AnswerOf(l)
        \/ listReads[l].stage = "idle" /\ lists[l] = AnswerOf(l)

ThreadInv == CommentShape /\ ListsFollow

LEMMA ThreadIdsDiffer ==
    /\ CommentIds = 1..MaxComments /\ MaxComments \in Nat \ {0} /\ 0 \notin CommentIds
    /\ CommentIds \subseteq 0..MaxComments /\ CommentIds \subseteq Nat
  BY CommentAssumption DEF CommentAssumption, CommentIds

LEMMA NoCommentIs == NoComment \in CommentRecord
  BY ThreadIdsDiffer DEF NoComment, CommentRecord, Statuses

LEMMA NoAnswerSound == ListSound(<<>>)
  BY DEF ListSound

LEMMA PublicThreadSound ==
    ASSUME comments \in [CommentIds -> CommentRecord] PROVE ListSound(PublicThread)
  <1> DEFINE Published == {c \in CommentIds : comments[c].status = "published"}
             Kept == {c \in CommentIds : \E p \in Published : c \in Threaded(comments, p)}
             thread == [c \in Kept |-> IF c \in Published THEN comments[c] ELSE Placeholder(c)]
  <1>1. PublicThread = thread
    BY DEF PublicThread
  <1>2. DOMAIN thread = Kept /\ Kept \subseteq CommentIds
    OBVIOUS
  <1>3. ASSUME NEW c \in Kept PROVE thread[c].text \in Nat
    <2>1. CASE c \in Published
      <3>1. thread[c] = comments[c] /\ c \in CommentIds
        BY <2>1
      <3> QED BY <3>1 DEF CommentRecord
    <2>2. CASE c \notin Published
      <3>1. thread[c] = Placeholder(c)
        BY <2>2
      <3> QED BY <3>1 DEF Placeholder
    <2> QED BY <2>1, <2>2
  <1> HIDE DEF thread, Kept
  <1> QED BY <1>1, <1>2, <1>3 DEF ListSound

LEMMA PendingSound ==
    ASSUME comments \in [CommentIds -> CommentRecord], NEW authors
    PROVE  ListSound(PendingOf(authors))
  <1> DEFINE Waiting == {c \in CommentIds : comments[c].status = "pending"
                                            /\ comments[c].author \in authors}
  <1>1. PendingOf(authors) = [c \in Waiting |-> comments[c]]
    BY DEF PendingOf
  <1>2. Waiting \subseteq CommentIds
    OBVIOUS
  <1> HIDE DEF Waiting
  <1> QED BY <1>1, <1>2 DEF ListSound, CommentRecord

LEMMA AnswersSound ==
    ASSUME comments \in [CommentIds -> CommentRecord], NEW l \in Lists
    PROVE  ListSound(AnswerOf(l))
  <1>1. PublicList # MineList /\ PublicList # QueueList /\ MineList # QueueList
    BY DEF PublicList, MineList, QueueList, ListToolComments, ListMyPendingComments,
           StaffListComments, Key, KeyWith
  <1>2. l \in {PublicList, MineList, QueueList}
    BY DEF Lists
  <1> QED BY <1>1, <1>2, PublicThreadSound, PendingSound DEF AnswerOf

LEMMA ThreadInitInv == CommentInit => ThreadInv
  <1> SUFFICES ASSUME CommentInit PROVE ThreadInv
    OBVIOUS
  <1>1. comments \in [CommentIds -> CommentRecord]
    <2>1. PICK t \in Threads : comments = ThreadOf(t)
      BY DEF CommentInit
    <2>2. /\ t \in Seq({"pending", "published"} \X Nat \X {"reader", "other"})
          /\ Len(t) \in Nat /\ Len(t) <= MaxComments /\ \A c \in 1..Len(t) : t[c][2] < c
      BY CommentAssumption DEF CommentAssumption
    <2>3. ASSUME NEW c \in CommentIds, c <= Len(t)
          PROVE  [status |-> t[c][1], parent |-> t[c][2], author |-> t[c][3], text |-> 1]
                     \in CommentRecord
      <3>1. c \in 1..Len(t)
        BY <2>2, <2>3, ThreadIdsDiffer
      <3>2. t[c] \in {"pending", "published"} \X Nat \X {"reader", "other"} /\ t[c][2] < c
        BY <2>2, <3>1
      <3>3. t[c][2] \in 0..MaxComments
        BY <2>2, <3>1, <3>2, ThreadIdsDiffer
      <3> QED BY <3>2, <3>3 DEF CommentRecord, Statuses
    <2>4. ASSUME NEW c \in CommentIds, ~(c > Len(t)) PROVE c <= Len(t)
      BY <2>2, <2>4, ThreadIdsDiffer
    <2> QED BY <2>1, <2>3, <2>4, NoCommentIs DEF ThreadOf
  <1>2. /\ lists = [l \in Lists |-> AnswerOf(l)] /\ listReads = [l \in Lists |-> Unread]
        /\ writes = [w \in WriteSlots |-> NoWrite] /\ mode = [c \in CommentIds |-> "read"]
    BY DEF CommentInit
  <1>3. \A l \in Lists : ListSound(lists[l])
    BY <1>1, <1>2, AnswersSound
  <1>4. NoWrite \in WriteRecord
    <2>1. NoCall \in CallRecord(WriteRequests, {0})
      BY NoCallIsIdle
    <2> QED BY <2>1, NoCommentIs, ThreadIdsDiffer DEF NoWrite, WriteRecord
  <1>5. ReadsSound
    BY <1>2, NoAnswerSound DEF ReadsSound, Unread, ListRead
  <1>6. CommentTypeOK
    BY <1>1, <1>2, <1>3, <1>5 DEF CommentTypeOK, CommentRecord, ListSound, ReadsSound
  <1>7. ListsFollow
    BY <1>2 DEF ListsFollow, Unread, ListRead
  <1> QED BY <1>2, <1>3, <1>4, <1>5, <1>6, <1>7 DEF ThreadInv, CommentShape

LEMMA AnswersStay ==
    ASSUME UNCHANGED <<comments, commentVisit>>
    PROVE  Lists' = Lists /\ \A l \in Lists : AnswerOf(l)' = AnswerOf(l)
  BY DEF Lists, AnswerOf, PublicThread, PendingOf, Placeholder

LEMMA ListsStay ==
    ASSUME CommentShape, UNCHANGED <<commentVisit, lists, listReads>>
    PROVE  /\ Lists' = Lists /\ lists' = [l \in Lists' |-> lists'[l]]
           /\ \A l \in Lists' : ListSound(lists'[l])
           /\ ReadsSound'
  BY DEF CommentShape, Lists, ReadsSound, ListSound

\* what the tree shows of a comment
LEMMA ByIdSound ==
    ASSUME CommentShape
    PROVE  DOMAIN ById \subseteq CommentIds /\ \A c \in DOMAIN ById : ById[c].text \in Nat
  <1> DEFINE From(c) == IF c \in DOMAIN lists[PublicList] THEN PublicList
                        ELSE IF c \in DOMAIN lists[MineList] THEN MineList ELSE QueueList
             shown == UNION {DOMAIN lists[l] : l \in Lists}
  <1>1. ById = [c \in shown |-> lists[From(c)][c]]
    BY DEF ById, ByIdOf
  <1>2. \A l \in Lists : ListSound(lists[l])
    BY DEF CommentShape
  <1>3. ASSUME NEW c \in shown PROVE From(c) \in Lists /\ c \in DOMAIN lists[From(c)]
    BY <1>3 DEF Lists
  <1>4. shown \subseteq CommentIds
    BY <1>2 DEF ListSound
  <1>5. \A c \in shown : lists[From(c)][c].text \in Nat
    BY <1>2, <1>3 DEF ListSound
  <1> HIDE DEF shown, From
  <1> QED BY <1>1, <1>4, <1>5

\* steps that leave the lists and their reads alone
LEMMA WriteStepKeeps ==
    ASSUME ThreadInv, UNCHANGED <<commentVisit, lists, listReads>>,
           comments' \in [CommentIds -> CommentRecord],
           mode' \in [CommentIds -> {"read", "reply", "edit", "delete"}],
           writes' \in [WriteSlots -> WriteRecord],
           unsettled => unsettled',
           \/ unsettled'
           \/ \E w \in WriteSlots : writes'[w].call.stage = "answered" /\ writes'[w].call.ok
           \/ /\ UNCHANGED comments
              /\ \A w \in WriteSlots : ~(writes[w].call.stage = "answered" /\ writes[w].call.ok)
    PROVE  ThreadInv'
  <1>1. CommentShape /\ ListsFollow
    BY DEF ThreadInv
  <1>2. /\ Lists' = Lists /\ lists' = [l \in Lists' |-> lists'[l]]
        /\ \A l \in Lists' : ListSound(lists'[l])
        /\ ReadsSound'
    BY <1>1, ListsStay
  <1>3. CommentTypeOK'
    <2>1. DOMAIN lists' = Lists'
      BY <1>2
    <2> QED BY <1>2, <2>1 DEF CommentTypeOK, CommentRecord, ListSound, ReadsSound
  <1>4. CommentShape'
    BY <1>2, <1>3 DEF CommentShape
  <1>5. ListsFollow'
    <2>1. CASE unsettled'
      BY <2>1 DEF ListsFollow
    <2>2. ASSUME NEW w \in WriteSlots, writes'[w].call.stage = "answered", writes'[w].call.ok
          PROVE  ListsFollow'
      BY <2>2 DEF ListsFollow
    <2>3. CASE /\ UNCHANGED comments
               /\ \A w \in WriteSlots : ~(writes[w].call.stage = "answered" /\ writes[w].call.ok)
      <3>1. \A l \in Lists : AnswerOf(l)' = AnswerOf(l)
        BY <2>3, AnswersStay
      <3> QED BY <1>1, <1>2, <2>3, <3>1 DEF ListsFollow
    <2> QED BY <2>1, <2>2, <2>3
  <1> QED BY <1>4, <1>5 DEF ThreadInv

\* how the answer to a write is kept
LEMMA AnswerKept ==
    ASSUME CommentShape, NEW w \in WriteSlots, NEW call \in CallRecord(WriteRequests, {0}),
           Answer(w, call)
    PROVE  /\ writes' \in [WriteSlots -> WriteRecord] /\ writes'[w].call = call
           /\ \A v \in WriteSlots \ {w} : writes'[v] = writes[v]
  <1>1. PICK write \in WriteRecord : write = writes[w]
    BY DEF CommentShape
  <1> DEFINE next == [write EXCEPT !.call = call]
  <1>2. next \in WriteRecord /\ next.call = call
    BY DEF WriteRecord
  <1>3. writes' = [writes EXCEPT ![w] = next]
    BY <1>1 DEF Answer
  <1> HIDE DEF next
  <1> QED BY <1>2, <1>3 DEF CommentShape

LEMMA WritesAnswered ==
    ASSUME CommentShape, NEW w \in WriteSlots
    PROVE  LET call == writes[w].call IN
           /\ call \in CallRecord(WriteRequests, {0})
           /\ Succeeds(call, 0) \in CallRecord(WriteRequests, {0})
           /\ Succeeds(call, 0).stage = "answered" /\ Succeeds(call, 0).ok
           /\ Fails(call) \in CallRecord(WriteRequests, {0})
           /\ Fails(call).stage = "answered" /\ ~Fails(call).ok
  <1>1. writes[w].call \in CallRecord(WriteRequests, {0})
    BY DEF CommentShape, WriteRecord
  <1> QED BY <1>1, SucceedsIsAnswered, FailsIsAnswered

\* a step that only moves the forms, or answers a write that changed nothing
LEMMA QuietStepKeeps ==
    ASSUME ThreadInv, UNCHANGED <<commentVisit, comments, lists, listReads, unsettled>>,
           mode' \in [CommentIds -> {"read", "reply", "edit", "delete"}],
           writes' \in [WriteSlots -> WriteRecord],
           \A w \in WriteSlots :
               writes[w].call.stage = "answered" /\ writes[w].call.ok => writes'[w] = writes[w]
    PROVE  ThreadInv'
  <1>1. comments' \in [CommentIds -> CommentRecord]
    BY DEF ThreadInv, CommentShape, CommentTypeOK, CommentRecord
  <1>2. CASE \E w \in WriteSlots : writes[w].call.stage = "answered" /\ writes[w].call.ok
    BY <1>1, <1>2, WriteStepKeeps
  <1>3. CASE \A w \in WriteSlots : ~(writes[w].call.stage = "answered" /\ writes[w].call.ok)
    BY <1>1, <1>3, WriteStepKeeps
  <1> QED BY <1>2, <1>3

\* a step of the server, whose answer says what it did or is lost
LEMMA ServedKeeps ==
    ASSUME ThreadInv, NEW w \in WriteSlots, writes[w].call.stage = "sent",
           comments' \in [CommentIds -> CommentRecord],
           UNCHANGED <<commentVisit, lists, listReads, mode>>,
           \/ Answer(w, Succeeds(writes[w].call, 0)) /\ UNCHANGED unsettled
           \/ Answer(w, Fails(writes[w].call)) /\ unsettled' = TRUE
           \/ Answer(w, Fails(writes[w].call)) /\ UNCHANGED <<comments, unsettled>>
    PROVE  ThreadInv'
  <1>1. CommentShape /\ mode' \in [CommentIds -> {"read", "reply", "edit", "delete"}]
    BY DEF ThreadInv, CommentShape, CommentTypeOK
  <1> DEFINE call == writes[w].call
  <1>2. /\ call \in CallRecord(WriteRequests, {0})
        /\ Succeeds(call, 0) \in CallRecord(WriteRequests, {0})
        /\ Succeeds(call, 0).stage = "answered" /\ Succeeds(call, 0).ok
        /\ Fails(call) \in CallRecord(WriteRequests, {0})
        /\ Fails(call).stage = "answered" /\ ~Fails(call).ok
    BY <1>1, WritesAnswered
  <1>3. CASE Answer(w, Succeeds(call, 0)) /\ UNCHANGED unsettled
    <2>1. writes' \in [WriteSlots -> WriteRecord] /\ writes'[w].call = Succeeds(call, 0)
      BY <1>1, <1>2, <1>3, AnswerKept
    <2> QED BY <1>1, <1>2, <1>3, <2>1, WriteStepKeeps
  <1>4. CASE Answer(w, Fails(call)) /\ unsettled' = TRUE
    <2>1. writes' \in [WriteSlots -> WriteRecord]
      BY <1>1, <1>2, <1>4, AnswerKept
    <2> QED BY <1>1, <1>4, <2>1, WriteStepKeeps
  <1>5. CASE Answer(w, Fails(call)) /\ UNCHANGED <<comments, unsettled>>
    <2>1. /\ writes' \in [WriteSlots -> WriteRecord]
          /\ \A v \in WriteSlots \ {w} : writes'[v] = writes[v]
      BY <1>1, <1>2, <1>5, AnswerKept
    <2> QED BY <1>1, <1>5, <2>1, QuietStepKeeps
  <1> QED BY <1>3, <1>4, <1>5

\* what a request says, by its operation
LEMMA WriteRequestsSay ==
    ASSUME NEW req \in WriteRequests
    PROVE  /\ req.op = "CreateComment" => req.path[2] \in 0..MaxComments
           /\ req.op = "UpdateComment" => req.path[1] \in CommentIds /\ req.body \in Nat
           /\ req.op = "DeleteComment" => req.path[1] \in CommentIds
           /\ req.op = "StaffReviewComment" => req.path[1] \in CommentIds /\ req.body \in Statuses
  BY DEF WriteRequests, CreateComment, UpdateComment, DeleteComment, StaffReviewComment, Request

LEMMA RequestSent ==
    ASSUME CommentShape, NEW w \in WriteSlots, writes[w].call.stage = "sent",
           writes[w].call.req.op # "none"
    PROVE  writes[w].call.req \in WriteRequests
  <1>1. writes[w].call.req \in {NoRequest} \cup WriteRequests
    BY DEF CommentShape, WriteRecord, CallRecord
  <1> QED BY <1>1 DEF NoRequest, Request

LEMMA SendKeeps ==
    ASSUME ThreadInv, NEW w \in WriteSlots, NEW at \in 0..MaxComments,
           NEW req \in WriteRequests, Send(w, at, req)
    PROVE  ThreadInv'
  <1>1. CommentShape /\ mode' \in [CommentIds -> {"read", "reply", "edit", "delete"}]
    BY DEF ThreadInv, CommentShape, CommentTypeOK, Send
  <1> DEFINE call == Sent(req)
             next == [NoWrite EXCEPT !.at = at, !.call = call]
  <1>2. call \in CallRecord(WriteRequests, {0})
    BY SentIsSent
  <1> HIDE DEF call
  <1>3. next \in WriteRecord
    BY <1>2, NoCommentIs DEF NoWrite, WriteRecord
  <1>4. writes' = [writes EXCEPT ![w] = next] /\ writes[w] = NoWrite
    BY DEF Send, call
  <1> HIDE DEF next
  <1>5. /\ writes' \in [WriteSlots -> WriteRecord]
        /\ \A v \in WriteSlots \ {w} : writes'[v] = writes[v]
    BY <1>1, <1>3, <1>4 DEF CommentShape
  <1>6. writes[w].call.stage = "idle"
    BY <1>4 DEF NoWrite, NoCall
  <1>7. \A v \in WriteSlots :
            writes[v].call.stage = "answered" /\ writes[v].call.ok => writes'[v] = writes[v]
    BY <1>5, <1>6
  <1> QED BY <1>1, <1>5, <1>7, QuietStepKeeps DEF Send

LEMMA WriteKeeps == ASSUME ThreadInv, NEW w \in WriteSlots, Write(w) PROVE ThreadInv'
  <1>1. DOMAIN ById \subseteq CommentIds /\ \A c \in DOMAIN ById : ById[c].text \in Nat
    BY ByIdSound DEF ThreadInv
  <1>2. CASE Send(w, 0, CreateComment(Page, 0))
    <2>1. CreateComment(Page, 0) \in WriteRequests /\ 0 \in 0..MaxComments
      BY ThreadIdsDiffer DEF WriteRequests
    <2> QED BY <1>2, <2>1, SendKeeps
  <1>3. ASSUME NEW c \in DOMAIN ById,
               \/ Send(w, c, CreateComment(Page, c))
               \/ Send(w, c, UpdateComment(c, ById[c].text + 1))
               \/ Send(w, c, DeleteComment(c))
               \/ \E next \in {"published", "rejected", "removed"} :
                     Send(w, c, StaffReviewComment(c, next))
        PROVE  ThreadInv'
    <2>1. c \in CommentIds /\ c \in 0..MaxComments /\ ById[c].text + 1 \in Nat
      BY <1>1, ThreadIdsDiffer
    <2>2. /\ CreateComment(Page, c) \in WriteRequests
          /\ UpdateComment(c, ById[c].text + 1) \in WriteRequests
          /\ DeleteComment(c) \in WriteRequests
          /\ \A next \in {"published", "rejected", "removed"} :
                StaffReviewComment(c, next) \in WriteRequests
      BY <2>1 DEF WriteRequests, Statuses
    <2> QED BY <1>3, <2>1, <2>2, SendKeeps
  <1> QED BY <1>2, <1>3 DEF Write

LEMMA FormsKeep ==
    ASSUME ThreadInv, NEW c \in CommentIds, NEW m \in {"reply", "edit", "delete"},
           OpenMode(c, m) \/ CloseMode(c)
    PROVE  ThreadInv'
  <1>1. CommentShape /\ mode \in [CommentIds -> {"read", "reply", "edit", "delete"}]
    BY DEF ThreadInv, CommentShape, CommentTypeOK
  <1>2. mode' \in [CommentIds -> {"read", "reply", "edit", "delete"}]
    BY <1>1 DEF OpenMode, CloseMode
  <1>3. writes' = writes /\ writes' \in [WriteSlots -> WriteRecord]
        /\ UNCHANGED <<commentVisit, comments, lists, listReads, unsettled>>
    BY <1>1 DEF OpenMode, CloseMode, CommentShape
  <1> QED BY <1>2, <1>3, QuietStepKeeps

LEMMA PostedTyped ==
    ASSUME comments \in [CommentIds -> CommentRecord], NEW author \in {"reader", "other"},
           NEW parent \in 0..MaxComments, NEW status \in {"pending", "published"}
    PROVE  Posted(author, parent, status) \in [CommentIds -> CommentRecord]
  <1> DEFINE posted == [status |-> status, parent |-> parent, author |-> author, text |-> 1]
  <1>1. posted \in CommentRecord
    BY DEF CommentRecord, Statuses
  <1>2. PICK c : Posted(author, parent, status) = [comments EXCEPT ![c] = posted]
    BY DEF Posted
  <1> HIDE DEF posted
  <1> QED BY <1>1, <1>2

LEMMA DecidedTyped ==
    ASSUME comments \in [CommentIds -> CommentRecord], NEW c \in CommentIds,
           NEW status \in Statuses, NEW text \in Nat
    PROVE  /\ Blanked(c) \in [CommentIds -> CommentRecord]
           /\ [comments EXCEPT ![c].status = status] \in [CommentIds -> CommentRecord]
           /\ [comments EXCEPT ![c].status = status, ![c].text = text]
                  \in [CommentIds -> CommentRecord]
  <1>1. PICK comment \in CommentRecord : comment = comments[c]
    OBVIOUS
  <1> DEFINE decided == [comment EXCEPT !.status = status]
             edited == [comment EXCEPT !.status = status, !.text = text]
             blank == [comment EXCEPT !.status = "removed", !.text = 0]
  <1>2. decided \in CommentRecord /\ edited \in CommentRecord /\ blank \in CommentRecord
    BY DEF CommentRecord, Statuses
  <1>3. /\ [comments EXCEPT ![c].status = status] = [comments EXCEPT ![c] = decided]
        /\ [comments EXCEPT ![c].status = status, ![c].text = text]
               = [comments EXCEPT ![c] = edited]
        /\ Blanked(c) = [comments EXCEPT ![c] = blank]
    BY <1>1 DEF Blanked
  <1> HIDE DEF decided, edited, blank
  <1> QED BY <1>2, <1>3

LEMMA ServeCreateKeeps == ASSUME ThreadInv, NEW w \in WriteSlots, ServeCreate(w) PROVE ThreadInv'
  <1>1. CommentShape /\ comments \in [CommentIds -> CommentRecord]
    BY DEF ThreadInv, CommentShape, CommentTypeOK, CommentRecord
  <1> DEFINE req == writes[w].call.req
             parent == req.path[2]
  <1>2. /\ writes[w].call.stage = "sent" /\ req.op = "CreateComment"
        /\ UNCHANGED <<commentVisit, lists, listReads, mode>>
    BY DEF ServeCreate
  <1>3. parent \in 0..MaxComments
    BY <1>1, <1>2, RequestSent, WriteRequestsSay
  <1>4. InitialStatus("reader") \subseteq {"pending", "published"}
    BY DEF InitialStatus
  <1> HIDE DEF req
  <1>5. ASSUME NEW status \in InitialStatus("reader"),
               comments' = Posted("reader", parent, status)
        PROVE  comments' \in [CommentIds -> CommentRecord]
    <2>1. status \in {"pending", "published"}
      BY <1>4
    <2>2. Posted("reader", parent, status) \in [CommentIds -> CommentRecord]
      BY <1>1, <1>3, <2>1, PostedTyped
    <2> QED BY <1>5, <2>2
  <1>6. \/ /\ \E status \in InitialStatus("reader") :
                comments' = Posted("reader", parent, status)
           /\ \/ Answer(w, Succeeds(writes[w].call, 0)) /\ UNCHANGED unsettled
              \/ Answer(w, Fails(writes[w].call)) /\ unsettled' = TRUE
        \/ Answer(w, Fails(writes[w].call)) /\ UNCHANGED <<comments, unsettled>>
    BY DEF ServeCreate, req
  <1>7. comments' \in [CommentIds -> CommentRecord]
    BY <1>1, <1>5, <1>6
  <1> QED BY <1>2, <1>6, <1>7, ServedKeeps

LEMMA SaveEditKeeps == ASSUME ThreadInv, NEW w \in WriteSlots, SaveEdit(w) PROVE ThreadInv'
  <1>1. CommentShape /\ comments \in [CommentIds -> CommentRecord]
    BY DEF ThreadInv, CommentShape, CommentTypeOK, CommentRecord
  <1> DEFINE req == writes[w].call.req
  <1>2. /\ writes[w].call.stage = "sent" /\ req.op = "UpdateComment"
        /\ UNCHANGED <<commentVisit, lists, listReads, mode>>
        /\ \/ Answer(w, Succeeds(writes[w].call, 0)) /\ UNCHANGED unsettled
           \/ Answer(w, Fails(writes[w].call)) /\ unsettled' = TRUE
    BY DEF SaveEdit
  <1>3. req.path[1] \in CommentIds /\ req.body \in Nat
    BY <1>1, <1>2, RequestSent, WriteRequestsSay
  <1> HIDE DEF req
  <1>4. PICK status \in InitialStatus("reader") :
            comments' = [comments EXCEPT ![req.path[1]].status = status,
                                         ![req.path[1]].text = req.body]
    BY DEF SaveEdit, req
  <1>5. status \in Statuses
    BY DEF InitialStatus, Statuses
  <1>6. comments' \in [CommentIds -> CommentRecord]
    BY <1>1, <1>3, <1>4, <1>5, DecidedTyped
  <1> QED BY <1>2, <1>6, ServedKeeps

LEMMA ServeDecisionKeeps ==
    ASSUME ThreadInv, NEW w \in WriteSlots, ServeDecision(w) PROVE ThreadInv'
  <1>1. CommentShape /\ comments \in [CommentIds -> CommentRecord]
    BY DEF ThreadInv, CommentShape, CommentTypeOK, CommentRecord
  <1> DEFINE req == writes[w].call.req
             c == req.path[1]
  <1>2. /\ writes[w].call.stage = "sent" /\ req.op \in {"DeleteComment", "StaffReviewComment"}
        /\ comments' = IF req.op = "DeleteComment" THEN Blanked(c)
                       ELSE [comments EXCEPT ![c].status = req.body]
        /\ UNCHANGED <<commentVisit, lists, listReads, mode>>
        /\ \/ Answer(w, Succeeds(writes[w].call, 0)) /\ UNCHANGED unsettled
           \/ Answer(w, Fails(writes[w].call)) /\ unsettled' = TRUE
    BY DEF ServeDecision
  <1>3. req \in WriteRequests
    BY <1>1, <1>2, RequestSent
  <1> HIDE DEF req
  <1>4. comments' \in [CommentIds -> CommentRecord]
    <2>1. CASE req.op = "DeleteComment"
      <3>1. c \in CommentIds /\ 0 \in Nat /\ "none" \in Statuses
        BY <1>3, <2>1, WriteRequestsSay DEF Statuses
      <3>2. Blanked(c) \in [CommentIds -> CommentRecord]
        BY <1>1, <3>1, DecidedTyped
      <3> QED BY <1>2, <2>1, <3>2
    <2>2. CASE req.op = "StaffReviewComment"
      <3>1. c \in CommentIds /\ 0 \in Nat /\ req.body \in Statuses
        BY <1>3, <2>2, WriteRequestsSay
      <3>2. [comments EXCEPT ![c].status = req.body] \in [CommentIds -> CommentRecord]
        BY <1>1, <3>1, DecidedTyped
      <3> QED BY <1>2, <2>2, <3>2
    <2> QED BY <1>2, <2>1, <2>2
  <1> QED BY <1>2, <1>4, ServedKeeps

LEMMA ReadForEditKeeps == ASSUME ThreadInv, NEW w \in WriteSlots, ReadForEdit(w) PROVE ThreadInv'
  <1>1. /\ CommentShape /\ comments \in [CommentIds -> CommentRecord]
        /\ mode \in [CommentIds -> {"read", "reply", "edit", "delete"}]
    BY DEF ThreadInv, CommentShape, CommentTypeOK, CommentRecord
  <1> DEFINE call == writes[w].call
             c == call.req.path[1]
  <1>2. /\ call.stage = "sent" /\ call.req.op = "UpdateComment"
        /\ UNCHANGED <<commentVisit, comments, lists, listReads, mode, unsettled>>
        /\ \/ writes' = [writes EXCEPT ![w].read = comments[c]]
           \/ Answer(w, Fails(call))
    BY DEF ReadForEdit
  <1>3. /\ writes' \in [WriteSlots -> WriteRecord]
        /\ \A v \in WriteSlots \ {w} : writes'[v] = writes[v]
    <2>1. CASE Answer(w, Fails(call))
      <3>1. Fails(call) \in CallRecord(WriteRequests, {0})
        BY <1>1, WritesAnswered
      <3> QED BY <1>1, <2>1, <3>1, AnswerKept
    <2>2. CASE writes' = [writes EXCEPT ![w].read = comments[c]]
      <3>1. c \in CommentIds
        BY <1>1, <1>2, RequestSent, WriteRequestsSay
      <3>2. PICK write \in WriteRecord : write = writes[w]
        BY <1>1 DEF CommentShape
      <3> DEFINE next == [write EXCEPT !.read = comments[c]]
      <3>3. next \in WriteRecord
        BY <1>1, <3>1 DEF WriteRecord
      <3>4. writes' = [writes EXCEPT ![w] = next]
        BY <2>2, <3>2
      <3> HIDE DEF next
      <3> QED BY <1>1, <3>3, <3>4 DEF CommentShape
    <2> QED BY <1>2, <2>1, <2>2
  <1> QED BY <1>1, <1>2, <1>3, QuietStepKeeps

LEMMA OthersActKeeps == ASSUME ThreadInv, OthersAct PROVE ThreadInv'
  <1>1. /\ CommentShape /\ comments \in [CommentIds -> CommentRecord]
        /\ mode \in [CommentIds -> {"read", "reply", "edit", "delete"}]
    BY DEF ThreadInv, CommentShape, CommentTypeOK, CommentRecord
  <1>2. /\ unsettled' = TRUE
        /\ UNCHANGED <<commentVisit, lists, listReads, mode, writes>>
    BY DEF OthersAct
  <1>3. ASSUME NEW c \in CommentIds, NEW status \in {"pending", "published"},
               comments' = Posted("other", c, status)
        PROVE  comments' \in [CommentIds -> CommentRecord]
    <2>1. c \in 0..MaxComments
      BY ThreadIdsDiffer
    <2> QED BY <1>1, <1>3, <2>1, PostedTyped
  <1>4. ASSUME NEW c \in CommentIds, comments' = Blanked(c)
        PROVE  comments' \in [CommentIds -> CommentRecord]
    <2>1. 0 \in Nat /\ "none" \in Statuses
      BY DEF Statuses
    <2> QED BY <1>1, <1>4, <2>1, DecidedTyped
  <1>5. ASSUME NEW c \in CommentIds, NEW status \in {"published", "rejected", "removed"},
               comments' = [comments EXCEPT ![c].status = status]
        PROVE  comments' \in [CommentIds -> CommentRecord]
    <2>1. 0 \in Nat /\ status \in Statuses
      BY DEF Statuses
    <2> QED BY <1>1, <1>5, <2>1, DecidedTyped
  <1>6. comments' \in [CommentIds -> CommentRecord]
    BY <1>3, <1>4, <1>5 DEF OthersAct
  <1> QED BY <1>1, <1>2, <1>6, WriteStepKeeps DEF CommentShape

LEMMA NoWriteIs == NoWrite \in WriteRecord /\ NoWrite.call = NoCall /\ NoCall.stage = "idle"
  <1>1. NoCall \in CallRecord(WriteRequests, {0}) /\ NoCall.stage = "idle"
    BY NoCallIsIdle
  <1> QED BY <1>1, NoCommentIs, ThreadIdsDiffer DEF NoWrite, WriteRecord

LEMMA WriteAnsweredKeeps ==
    ASSUME ThreadInv, NEW w \in WriteSlots, WriteAnswered(w) PROVE ThreadInv'
  <1>1. /\ CommentShape /\ comments \in [CommentIds -> CommentRecord]
        /\ mode \in [CommentIds -> {"read", "reply", "edit", "delete"}]
        /\ writes \in [WriteSlots -> WriteRecord]
    BY DEF ThreadInv, CommentShape, CommentTypeOK, CommentRecord
  <1>2. /\ writes[w].call.stage = "answered"
        /\ UNCHANGED <<commentVisit, comments, lists, mode, unsettled>>
    BY DEF WriteAnswered
  <1>3. CASE ~writes[w].call.ok
    <2>1. writes' = [writes EXCEPT ![w] = NoWrite] /\ UNCHANGED listReads
      BY <1>3 DEF WriteAnswered
    <2>2. /\ writes' \in [WriteSlots -> WriteRecord]
          /\ \A v \in WriteSlots \ {w} : writes'[v] = writes[v]
      BY <1>1, <2>1, NoWriteIs
    <2> QED BY <1>1, <1>2, <1>3, <2>1, <2>2, QuietStepKeeps
  <1>4. CASE writes[w].call.ok
    <2>1. /\ listReads' = [l \in Lists |-> ListRead("sent", <<>>)]
          /\ writes' = [v \in WriteSlots |->
                IF v = w THEN [writes[w] EXCEPT !.call.stage = "refreshing", !.waits = Lists]
                ELSE [writes[v] EXCEPT !.waits = {}]]
      BY <1>4 DEF WriteAnswered, RefreshComments
    <2>2. Lists \subseteq {PublicList, MineList, QueueList}
      BY DEF Lists
    <2>3. ASSUME NEW v \in WriteSlots PROVE writes'[v] \in WriteRecord
      <3>1. PICK write \in WriteRecord : write = writes[v]
        BY <1>1
      <3>2. CASE v = w
        <4> DEFINE call == [write.call EXCEPT !.stage = "refreshing"]
        <4>1. call \in CallRecord(WriteRequests, {0})
          BY <3>1 DEF WriteRecord, CallRecord
        <4>2. writes'[v] = [write EXCEPT !.call = call, !.waits = Lists]
          BY <2>1, <3>1, <3>2
        <4> HIDE DEF call
        <4> QED BY <2>2, <4>1, <4>2 DEF WriteRecord
      <3>3. CASE v # w
        <4>1. writes'[v] = [write EXCEPT !.waits = {}]
          BY <2>1, <3>1, <3>3
        <4> QED BY <4>1 DEF WriteRecord
      <3> QED BY <3>2, <3>3
    <2>4. writes' \in [WriteSlots -> WriteRecord]
      BY <2>1, <2>3
    <2>5. Lists' = Lists /\ lists' = lists
      BY <1>2, AnswersStay
    <2>6. ReadsSound'
      BY <2>1, <2>5, NoAnswerSound DEF ReadsSound, ListRead
    <2>7. CommentTypeOK'
      BY <1>1, <1>2, <2>5, <2>6 DEF CommentShape, CommentTypeOK, ReadsSound, ListSound
    <2>8. CommentShape'
      BY <1>1, <2>4, <2>5, <2>6, <2>7 DEF CommentShape
    <2>9. ListsFollow'
      BY <2>1, <2>5 DEF ListsFollow, ListRead
    <2> QED BY <2>8, <2>9 DEF ThreadInv
  <1> QED BY <1>3, <1>4

LEMMA WriteDoneKeeps == ASSUME ThreadInv, NEW w \in WriteSlots, WriteDone(w) PROVE ThreadInv'
  <1>1. /\ mode \in [CommentIds -> {"read", "reply", "edit", "delete"}]
        /\ writes \in [WriteSlots -> WriteRecord]
    BY DEF ThreadInv, CommentShape, CommentTypeOK
  <1>2. /\ writes[w].call.stage = "refreshing" /\ writes' = [writes EXCEPT ![w] = NoWrite]
        /\ UNCHANGED <<commentVisit, comments, lists, listReads, unsettled>>
        /\ \E c : mode' = [mode EXCEPT ![c] = "read"] \/ mode' = mode
    BY DEF WriteDone
  <1>3. /\ writes' \in [WriteSlots -> WriteRecord]
        /\ \A v \in WriteSlots \ {w} : writes'[v] = writes[v]
    BY <1>1, <1>2, NoWriteIs
  <1>4. mode' \in [CommentIds -> {"read", "reply", "edit", "delete"}]
    BY <1>1, <1>2
  <1> QED BY <1>2, <1>3, <1>4, QuietStepKeeps

\* one read moves on, and the others stay
LEMMA ReadMoves ==
    ASSUME ReadsSound, NEW l \in Lists, NEW stage \in {"idle", "sent", "answered"}, NEW answer,
           ListSound(answer), listReads' = [listReads EXCEPT ![l] = ListRead(stage, answer)],
           Lists' = Lists
    PROVE  /\ ReadsSound' /\ listReads'[l].stage = stage /\ listReads'[l].data = answer
           /\ \A k \in Lists \ {l} : listReads'[k] = listReads[k]
  <1>1. DOMAIN listReads = Lists
    BY DEF ReadsSound
  <1>2. \A k \in Lists : listReads'[k] = IF k = l THEN ListRead(stage, answer) ELSE listReads[k]
    BY <1>1
  <1>3. listReads' = [k \in Lists |-> listReads'[k]]
    BY <1>1
  <1> QED BY <1>2, <1>3 DEF ReadsSound, ListRead, ListSound

LEMMA ServeListKeeps == ASSUME ThreadInv, NEW l \in Lists, ServeList(l) PROVE ThreadInv'
  <1>1. /\ CommentShape /\ ListsFollow /\ comments \in [CommentIds -> CommentRecord]
        /\ mode \in [CommentIds -> {"read", "reply", "edit", "delete"}]
        /\ writes \in [WriteSlots -> WriteRecord] /\ ReadsSound
    BY DEF ThreadInv, CommentShape, CommentTypeOK, CommentRecord
  <1>2. /\ listReads' = [listReads EXCEPT ![l] = ListRead("answered", AnswerOf(l))]
        /\ UNCHANGED <<commentVisit, comments, lists, mode, writes, unsettled>>
    BY DEF ServeList
  <1>3. Lists' = Lists /\ \A k \in Lists : AnswerOf(k)' = AnswerOf(k)
    BY <1>2, AnswersStay
  <1>4. ListSound(AnswerOf(l))
    BY <1>1, AnswersSound
  <1>5. /\ ReadsSound' /\ listReads'[l].stage = "answered" /\ listReads'[l].data = AnswerOf(l)
        /\ \A k \in Lists \ {l} : listReads'[k] = listReads[k]
    BY <1>1, <1>2, <1>3, <1>4, ReadMoves
  <1>6. CommentTypeOK'
    BY <1>1, <1>2, <1>3, <1>5 DEF CommentShape, CommentTypeOK, ReadsSound, ListSound
  <1>7. CommentShape'
    BY <1>1, <1>2, <1>3, <1>5, <1>6 DEF CommentShape
  <1>8. ListsFollow'
    BY <1>1, <1>2, <1>3, <1>5 DEF ListsFollow
  <1> QED BY <1>7, <1>8 DEF ThreadInv

LEMMA ListRereadKeeps == ASSUME ThreadInv, NEW l \in Lists, ListReread(l) PROVE ThreadInv'
  <1>1. /\ CommentShape /\ ListsFollow /\ comments \in [CommentIds -> CommentRecord]
        /\ mode \in [CommentIds -> {"read", "reply", "edit", "delete"}]
        /\ writes \in [WriteSlots -> WriteRecord] /\ ReadsSound
    BY DEF ThreadInv, CommentShape, CommentTypeOK, CommentRecord
  <1>2. /\ listReads[l].stage = "answered" /\ listReads' = [listReads EXCEPT ![l] = Unread]
        /\ writes' = [w \in WriteSlots |-> [writes[w] EXCEPT !.waits = @ \ {l}]]
        /\ UNCHANGED <<commentVisit, comments>>
        /\ \/ /\ lists' = [lists EXCEPT ![l] = listReads[l].data] /\ UNCHANGED unsettled
              /\ mode' = [c \in CommentIds |->
                    IF StaysMounted(c, ById, ByIdOf(lists')) THEN mode[c] ELSE "read"]
           \/ UNCHANGED <<lists, mode>> /\ unsettled' = TRUE
    BY DEF ListReread
  <1>3. Lists' = Lists /\ \A k \in Lists : AnswerOf(k)' = AnswerOf(k)
    BY <1>2, AnswersStay
  <1>4. ASSUME NEW w \in WriteSlots
        PROVE  writes'[w] \in WriteRecord /\ writes'[w].call = writes[w].call
    <2>1. PICK write \in WriteRecord : write = writes[w]
      BY <1>1
    <2>2. writes'[w] = [write EXCEPT !.waits = @ \ {l}]
      BY <1>2, <2>1
    <2>3. write.waits \ {l} \in SUBSET {PublicList, MineList, QueueList}
      BY <2>1 DEF WriteRecord
    <2> QED BY <2>1, <2>2, <2>3 DEF WriteRecord
  <1>5. writes' \in [WriteSlots -> WriteRecord]
    BY <1>2, <1>4
  <1>6. /\ ReadsSound' /\ listReads'[l].stage = "idle"
        /\ \A k \in Lists \ {l} : listReads'[k] = listReads[k]
    BY <1>1, <1>2, <1>3, NoAnswerSound, ReadMoves DEF Unread
  <1>7. mode' \in [CommentIds -> {"read", "reply", "edit", "delete"}]
    BY <1>1, <1>2
  <1>8. ListSound(listReads[l].data)
    BY <1>1 DEF ReadsSound
  <1>9. lists' = [k \in Lists |-> lists'[k]] /\ \A k \in Lists : ListSound(lists'[k])
    <2>1. CASE lists' = lists
      BY <1>1, <2>1 DEF CommentShape
    <2>2. CASE lists' = [lists EXCEPT ![l] = listReads[l].data]
      <3>1. DOMAIN lists = Lists
        BY <1>1 DEF CommentShape, CommentTypeOK
      <3>2. \A k \in Lists : lists'[k] = IF k = l THEN listReads[l].data ELSE lists[k]
        BY <2>2, <3>1
      <3>3. lists' = [k \in Lists |-> lists'[k]]
        BY <2>2, <3>1
      <3> QED BY <1>1, <1>8, <3>2, <3>3 DEF CommentShape
    <2> QED BY <1>2, <2>1, <2>2
  <1>10. CommentTypeOK'
    <2>1. DOMAIN lists' = Lists'
      BY <1>3, <1>9
    <2>2. \A k \in Lists' : DOMAIN lists'[k] \subseteq CommentIds
      BY <1>3, <1>9 DEF ListSound
    <2>3. \A k \in Lists' : /\ listReads'[k].stage \in {"idle", "sent", "answered"}
                            /\ DOMAIN listReads'[k].data \subseteq CommentIds
      BY <1>6 DEF ReadsSound, ListSound
    <2> QED BY <1>1, <1>2, <1>7, <2>1, <2>2, <2>3 DEF CommentTypeOK, CommentRecord
  <1>11. CommentShape'
    BY <1>3, <1>5, <1>6, <1>9, <1>10 DEF CommentShape
  <1>12. ListsFollow'
    <2> SUFFICES ASSUME NEW k \in Lists, ~unsettled',
                        \A w \in WriteSlots :
                            ~(writes'[w].call.stage = "answered" /\ writes'[w].call.ok)
                 PROVE  \/ listReads'[k].stage = "sent"
                        \/ listReads'[k].stage = "answered" /\ listReads'[k].data = AnswerOf(k)
                        \/ listReads'[k].stage = "idle" /\ lists'[k] = AnswerOf(k)
      BY <1>3 DEF ListsFollow
    <2>1. ~unsettled /\ lists' = [lists EXCEPT ![l] = listReads[l].data]
      BY <1>2
    <2>2. \/ listReads[k].stage = "sent"
          \/ listReads[k].stage = "answered" /\ listReads[k].data = AnswerOf(k)
          \/ listReads[k].stage = "idle" /\ lists[k] = AnswerOf(k)
      BY <1>1, <1>4, <2>1 DEF ListsFollow
    <2>3. CASE k = l
      BY <1>1, <1>2, <1>6, <2>1, <2>2, <2>3 DEF CommentShape, CommentTypeOK
    <2>4. CASE k # l
      <3>1. listReads'[k] = listReads[k] /\ lists'[k] = lists[k]
        BY <1>1, <1>6, <2>1, <2>4 DEF CommentShape, CommentTypeOK
      <3> QED BY <2>2, <3>1
    <2> QED BY <2>3, <2>4
  <1> QED BY <1>11, <1>12 DEF ThreadInv

LEMMA ThreadNextInv == ThreadInv /\ [CommentNext]_commentVars => ThreadInv'
  <1> SUFFICES ASSUME ThreadInv, [CommentNext]_commentVars PROVE ThreadInv'
    OBVIOUS
  <1>1. CASE CommentReader
    <2>1. ASSUME NEW c \in CommentIds, CloseMode(c) PROVE ThreadInv'
      BY <2>1, FormsKeep
    <2> QED BY <1>1, <2>1, FormsKeep, WriteKeeps, OthersActKeeps DEF CommentReader
  <1>2. CASE ListSteps
    BY <1>2, ServeListKeeps, ListRereadKeeps DEF ListSteps
  <1>3. ASSUME NEW w \in WriteSlots, WriteSteps(w) PROVE ThreadInv'
    BY <1>3, ServeCreateKeeps, ReadForEditKeeps, SaveEditKeeps, ServeDecisionKeeps,
       WriteAnsweredKeeps, WriteDoneKeeps DEF WriteSteps
  <1>4. CASE UNCHANGED commentVars
    <2>1. /\ UNCHANGED <<commentVisit, comments, lists, listReads, mode, writes, unsettled>>
      BY <1>4 DEF commentVars
    <2>2. /\ mode \in [CommentIds -> {"read", "reply", "edit", "delete"}]
          /\ writes \in [WriteSlots -> WriteRecord]
      BY DEF ThreadInv, CommentShape, CommentTypeOK
    <2> QED BY <2>1, <2>2, QuietStepKeeps
  <1> QED BY <1>1, <1>2, <1>3, <1>4 DEF CommentNext

LEMMA ThreadInvImplies == ThreadInv => CommentTypeOK /\ ThreadIsCurrent
  <1> SUFFICES ASSUME ThreadInv PROVE CommentTypeOK /\ ThreadIsCurrent
    OBVIOUS
  <1>1. ASSUME CommentSettled, ~unsettled, NEW l \in Lists PROVE lists[l] = AnswerOf(l)
    <2>1. \A w \in WriteSlots : writes[w].call.stage = "idle"
      BY <1>1, NoWriteIs DEF CommentSettled
    <2> QED BY <1>1, <2>1 DEF ThreadInv, ListsFollow, CommentSettled, Unread, ListRead
  <1> QED BY <1>1 DEF ThreadInv, CommentShape, ThreadIsCurrent

\* The tree (build-tree.ts): the invariant that makes it whole is that a reply
\* comes after what it replies to, on the server and in every list read from it
\* a reply comes after what it replies to, and ids are given in turn
InTurn(cs) ==
    /\ \A c \in CommentIds : cs[c].parent < c
    /\ \A c \in CommentIds : cs[c].status # "none" =>
          \A d \in 1..c - 1 : cs[d].status # "none"
    /\ \A c \in CommentIds : cs[c].author = "other" => cs[c].status # "none"
\* what a list says of a comment: its place, and that it is there unless blanked
Placed(list) ==
    \A c \in DOMAIN list : /\ list[c].parent \in Nat /\ list[c].parent < c
                           /\ list[c].status # "gone" => Exists(c)
\* a decision is about a comment that is there, and leaves it there
Decides(req) ==
    /\ req.op \in {"UpdateComment", "DeleteComment", "StaffReviewComment"} =>
          Exists(req.path[1])
    /\ req.op = "StaffReviewComment" => req.body # "none"

TreeShape ==
    /\ InTurn(comments)
    /\ \A l \in Lists : Placed(lists[l]) /\ Placed(listReads[l].data)
    /\ \A w \in WriteSlots : writes[w].call.stage = "sent" => Decides(writes[w].call.req)
TreeInv == ThreadInv /\ TreeShape

LEMMA CommentsTyped == ThreadInv => comments \in [CommentIds -> CommentRecord]
  BY DEF ThreadInv, CommentShape, CommentTypeOK, CommentRecord

LEMMA ParentsAreNumbers ==
    ThreadInv => \A c \in CommentIds : comments[c].parent \in Nat /\ comments[c].status \in Statuses
  <1> SUFFICES ASSUME ThreadInv, NEW c \in CommentIds
               PROVE  comments[c].parent \in Nat /\ comments[c].status \in Statuses
    OBVIOUS
  <1>1. comments[c] \in CommentRecord
    BY CommentsTyped
  <1> QED BY <1>1, ThreadIdsDiffer DEF CommentRecord

LEMMA NothingPlaced == Placed(<<>>)
  BY DEF Placed

LEMMA AnswersPlaced ==
    ASSUME comments \in [CommentIds -> CommentRecord], InTurn(comments), NEW l \in Lists
    PROVE  Placed(AnswerOf(l))
  <1>1. \A c \in CommentIds : /\ comments[c].parent \in Nat /\ comments[c].parent < c
                              /\ comments[c].status \in Statuses
    BY ThreadIdsDiffer DEF InTurn, CommentRecord
  <1>2. Placed(PublicThread)
    <2> DEFINE Published == {c \in CommentIds : comments[c].status = "published"}
               Kept == {c \in CommentIds : \E p \in Published : c \in Threaded(comments, p)}
               thread == [c \in Kept |-> IF c \in Published THEN comments[c] ELSE Placeholder(c)]
    <2>1. PublicThread = thread
      BY DEF PublicThread
    <2>2. DOMAIN thread = Kept /\ Kept \subseteq CommentIds
      OBVIOUS
    <2>3. ASSUME NEW c \in Kept
          PROVE  /\ thread[c].parent \in Nat /\ thread[c].parent < c
                 /\ thread[c].status # "gone" => Exists(c)
      <3>1. c \in CommentIds
        OBVIOUS
      <3>2. CASE c \in Published
        <4>1. thread[c] = comments[c] /\ comments[c].status = "published"
          BY <3>2
        <4> QED BY <1>1, <3>1, <4>1 DEF Exists
      <3>3. CASE c \notin Published
        <4>1. thread[c] = Placeholder(c)
          BY <3>3
        <4> QED BY <1>1, <3>1, <4>1 DEF Placeholder
      <3> QED BY <3>2, <3>3
    <2> HIDE DEF thread, Kept
    <2> QED BY <2>1, <2>2, <2>3 DEF Placed
  <1>3. ASSUME NEW authors PROVE Placed(PendingOf(authors))
    <2> DEFINE Waiting == {c \in CommentIds : comments[c].status = "pending"
                                              /\ comments[c].author \in authors}
    <2>1. PendingOf(authors) = [c \in Waiting |-> comments[c]]
      BY DEF PendingOf
    <2>2. \A c \in Waiting : c \in CommentIds /\ Exists(c)
      BY DEF Exists
    <2> HIDE DEF Waiting
    <2> QED BY <1>1, <2>1, <2>2 DEF Placed
  <1>4. PublicList # MineList /\ PublicList # QueueList /\ MineList # QueueList
    BY DEF PublicList, MineList, QueueList, ListToolComments, ListMyPendingComments,
           StaffListComments, Key, KeyWith
  <1>5. l \in {PublicList, MineList, QueueList}
    BY DEF Lists
  <1> QED BY <1>2, <1>3, <1>4, <1>5 DEF AnswerOf

LEMMA TreeInitInv == CommentInit => TreeInv
  <1> SUFFICES ASSUME CommentInit PROVE TreeInv
    OBVIOUS
  <1>1. ThreadInv
    BY ThreadInitInv
  <1>2. InTurn(comments)
    <2>1. PICK t \in Threads : comments = ThreadOf(t)
      BY DEF CommentInit
    <2>2. /\ t \in Seq({"pending", "published"} \X Nat \X {"reader", "other"})
          /\ Len(t) \in Nat /\ Len(t) <= MaxComments /\ \A c \in 1..Len(t) : t[c][2] < c
      BY CommentAssumption DEF CommentAssumption
    <2>3. ASSUME NEW c \in CommentIds, c > Len(t)
          PROVE  comments[c].parent = 0 /\ comments[c].status = "none"
      BY <2>1, <2>3 DEF ThreadOf, NoComment
    <2>4. ASSUME NEW c \in CommentIds, ~(c > Len(t))
          PROVE  comments[c].parent < c /\ comments[c].status # "none"
      <3>1. c \in 1..Len(t)
        BY <2>2, <2>4, ThreadIdsDiffer
      <3>2. t[c] \in {"pending", "published"} \X Nat \X {"reader", "other"} /\ t[c][2] < c
        BY <2>2, <3>1
      <3>3. comments[c] = [status |-> t[c][1], parent |-> t[c][2], author |-> t[c][3], text |-> 1]
        BY <2>1, <2>4 DEF ThreadOf
      <3> QED BY <3>2, <3>3
    <2>5. \A c \in CommentIds : comments[c].parent < c
      BY <2>3, <2>4, ThreadIdsDiffer
    <2>6. ASSUME NEW c \in CommentIds, comments[c].status # "none", NEW d \in 1..c - 1
          PROVE  comments[d].status # "none"
      <3>1. ~(c > Len(t))
        BY <2>3, <2>6
      <3>2. d \in CommentIds /\ ~(d > Len(t))
        BY <2>2, <3>1, ThreadIdsDiffer
      <3> QED BY <2>4, <3>2
    <2>7. ASSUME NEW c \in CommentIds
          PROVE  comments[c].author = "other" => comments[c].status # "none"
      BY <2>1, <2>4 DEF ThreadOf, NoComment
    <2> QED BY <2>5, <2>6, <2>7 DEF InTurn
  <1>3. \A l \in Lists : Placed(lists[l]) /\ Placed(listReads[l].data)
    <2>1. \A l \in Lists : lists[l] = AnswerOf(l) /\ listReads[l].data = <<>>
      BY DEF CommentInit, Unread, ListRead
    <2> QED BY <1>1, <1>2, <2>1, CommentsTyped, AnswersPlaced, NothingPlaced
  <1>4. \A w \in WriteSlots : writes[w].call.stage # "sent"
    BY DEF CommentInit, NoWrite, NoCall
  <1> QED BY <1>1, <1>2, <1>3, <1>4 DEF TreeInv, TreeShape

\* steps keep the tree when the comments stay in turn and in place, a list or its
\* read says what was said or what the server says, and what is sent decides
\* about what is there
LEMMA TreeStepKeeps ==
    ASSUME TreeInv, ThreadInv', UNCHANGED commentVisit,
           InTurn(comments'), \A c \in CommentIds : Exists(c) => Exists(c)',
           \A l \in Lists : lists'[l] \in {lists[l], listReads[l].data},
           \A l \in Lists : \/ listReads'[l].data \in {listReads[l].data, <<>>}
                            \/ UNCHANGED comments /\ listReads'[l].data = AnswerOf(l),
           \A w \in WriteSlots : writes'[w].call.stage = "sent" =>
              writes'[w].call = writes[w].call \/ Decides(writes'[w].call.req)
    PROVE  TreeInv'
  <1>1. CommentShape /\ comments \in [CommentIds -> CommentRecord]
    BY CommentsTyped DEF TreeInv, ThreadInv
  <1>2. Lists' = Lists
    BY DEF Lists
  <1>3. ASSUME NEW list, DOMAIN list \subseteq CommentIds, Placed(list)
        PROVE  \A c \in DOMAIN list : /\ list[c].parent \in Nat /\ list[c].parent < c
                                      /\ list[c].status # "gone" => Exists(c)'
    BY <1>3 DEF Placed
  <1>4. ASSUME NEW l \in Lists PROVE Placed(lists[l])' /\ Placed(listReads[l].data)'
    <2>1. /\ Placed(lists[l]) /\ Placed(listReads[l].data) /\ Placed(<<>>)
          /\ DOMAIN lists[l] \subseteq CommentIds /\ DOMAIN listReads[l].data \subseteq CommentIds
      BY <1>1, NothingPlaced DEF TreeInv, TreeShape, CommentShape, CommentTypeOK
    <2>2. Placed(lists[l])'
      BY <1>3, <2>1 DEF Placed
    <2>3. CASE listReads'[l].data = listReads[l].data
      BY <1>3, <2>1, <2>2, <2>3 DEF Placed
    <2>4. CASE listReads'[l].data = <<>>
      <3>1. DOMAIN listReads'[l].data = {}
        BY <2>4
      <3> QED BY <2>2, <3>1 DEF Placed
    <2>5. CASE UNCHANGED comments /\ listReads'[l].data = AnswerOf(l)
      <3>1. Placed(AnswerOf(l)) /\ DOMAIN AnswerOf(l) \subseteq CommentIds
        BY <1>1, AnswersPlaced, AnswersSound DEF TreeInv, TreeShape, ListSound
      <3>2. PICK answer : answer = listReads'[l].data
        OBVIOUS
      <3>3. Placed(answer) /\ DOMAIN answer \subseteq CommentIds
        BY <2>5, <3>1, <3>2, Zenon
      <3>4. \A c \in DOMAIN answer : /\ answer[c].parent \in Nat /\ answer[c].parent < c
                                     /\ answer[c].status # "gone" => Exists(c)'
        BY <1>3, <3>3
      <3>5. Placed(answer)'
        BY <3>4 DEF Placed
      <3>6. Placed(listReads[l].data)'
        BY <3>2, <3>5 DEF Placed
      <3> QED BY <2>2, <3>6
    <2> QED BY <2>2, <2>3, <2>4, <2>5
  <1>5. ASSUME NEW w \in WriteSlots, writes'[w].call.stage = "sent"
        PROVE  Decides(writes[w].call.req)'
    <2>1. Decides(writes'[w].call.req)
      BY <1>5 DEF TreeInv, TreeShape
    <2>2. writes'[w].call.req \in {NoRequest} \cup WriteRequests
      BY DEF ThreadInv, CommentShape, WriteRecord, CallRecord
    <2>3. PICK req : req = writes'[w].call.req
      OBVIOUS
    <2>4. req.op \in {"UpdateComment", "DeleteComment", "StaffReviewComment"} =>
             req.path[1] \in CommentIds
      <3>1. CASE req = NoRequest
        BY <3>1 DEF NoRequest, Request
      <3>2. CASE req \in WriteRequests
        BY <3>2, WriteRequestsSay
      <3> QED BY <2>2, <2>3, <3>1, <3>2
    <2> QED BY <2>1, <2>3, <2>4 DEF Decides
  <1>6. InTurn(comments)'
    BY DEF InTurn, CommentIds
  <1> QED BY <1>2, <1>4, <1>5, <1>6 DEF TreeInv, TreeShape

LEMMA SameTurn ==
    ASSUME InTurn(comments), NEW cs,
           \A d \in CommentIds : /\ cs[d].parent = comments[d].parent
                                 /\ cs[d].author = comments[d].author
                                 /\ cs[d].status # "none" <=> Exists(d)
    PROVE  InTurn(cs) /\ \A d \in CommentIds : Exists(d) => cs[d].status # "none"
  <1>1. \A c \in CommentIds : \A d \in 1..c - 1 : d \in CommentIds
    BY ThreadIdsDiffer
  <1> QED BY <1>1 DEF InTurn, Exists

LEMMA DecidedInTurn ==
    ASSUME ThreadInv, InTurn(comments), NEW c \in CommentIds, Exists(c),
           NEW status \in {"pending", "published", "rejected", "removed"}, NEW text
    PROVE  LET decided == [comments EXCEPT ![c].status = status]
               edited == [comments EXCEPT ![c].status = status, ![c].text = text] IN
           /\ InTurn(decided) /\ \A d \in CommentIds : Exists(d) => decided[d].status # "none"
           /\ InTurn(edited) /\ \A d \in CommentIds : Exists(d) => edited[d].status # "none"
  <1>1. comments \in [CommentIds -> CommentRecord]
    BY CommentsTyped
  <1> DEFINE decided == [comments EXCEPT ![c].status = status]
             edited == [comments EXCEPT ![c].status = status, ![c].text = text]
  <1>2. PICK comment \in CommentRecord : comment = comments[c]
    BY <1>1
  <1>3. \A d \in CommentIds :
           /\ decided[d] = IF d = c THEN [comment EXCEPT !.status = status] ELSE comments[d]
           /\ edited[d] = IF d = c THEN [comment EXCEPT !.status = status, !.text = text]
                                   ELSE comments[d]
    BY <1>1, <1>2
  <1>4. /\ [comment EXCEPT !.status = status].parent = comment.parent
        /\ [comment EXCEPT !.status = status].author = comment.author
        /\ [comment EXCEPT !.status = status, !.text = text].author = comment.author
        /\ [comment EXCEPT !.status = status].status = status
        /\ [comment EXCEPT !.status = status, !.text = text].parent = comment.parent
        /\ [comment EXCEPT !.status = status, !.text = text].status = status
    BY DEF CommentRecord
  <1> HIDE DEF decided, edited
  <1>5. \A d \in CommentIds :
           /\ decided[d].parent = comments[d].parent /\ edited[d].parent = comments[d].parent
           /\ decided[d].author = comments[d].author /\ edited[d].author = comments[d].author
    BY <1>2, <1>3, <1>4
  <1>6. \A d \in CommentIds : /\ decided[d].status # "none" <=> Exists(d)
                              /\ edited[d].status # "none" <=> Exists(d)
    BY <1>3, <1>4 DEF Exists
  <1>7. InTurn(decided) /\ \A d \in CommentIds : Exists(d) => decided[d].status # "none"
    BY <1>5, <1>6, SameTurn
  <1>8. InTurn(edited) /\ \A d \in CommentIds : Exists(d) => edited[d].status # "none"
    BY <1>5, <1>6, SameTurn
  <1> QED BY <1>7, <1>8 DEF decided, edited

LEMMA FirstId ==
    ASSUME NEW S, S \subseteq Nat, S # {}
    PROVE  \E x \in S : \A y \in S : x <= y
  <1> DEFINE less == OpToRel(<, Nat)
  <1>1. IsWellFoundedOn(less, Nat)
    BY NatLessThanWellFounded
  <1>2. \A x, y \in Nat : <<y, x>> \in less <=> y < x
    BY DEF OpToRel
  <1> HIDE DEF less
  <1>3. PICK x \in S : \A y \in S : ~(<<y, x>> \in less)
    BY <1>1, WFMin
  <1>4. \A y \in S : ~(y < x)
    BY <1>2, <1>3
  <1>5. \A y \in S : x <= y
    BY <1>4
  <1> QED BY <1>5

\* a new comment is the next one, after the one it replies to
LEMMA PostedInTurn ==
    ASSUME ThreadInv, InTurn(comments), \E d \in CommentIds : ~Exists(d),
           NEW author, NEW parent \in 0..MaxComments,
           parent # 0 => Exists(parent),
           NEW status \in {"pending", "published"}
    PROVE  /\ InTurn(Posted(author, parent, status))
           /\ \A d \in CommentIds : Exists(d) => Posted(author, parent, status)[d].status # "none"
  <1>1. comments \in [CommentIds -> CommentRecord]
    BY CommentsTyped
  <1>2. \E d \in CommentIds : ~Exists(d) /\ \A e \in 1..d - 1 : Exists(e)
    <2> DEFINE free == {d \in CommentIds : ~Exists(d)}
    <2>1. free \subseteq Nat /\ free # {}
      BY ThreadIdsDiffer
    <2>2. PICK d \in free : \A e \in free : d <= e
      BY <2>1, FirstId
    <2>3. ASSUME NEW e \in 1..d - 1 PROVE Exists(e)
      <3>1. e \in CommentIds /\ ~(d <= e)
        BY ThreadIdsDiffer
      <3> QED BY <2>2, <3>1
    <2> QED BY <2>3
  <1> DEFINE posted == [status |-> status, parent |-> parent, author |-> author, text |-> 1]
  <1>3. PICK c \in CommentIds : /\ ~Exists(c) /\ \A e \in 1..c - 1 : Exists(e)
                                /\ Posted(author, parent, status)
                                      = [comments EXCEPT ![c] = posted]
    BY <1>2 DEF Posted
  <1> DEFINE cs == [comments EXCEPT ![c] = posted]
  <1>4. /\ \A d \in CommentIds : cs[d] = IF d = c THEN posted ELSE comments[d]
        /\ posted.parent = parent /\ posted.status = status
    BY <1>1
  <1> HIDE DEF posted, cs
  <1>5. parent < c
    <2>1. CASE parent = 0
      BY <2>1, ThreadIdsDiffer
    <2>2. CASE parent # 0
      <3>1. parent \in CommentIds /\ Exists(parent) /\ parent # c
        BY <1>3, <2>2, ThreadIdsDiffer
      <3>2. ~(c < parent)
        <4> SUFFICES ASSUME c < parent PROVE FALSE
          OBVIOUS
        <4>1. c \in 1..parent - 1
          BY <3>1, ThreadIdsDiffer
        <4> QED BY <1>3, <3>1, <4>1 DEF InTurn, Exists
      <3> QED BY <3>1, <3>2, ThreadIdsDiffer
    <2> QED BY <2>1, <2>2
  <1>6. \A d \in CommentIds : Exists(d) => cs[d].status # "none"
    BY <1>4 DEF Exists
  <1>7. \A d \in CommentIds : cs[d].parent < d
    BY <1>4, <1>5 DEF InTurn
  <1>8. ASSUME NEW d \in CommentIds, cs[d].status # "none", NEW e \in 1..d - 1
        PROVE  cs[e].status # "none"
    <2>1. e \in CommentIds
      BY ThreadIdsDiffer
    <2>2. Exists(e)
      <3>1. CASE d = c
        BY <1>3, <3>1
      <3>2. CASE d # c
        BY <1>4, <1>8, <3>2 DEF InTurn, Exists
      <3> QED BY <3>1, <3>2
    <2> QED BY <1>6, <2>1, <2>2
  <1>9. \A d \in CommentIds : cs[d].author = "other" => cs[d].status # "none"
    BY <1>4 DEF InTurn
  <1>10. InTurn(cs)
    BY <1>7, <1>8, <1>9 DEF InTurn
  <1> QED BY <1>3, <1>6, <1>10 DEF cs

\* what a write under way turns into: the same request, or none on its way
LEMMA AnsweredQuietly ==
    ASSUME ThreadInv, NEW w \in WriteSlots, NEW call \in CallRecord(WriteRequests, {0}),
           Answer(w, call), call.stage = "answered"
    PROVE  \A v \in WriteSlots : writes'[v].call.stage = "sent" =>
              writes'[v].call = writes[v].call
  <1>1. /\ writes'[w].call = call
        /\ \A v \in WriteSlots \ {w} : writes'[v] = writes[v]
    BY AnswerKept DEF ThreadInv
  <1> QED BY <1>1

\* a step that leaves comments and lists alone, and at most asks for them again
LEMMA QuietTree ==
    ASSUME TreeInv, ThreadInv', UNCHANGED <<commentVisit, comments, lists>>,
           UNCHANGED listReads \/ listReads' = [l \in Lists |-> ListRead("sent", <<>>)],
           \A w \in WriteSlots : writes'[w].call.stage = "sent" =>
              writes'[w].call = writes[w].call \/ Decides(writes'[w].call.req)
    PROVE  TreeInv'
  <1>1. InTurn(comments') /\ \A c \in CommentIds : Exists(c) => Exists(c)'
    BY DEF TreeInv, TreeShape, Exists
  <1>2. \A l \in Lists : listReads'[l].data \in {listReads[l].data, <<>>}
    BY DEF ListRead
  <1> QED BY <1>1, <1>2, TreeStepKeeps

\* a step of the server, answered or lost
LEMMA ServedTree ==
    ASSUME TreeInv, ThreadInv', NEW w \in WriteSlots,
           UNCHANGED <<commentVisit, lists, listReads>>,
           \/ Answer(w, Succeeds(writes[w].call, 0)) \/ Answer(w, Fails(writes[w].call)),
           InTurn(comments'), \A c \in CommentIds : Exists(c) => Exists(c)'
    PROVE  TreeInv'
  <1>1. CommentShape /\ ThreadInv
    BY DEF TreeInv, ThreadInv
  <1> DEFINE call == writes[w].call
  <1>2. /\ Succeeds(call, 0) \in CallRecord(WriteRequests, {0})
        /\ Succeeds(call, 0).stage = "answered"
        /\ Fails(call) \in CallRecord(WriteRequests, {0})
        /\ Fails(call).stage = "answered"
    BY <1>1, WritesAnswered
  <1>3. \A v \in WriteSlots : writes'[v].call.stage = "sent" =>
           writes'[v].call = writes[v].call
    <2>1. CASE Answer(w, Succeeds(call, 0))
      BY <1>1, <1>2, <2>1, AnsweredQuietly
    <2>2. CASE Answer(w, Fails(call))
      BY <1>1, <1>2, <2>2, AnsweredQuietly
    <2> QED BY <2>1, <2>2
  <1> QED BY <1>3, TreeStepKeeps

\* what the tree shows of a comment is what one of the lists says
LEMMA ShownPlaced ==
    ASSUME TreeInv, NEW c \in DOMAIN ById
    PROVE  /\ c \in CommentIds /\ ById[c].parent \in Nat /\ ById[c].parent < c
           /\ ~GoneIn(ById[c]) => Exists(c)
  <1>1. CommentShape /\ DOMAIN ById \subseteq CommentIds
    BY ByIdSound DEF TreeInv, ThreadInv
  <1> DEFINE From(d) == IF d \in DOMAIN lists[PublicList] THEN PublicList
                        ELSE IF d \in DOMAIN lists[MineList] THEN MineList ELSE QueueList
             shown == UNION {DOMAIN lists[l] : l \in Lists}
  <1>2. ById = [d \in shown |-> lists[From(d)][d]]
    BY DEF ById, ByIdOf
  <1>3. c \in shown
    BY <1>2
  <1>4. From(c) \in Lists /\ c \in DOMAIN lists[From(c)]
    BY <1>3 DEF Lists
  <1>5. PICK l \in Lists : l = From(c)
    BY <1>4
  <1>6. ById[c] = lists[l][c] /\ c \in DOMAIN lists[l]
    BY <1>2, <1>3, <1>4, <1>5
  <1> HIDE DEF From, shown
  <1>7. Placed(lists[l])
    BY DEF TreeInv, TreeShape
  <1> QED BY <1>1, <1>6, <1>7 DEF Placed, GoneIn

LEMMA SendTree ==
    ASSUME TreeInv, ThreadInv', NEW w \in WriteSlots, NEW at, NEW req, Decides(req),
           Send(w, at, req)
    PROVE  TreeInv'
  <1>1. writes \in [WriteSlots -> WriteRecord]
    BY DEF TreeInv, ThreadInv, CommentShape
  <1> DEFINE call == Sent(req)
             next == [NoWrite EXCEPT !.at = at, !.call = call]
  <1>2. next.call.req = req
    <2>1. call.req = req
      BY DEF Sent, NoCall
    <2> HIDE DEF call
    <2> QED BY <2>1 DEF NoWrite
  <1>3. /\ writes' = [writes EXCEPT ![w] = next]
        /\ UNCHANGED <<commentVisit, comments, lists, listReads>>
    BY DEF Send
  <1> HIDE DEF next, call
  <1>4. \A v \in WriteSlots : IF v = w THEN writes'[v] = next ELSE writes'[v] = writes[v]
    BY <1>1, <1>3
  <1>5. \A v \in WriteSlots : writes'[v].call.stage = "sent" =>
           writes'[v].call = writes[v].call \/ Decides(writes'[v].call.req)
    BY <1>2, <1>4
  <1> QED BY <1>3, <1>5, QuietTree

LEMMA WriteTree == ASSUME TreeInv, ThreadInv', NEW w \in WriteSlots, Write(w) PROVE TreeInv'
  <1>1. \A c \in DOMAIN ById : ~GoneIn(ById[c]) => Exists(c)
    BY ShownPlaced
  <1>2. ASSUME NEW p PROVE Decides(CreateComment(Page, p))
    BY DEF Decides, CreateComment, Request
  <1>3. ASSUME NEW c, Exists(c), NEW text PROVE Decides(UpdateComment(c, text))
    BY <1>3 DEF Decides, UpdateComment, Request
  <1>4. ASSUME NEW c, Exists(c) PROVE Decides(DeleteComment(c))
    BY <1>4 DEF Decides, DeleteComment, Request
  <1>5. ASSUME NEW c, Exists(c), NEW next \in {"published", "rejected", "removed"}
        PROVE  Decides(StaffReviewComment(c, next))
    BY <1>5 DEF Decides, StaffReviewComment, Request
  <1>6. CASE Send(w, 0, CreateComment(Page, 0))
    BY <1>2, <1>6, SendTree
  <1>7. ASSUME NEW c \in DOMAIN ById, Send(w, c, CreateComment(Page, c)) PROVE TreeInv'
    BY <1>2, <1>7, SendTree
  <1>8. ASSUME NEW c \in DOMAIN ById, ~GoneIn(ById[c]),
               \/ Send(w, c, UpdateComment(c, ById[c].text + 1))
               \/ Send(w, c, DeleteComment(c))
               \/ \E next \in {"published", "rejected", "removed"} :
                     Send(w, c, StaffReviewComment(c, next))
        PROVE  TreeInv'
    <2>1. Exists(c)
      BY <1>1, <1>8
    <2> QED BY <1>3, <1>4, <1>5, <1>8, <2>1, SendTree
  <1> QED BY <1>6, <1>7, <1>8 DEF Write

LEMMA ServeCreateTree ==
    ASSUME TreeInv, ThreadInv', NEW w \in WriteSlots, ServeCreate(w) PROVE TreeInv'
  <1>1. ThreadInv /\ CommentShape /\ InTurn(comments)
    BY DEF TreeInv, ThreadInv, TreeShape
  <1> DEFINE parent == writes[w].call.req.path[2]
  <1>2. parent \in 0..MaxComments
    BY <1>1, RequestSent, WriteRequestsSay DEF ServeCreate
  <1>3. /\ UNCHANGED <<commentVisit, lists, listReads>>
        /\ \/ Answer(w, Succeeds(writes[w].call, 0)) \/ Answer(w, Fails(writes[w].call))
        /\ \/ UNCHANGED comments
           \/ /\ parent # 0 => comments[parent].status = "published"
              /\ \E c \in CommentIds : ~Exists(c)
              /\ \E status \in InitialStatus("reader") :
                    comments' = Posted("reader", parent, status)
    BY DEF ServeCreate
  <1> HIDE DEF parent
  <1>4. InTurn(comments') /\ \A d \in CommentIds : Exists(d) => Exists(d)'
    <2>1. CASE UNCHANGED comments
      BY <1>1, <2>1 DEF Exists
    <2>2. ASSUME parent # 0 => comments[parent].status = "published",
                 \E c \in CommentIds : ~Exists(c),
                 NEW status \in InitialStatus("reader"),
                 comments' = Posted("reader", parent, status)
          PROVE  InTurn(comments') /\ \A d \in CommentIds : Exists(d) => Exists(d)'
      <3>1. status \in {"pending", "published"}
        BY DEF InitialStatus
      <3>2. parent # 0 => Exists(parent)
        BY <2>2 DEF Exists
      <3>3. /\ InTurn(comments')
            /\ \A d \in CommentIds : Exists(d) => comments'[d].status # "none"
        BY <1>1, <1>2, <2>2, <3>1, <3>2, PostedInTurn
      <3> QED BY <3>3 DEF Exists
    <2> QED BY <1>3, <2>1, <2>2
  <1> QED BY <1>3, <1>4, ServedTree

LEMMA SaveEditTree ==
    ASSUME TreeInv, ThreadInv', NEW w \in WriteSlots, SaveEdit(w) PROVE TreeInv'
  <1>1. ThreadInv /\ CommentShape /\ InTurn(comments)
    BY DEF TreeInv, ThreadInv, TreeShape
  <1> DEFINE req == writes[w].call.req
             c == req.path[1]
  <1>2. writes[w].call.stage = "sent" /\ req.op = "UpdateComment"
    BY DEF SaveEdit
  <1>3. c \in CommentIds
    BY <1>1, <1>2, RequestSent, WriteRequestsSay
  <1>4. Exists(c)
    BY <1>2 DEF TreeInv, TreeShape, Decides
  <1>5. PICK status \in InitialStatus("reader") :
            comments' = [comments EXCEPT ![c].status = status, ![c].text = req.body]
    BY DEF SaveEdit
  <1>6. status \in {"pending", "published", "rejected", "removed"}
    BY DEF InitialStatus
  <1>7. /\ UNCHANGED <<commentVisit, lists, listReads>>
        /\ \/ Answer(w, Succeeds(writes[w].call, 0)) \/ Answer(w, Fails(writes[w].call))
    BY DEF SaveEdit
  <1> HIDE DEF req
  <1>8. PICK d \in CommentIds : d = c /\ Exists(d)
    BY <1>3, <1>4
  <1>9. InTurn(comments') /\ \A e \in CommentIds : Exists(e) => comments'[e].status # "none"
    BY <1>1, <1>5, <1>6, <1>8, DecidedInTurn
  <1>10. \A e \in CommentIds : Exists(e) => Exists(e)'
    BY <1>9 DEF Exists
  <1> QED BY <1>7, <1>9, <1>10, ServedTree

LEMMA ServeDecisionTree ==
    ASSUME TreeInv, ThreadInv', NEW w \in WriteSlots, ServeDecision(w) PROVE TreeInv'
  <1>1. ThreadInv /\ CommentShape /\ InTurn(comments)
    BY DEF TreeInv, ThreadInv, TreeShape
  <1> DEFINE req == writes[w].call.req
             c == req.path[1]
  <1>2. /\ writes[w].call.stage = "sent" /\ req.op \in {"DeleteComment", "StaffReviewComment"}
        /\ comments' = IF req.op = "DeleteComment" THEN Blanked(c)
                       ELSE [comments EXCEPT ![c].status = req.body]
        /\ UNCHANGED <<commentVisit, lists, listReads>>
        /\ \/ Answer(w, Succeeds(writes[w].call, 0)) \/ Answer(w, Fails(writes[w].call))
    BY DEF ServeDecision
  <1>3. req \in WriteRequests
    BY <1>1, <1>2, RequestSent
  <1>4. Exists(c) /\ (req.op = "StaffReviewComment" => req.body # "none")
    BY <1>2 DEF TreeInv, TreeShape, Decides
  <1> HIDE DEF req
  <1>5. c \in CommentIds
    BY <1>2, <1>3, WriteRequestsSay
  <1>6. PICK d \in CommentIds : d = c /\ Exists(d)
    BY <1>4, <1>5
  <1>7. InTurn(comments') /\ \A e \in CommentIds : Exists(e) => comments'[e].status # "none"
    <2>1. CASE req.op = "DeleteComment"
      <3>1. comments' = [comments EXCEPT ![d].status = "removed", ![d].text = 0]
        BY <1>2, <1>6, <2>1 DEF Blanked
      <3> QED BY <1>1, <1>6, <3>1, DecidedInTurn
    <2>2. CASE req.op = "StaffReviewComment"
      <3>1. PICK status \in {"pending", "published", "rejected", "removed"} : status = req.body
        BY <1>3, <1>4, <2>2, WriteRequestsSay DEF Statuses
      <3>2. comments' = [comments EXCEPT ![d].status = status]
        BY <1>2, <1>6, <2>2, <3>1
      <3> QED BY <1>1, <1>6, <3>2, DecidedInTurn
    <2> QED BY <1>2, <2>1, <2>2
  <1>8. \A e \in CommentIds : Exists(e) => Exists(e)'
    BY <1>7 DEF Exists
  <1> QED BY <1>2, <1>7, <1>8, ServedTree

LEMMA ReadForEditTree ==
    ASSUME TreeInv, ThreadInv', NEW w \in WriteSlots, ReadForEdit(w) PROVE TreeInv'
  <1>1. ThreadInv /\ CommentShape /\ writes \in [WriteSlots -> WriteRecord]
    BY DEF TreeInv, ThreadInv, CommentShape
  <1> DEFINE call == writes[w].call
             c == call.req.path[1]
  <1>2. /\ UNCHANGED <<commentVisit, comments, lists, listReads>>
        /\ \/ writes' = [writes EXCEPT ![w].read = comments[c]]
           \/ Answer(w, Fails(call))
    BY DEF ReadForEdit
  <1>3. \A v \in WriteSlots : writes'[v].call.stage = "sent" =>
           writes'[v].call = writes[v].call
    <2>1. CASE Answer(w, Fails(call))
      <3>1. Fails(call) \in CallRecord(WriteRequests, {0}) /\ Fails(call).stage = "answered"
        BY <1>1, WritesAnswered
      <3> QED BY <1>1, <2>1, <3>1, AnsweredQuietly
    <2>2. CASE writes' = [writes EXCEPT ![w].read = comments[c]]
      <3>1. PICK write \in WriteRecord : write = writes[w]
        BY <1>1
      <3> DEFINE next == [write EXCEPT !.read = comments[c]]
      <3>2. next.call = write.call
        BY DEF WriteRecord
      <3>3. writes' = [writes EXCEPT ![w] = next]
        BY <2>2, <3>1
      <3> HIDE DEF next
      <3>4. \A v \in WriteSlots : IF v = w THEN writes'[v] = next ELSE writes'[v] = writes[v]
        BY <1>1, <3>3
      <3> QED BY <3>1, <3>2, <3>4
    <2> QED BY <1>2, <2>1, <2>2
  <1> QED BY <1>2, <1>3, QuietTree

LEMMA OthersActTree == ASSUME TreeInv, ThreadInv', OthersAct PROVE TreeInv'
  <1>1. ThreadInv /\ InTurn(comments)
    BY DEF TreeInv, TreeShape
  <1>2. UNCHANGED <<commentVisit, lists, listReads, writes>>
    BY DEF OthersAct
  <1> DEFINE Kept == /\ InTurn(comments')
                     /\ \A d \in CommentIds : Exists(d) => comments'[d].status # "none"
  <1>3. ASSUME NEW c \in CommentIds, NEW status \in {"pending", "published"},
               comments[c].status = "published", \E d \in CommentIds : ~Exists(d),
               comments' = Posted("other", c, status)
        PROVE  Kept
    <2>1. c \in 0..MaxComments /\ Exists(c)
      BY <1>3, ThreadIdsDiffer DEF Exists
    <2> QED BY <1>1, <1>3, <2>1, PostedInTurn
  <1>4. ASSUME NEW c \in CommentIds, comments[c].author = "other", comments' = Blanked(c)
        PROVE  Kept
    <2>1. Exists(c)
      BY <1>1, <1>4 DEF InTurn, Exists
    <2>2. comments' = [comments EXCEPT ![c].status = "removed", ![c].text = 0]
      BY <1>4 DEF Blanked
    <2> QED BY <1>1, <2>1, <2>2, DecidedInTurn
  <1>5. ASSUME NEW c \in CommentIds, NEW status \in {"published", "rejected", "removed"},
               Exists(c), comments' = [comments EXCEPT ![c].status = status]
        PROVE  Kept
    BY <1>1, <1>5, DecidedInTurn
  <1>6. Kept
    BY <1>3, <1>4, <1>5 DEF OthersAct
  <1>7. \A d \in CommentIds : Exists(d) => Exists(d)'
    BY <1>6 DEF Exists
  <1> QED BY <1>2, <1>6, <1>7, TreeStepKeeps

LEMMA WriteMovesTree ==
    ASSUME TreeInv, ThreadInv', NEW w \in WriteSlots, WriteAnswered(w) \/ WriteDone(w)
    PROVE  TreeInv'
  <1>1. writes \in [WriteSlots -> WriteRecord]
    BY DEF TreeInv, ThreadInv, CommentShape
  <1>2. /\ UNCHANGED <<commentVisit, comments, lists>>
        /\ UNCHANGED listReads \/ listReads' = [l \in Lists |-> ListRead("sent", <<>>)]
        /\ \/ writes' = [writes EXCEPT ![w] = NoWrite]
           \/ writes' = [v \in WriteSlots |->
                IF v = w THEN [writes[w] EXCEPT !.call.stage = "refreshing", !.waits = Lists]
                ELSE [writes[v] EXCEPT !.waits = {}]]
    BY DEF WriteAnswered, WriteDone, RefreshComments
  <1>3. ASSUME NEW v \in WriteSlots, writes'[v].call.stage = "sent"
        PROVE  writes'[v].call = writes[v].call
    <2>1. CASE writes' = [writes EXCEPT ![w] = NoWrite]
      BY <1>1, <1>3, <2>1, NoWriteIs
    <2>2. CASE writes' = [u \in WriteSlots |->
                IF u = w THEN [writes[w] EXCEPT !.call.stage = "refreshing", !.waits = Lists]
                ELSE [writes[u] EXCEPT !.waits = {}]]
      <3>1. PICK write \in WriteRecord : write = writes[v]
        BY <1>1
      <3>2. CASE v = w
        <4> DEFINE call == [write.call EXCEPT !.stage = "refreshing"]
        <4>1. call.stage = "refreshing"
          BY <3>1 DEF WriteRecord, CallRecord
        <4>2. writes'[v] = [write EXCEPT !.call = call, !.waits = Lists]
          BY <2>2, <3>1, <3>2
        <4> HIDE DEF call
        <4>3. writes'[v].call = call
          BY <4>2 DEF WriteRecord
        <4> QED BY <1>3, <4>1, <4>3
      <3>3. CASE v # w
        <4>1. writes'[v] = [write EXCEPT !.waits = {}]
          BY <2>2, <3>1, <3>3
        <4> QED BY <3>1, <4>1 DEF WriteRecord
      <3> QED BY <3>2, <3>3
    <2> QED BY <1>2, <2>1, <2>2
  <1> QED BY <1>2, <1>3, QuietTree

LEMMA ServeListTree ==
    ASSUME TreeInv, ThreadInv', NEW l \in Lists, ServeList(l) \/ ListReread(l) PROVE TreeInv'
  <1>1. writes \in [WriteSlots -> WriteRecord] /\ DOMAIN lists = Lists /\ DOMAIN listReads = Lists
    BY DEF TreeInv, ThreadInv, CommentShape, CommentTypeOK, ReadsSound
  <1>2. /\ UNCHANGED <<commentVisit, comments>>
        /\ \/ UNCHANGED writes
           \/ writes' = [w \in WriteSlots |-> [writes[w] EXCEPT !.waits = @ \ {l}]]
        /\ lists' = [lists EXCEPT ![l] = listReads[l].data] \/ UNCHANGED lists
        /\ \/ listReads' = [listReads EXCEPT ![l] = ListRead("answered", AnswerOf(l))]
           \/ listReads' = [listReads EXCEPT ![l] = ListRead("idle", <<>>)]
    BY DEF ServeList, ListReread, Unread
  <1>3. ASSUME NEW w \in WriteSlots PROVE writes'[w].call = writes[w].call
    <2>1. PICK write \in WriteRecord : write = writes[w]
      BY <1>1
    <2>2. writes'[w] = write \/ writes'[w] = [write EXCEPT !.waits = @ \ {l}]
      BY <1>2, <2>1
    <2> QED BY <2>1, <2>2 DEF WriteRecord
  <1>4. InTurn(comments') /\ \A c \in CommentIds : Exists(c) => Exists(c)'
    BY <1>2 DEF TreeInv, TreeShape, Exists
  <1>5. \A k \in Lists : lists'[k] \in {lists[k], listReads[k].data}
    BY <1>1, <1>2
  <1>6. \A k \in Lists : \/ listReads'[k].data \in {listReads[k].data, <<>>}
                         \/ listReads'[k].data = AnswerOf(k)
    BY <1>1, <1>2 DEF ListRead
  <1> QED BY <1>2, <1>3, <1>4, <1>5, <1>6, TreeStepKeeps

LEMMA TreeNextInv == TreeInv /\ [CommentNext]_commentVars => TreeInv'
  <1> SUFFICES ASSUME TreeInv, [CommentNext]_commentVars PROVE TreeInv'
    OBVIOUS
  <1>1. ThreadInv'
    BY ThreadNextInv DEF TreeInv
  <1>2. CASE CommentReader
    <2>1. ASSUME UNCHANGED <<commentVisit, comments, lists, listReads, writes>> PROVE TreeInv'
      BY <1>1, <2>1, QuietTree
    <2>2. ASSUME NEW c \in CommentIds, CloseMode(c) PROVE TreeInv'
      BY <2>1, <2>2 DEF CloseMode
    <2>3. ASSUME NEW c \in CommentIds, NEW m, OpenMode(c, m) PROVE TreeInv'
      BY <2>1, <2>3 DEF OpenMode
    <2> QED BY <1>1, <1>2, <2>2, <2>3, WriteTree, OthersActTree DEF CommentReader
  <1>3. CASE ListSteps
    BY <1>1, <1>3, ServeListTree DEF ListSteps
  <1>4. ASSUME NEW w \in WriteSlots, WriteSteps(w) PROVE TreeInv'
    BY <1>1, <1>4, ServeCreateTree, ReadForEditTree, SaveEditTree, ServeDecisionTree,
       WriteMovesTree DEF WriteSteps
  <1>5. CASE UNCHANGED commentVars
    BY <1>1, <1>5, QuietTree DEF commentVars
  <1> QED BY <1>2, <1>3, <1>4, <1>5 DEF CommentNext

\* c ends a way down the tree from the top, of k replies
WayDown(up, c, k) ==
    \E way \in [0..k -> DOMAIN up] :
        way[k] = c /\ up[way[0]] = 0 /\ \A i \in 1..k : up[way[i]] = way[i - 1]

\* the ways down are a solution of the recursion over the levels of the tree
LEMMA LevelsExist ==
    ASSUME NEW D, 0 \notin D, NEW up \in [D -> D \cup {0}], NEW tree,
           tree = [p \in D \cup {0} |-> {c \in D : up[c] = p}]
    PROVE  \E f : f = [n \in Nat |-> IF n = 0 THEN tree[0]
                                     ELSE f[n - 1] \cup UNION {tree[c] : c \in f[n - 1]}]
  <1> DEFINE Level(n) == {c \in D : \E k \in 0..n : WayDown(up, c, k)}
             f == [n \in Nat |-> Level(n)]
             next == [n \in Nat |-> IF n = 0 THEN tree[0]
                                    ELSE f[n - 1] \cup UNION {tree[c] : c \in f[n - 1]}]
  <1>1. \A c : c \in Level(0) <=> c \in tree[0]
    <2>1. ASSUME NEW c \in Level(0) PROVE c \in tree[0]
      <3>1. WayDown(up, c, 0)
        OBVIOUS
      <3> QED BY <3>1 DEF WayDown
    <2>2. ASSUME NEW c \in tree[0] PROVE c \in Level(0)
      <3>1. c \in D /\ up[c] = 0
        OBVIOUS
      <3> DEFINE way == [i \in 0..0 |-> c]
      <3>2. way \in [0..0 -> DOMAIN up] /\ way[0] = c
        BY <3>1
      <3> HIDE DEF way
      <3>3. WayDown(up, c, 0)
        BY <3>1, <3>2 DEF WayDown
      <3> QED BY <3>1, <3>3
    <2> QED BY <2>1, <2>2
  <1>2. ASSUME NEW n \in Nat, n # 0, NEW c \in Level(n)
        PROVE  c \in Level(n - 1) \/ \E d \in Level(n - 1) : c \in tree[d]
    <2>1. PICK k \in 0..n : WayDown(up, c, k)
      OBVIOUS
    <2>2. CASE k = n
      <3>1. PICK way \in [0..n -> D] :
                way[n] = c /\ up[way[0]] = 0 /\ \A i \in 1..n : up[way[i]] = way[i - 1]
        BY <2>1, <2>2 DEF WayDown
      <3> DEFINE short == [i \in 0..n - 1 |-> way[i]]
      <3>2. /\ short \in [0..n - 1 -> D]
            /\ \A i \in 0..n - 1 : short[i] = way[i]
        BY <1>2
      <3> HIDE DEF short
      <3>3. /\ n - 1 \in 0..n - 1 /\ 0 \in 0..n - 1 /\ n \in 1..n
            /\ \A i \in 1..n - 1 : i \in 0..n - 1 /\ i - 1 \in 0..n - 1 /\ i \in 1..n
        BY <1>2
      <3>4. WayDown(up, way[n - 1], n - 1)
        BY <3>1, <3>2, <3>3 DEF WayDown
      <3>5. way[n - 1] \in Level(n - 1) /\ up[c] = way[n - 1] /\ way[n - 1] \in D
        BY <3>1, <3>2, <3>3, <3>4
      <3> QED BY <3>5
    <2>3. CASE k # n
      <3>1. k \in 0..n - 1
        BY <1>2, <2>3
      <3> QED BY <2>1, <3>1
    <2> QED BY <2>2, <2>3
  <1>3. ASSUME NEW n \in Nat, n # 0, NEW c \in Level(n - 1) PROVE c \in Level(n)
    BY <1>3
  <1>4. ASSUME NEW n \in Nat, n # 0, NEW d \in Level(n - 1), NEW c \in tree[d]
        PROVE  c \in Level(n)
    <2>1. PICK k \in 0..n - 1 : WayDown(up, d, k)
      OBVIOUS
    <2>2. c \in D /\ up[c] = d
      OBVIOUS
    <2>3. PICK way \in [0..k -> D] :
              way[k] = d /\ up[way[0]] = 0 /\ \A i \in 1..k : up[way[i]] = way[i - 1]
      BY <2>1 DEF WayDown
    <2> DEFINE long == [i \in 0..k + 1 |-> IF i = k + 1 THEN c ELSE way[i]]
    <2>4. /\ k + 1 \in 0..n /\ k \in Nat
          /\ \A i \in 1..k + 1 : i - 1 \in 0..k /\ i - 1 # k + 1
                                 /\ (i # k + 1 => i \in 1..k /\ i \in 0..k)
                                 /\ (i = k + 1 => i - 1 = k)
      BY <1>4
    <2>5. /\ long \in [0..k + 1 -> D] /\ long[k + 1] = c
          /\ \A i \in 0..k : long[i] = way[i]
      BY <2>2, <2>4
    <2> HIDE DEF long
    <2>6. 0 \in 0..k /\ k \in 0..k
      BY <2>4
    <2>7. ASSUME NEW i \in 1..k + 1 PROVE up[long[i]] = long[i - 1]
      <3>1. CASE i = k + 1
        BY <2>2, <2>3, <2>4, <2>5, <2>6, <3>1
      <3>2. CASE i # k + 1
        BY <2>3, <2>4, <2>5, <3>2
      <3> QED BY <3>1, <3>2
    <2>8. WayDown(up, c, k + 1)
      BY <2>3, <2>5, <2>6, <2>7 DEF WayDown
    <2> QED BY <2>2, <2>4, <2>8
  <1> HIDE DEF Level
  <1>5. ASSUME NEW n \in Nat PROVE f[n] = next[n]
    <2>1. CASE n = 0
      <3>1. Level(0) = tree[0]
        BY <1>1
      <3> QED BY <2>1, <3>1
    <2>2. CASE n # 0
      <3>1. n - 1 \in Nat
        BY <2>2
      <3>2. Level(n) = Level(n - 1) \cup UNION {tree[c] : c \in Level(n - 1)}
        <4>1. ASSUME NEW c \in Level(n)
              PROVE  c \in Level(n - 1) \cup UNION {tree[d] : d \in Level(n - 1)}
          <5>1. c \in Level(n - 1) \/ \E d \in Level(n - 1) : c \in tree[d]
            BY <1>2, <2>2
          <5> QED BY <5>1, Zenon
        <4>2. ASSUME NEW c \in Level(n - 1) \cup UNION {tree[d] : d \in Level(n - 1)}
              PROVE  c \in Level(n)
          <5>1. c \in Level(n - 1) \/ \E d \in Level(n - 1) : c \in tree[d]
            OBVIOUS
          <5> QED BY <1>3, <1>4, <2>2, <5>1
        <4> QED BY <4>1, <4>2
      <3> QED BY <2>2, <3>1, <3>2
    <2> QED BY <2>1, <2>2
  <1>6. f = next
    BY <1>5
  <1> QED BY <1>6

LEMMA EveryReplyIsReached ==
    ASSUME NEW D \in SUBSET CommentIds, NEW up \in [D -> D \cup {0}],
           \A c \in D : up[c] < c, NEW tree,
           tree = [p \in D \cup {0} |-> {c \in D : up[c] = p}], NEW below,
           below = [n \in Nat |-> IF n = 0 THEN tree[0]
                                  ELSE below[n - 1] \cup UNION {tree[c] : c \in below[n - 1]}]
    PROVE  below[MaxComments] = D
  <1>1. D \subseteq Nat /\ 0 \notin D /\ \A c \in D : c \in 1..MaxComments
    BY ThreadIdsDiffer
  <1>2. /\ below[0] = tree[0]
        /\ \A n \in Nat : n # 0 =>
              below[n] = below[n - 1] \cup UNION {tree[c] : c \in below[n - 1]}
    OBVIOUS
  <1>3. \A n \in Nat : below[n] \subseteq D /\ tree[0] \subseteq below[n]
    <2> DEFINE bad == {n \in Nat : ~(below[n] \subseteq D /\ tree[0] \subseteq below[n])}
    <2> SUFFICES ASSUME bad # {} PROVE FALSE
      OBVIOUS
    <2>1. PICK n \in bad : \A m \in bad : n <= m
      BY FirstId
    <2>2. n \in Nat
      OBVIOUS
    <2>3. n # 0
      <3>1. tree[0] \subseteq D
        OBVIOUS
      <3> QED BY <1>2, <3>1
    <2>4. n - 1 \in Nat /\ ~(n <= n - 1)
      <3> HIDE DEF bad
      <3> QED BY <2>2, <2>3
    <2>5. below[n - 1] \subseteq D /\ tree[0] \subseteq below[n - 1]
      BY <2>1, <2>4
    <2>6. \A c \in D : tree[c] \subseteq D
      OBVIOUS
    <2>7. below[n] = below[n - 1] \cup UNION {tree[c] : c \in below[n - 1]}
      BY <1>2, <2>2, <2>3
    <2>8. UNION {tree[c] : c \in below[n - 1]} \subseteq D
      BY <2>5, <2>6
    <2>9. below[n] \subseteq D /\ tree[0] \subseteq below[n]
      BY <2>5, <2>7, <2>8
    <2> QED BY <2>9
  <1>4. \A c \in D : \A n \in Nat : c <= n => c \in below[n]
    <2> DEFINE bad == {c \in D : \E n \in Nat : c <= n /\ c \notin below[n]}
    <2> SUFFICES ASSUME bad # {} PROVE FALSE
      OBVIOUS
    <2>1. PICK c \in bad : \A d \in bad : c <= d
      <3>1. bad \subseteq Nat
        BY <1>1
      <3> HIDE DEF bad
      <3> QED BY <3>1, FirstId
    <2>2. PICK n \in Nat : c <= n /\ c \notin below[n]
      OBVIOUS
    <2>3. c \in D /\ c \in Nat /\ up[c] < c /\ c \in tree[up[c]]
      BY <1>1
    <2>4. CASE up[c] = 0
      BY <1>3, <2>2, <2>3, <2>4
    <2>5. CASE up[c] # 0
      <3>1. up[c] \in D /\ up[c] \in Nat
        BY <1>1, <2>3, <2>5
      <3>2. n - 1 \in Nat /\ up[c] <= n - 1 /\ n # 0 /\ ~(c <= up[c])
        BY <2>2, <2>3, <3>1, <1>1
      <3>3. up[c] \notin bad
        BY <2>1, <3>2
      <3>4. up[c] \in below[n - 1]
        BY <3>1, <3>2, <3>3
      <3>5. c \in UNION {tree[d] : d \in below[n - 1]}
        BY <2>3, <3>4
      <3> QED BY <1>2, <2>2, <3>2, <3>5
    <2> QED BY <2>4, <2>5
  <1>5. MaxComments \in Nat /\ \A c \in D : c <= MaxComments
    BY <1>1, ThreadIdsDiffer
  <1>6. below[MaxComments] \subseteq D
    BY <1>3, <1>5
  <1>7. \A c \in D : c \in below[MaxComments]
    BY <1>4, <1>5
  <1> QED BY <1>6, <1>7

\* the tree holds each comment of the lists exactly once, reached from the top
LEMMA TreeInvImplies == TreeInv => TreeHoldsEveryComment
  <1> SUFFICES ASSUME TreeInv PROVE TreeHoldsEveryComment
    OBVIOUS
  <1> DEFINE tree == BuildTree(ById)
             D == DOMAIN ById
             up == [c \in D |-> ParentIn(ById, c)]
             below == CHOOSE f : f = [n \in Nat |-> IF n = 0 THEN tree[0]
                                     ELSE f[n - 1] \cup UNION {tree[c] : c \in f[n - 1]}]
  <1>1. D \in SUBSET CommentIds /\ 0 \notin D
    BY ByIdSound, ThreadIdsDiffer DEF TreeInv, ThreadInv
  <1>2. up \in [D -> D \cup {0}] /\ \A c \in D : up[c] < c
    <2>1. ASSUME NEW c \in D
          PROVE  ParentIn(ById, c) \in D \cup {0} /\ ParentIn(ById, c) < c
      <3>1. c \in CommentIds /\ ById[c].parent < c
        BY ShownPlaced
      <3> QED BY <3>1, ThreadIdsDiffer DEF ParentIn
    <2> QED BY <2>1
  <1>3. tree = [p \in D \cup {0} |-> {c \in D : up[c] = p}]
    BY DEF BuildTree
  <1>4. D = UNION {DOMAIN lists[l] : l \in Lists}
    BY DEF ById, ByIdOf
  <1>5. \A p, q \in DOMAIN tree : p # q => tree[p] \cap tree[q] = {}
    BY DEF BuildTree
  <1> HIDE DEF tree, D, up
  <1>6. below = [n \in Nat |-> IF n = 0 THEN tree[0]
                               ELSE below[n - 1] \cup UNION {tree[c] : c \in below[n - 1]}]
    <2>1. \E f : f = [n \in Nat |-> IF n = 0 THEN tree[0]
                                  ELSE f[n - 1] \cup UNION {tree[c] : c \in f[n - 1]}]
      BY <1>1, <1>2, <1>3, LevelsExist, SMTT(30)
    <2> QED BY <2>1, Zenon
  <1>7. below[MaxComments] = D
    <2> HIDE DEF below
    <2> QED BY <1>1, <1>2, <1>3, <1>6, EveryReplyIsReached, SMTT(30)
  <1> QED BY <1>4, <1>5, <1>7 DEF TreeHoldsEveryComment, tree

----------------------------------------------------------------------------
\* StaffTools

SettingNames == {"auto_approve", "trusted_after"}
Settings == [auto_approve : 0..1, trusted_after : 0..1]
ToolVisit == [buttons : SUBSET STRING, presses : Nat, others : Nat]
ShotStatuses == {"none", "pending", "published", "rejected"}
Board == [logo : Nat, plans : SUBSET {"pro"}, cap : BOOLEAN, verified : Nat,
          maintainers : SUBSET Accounts, links : SUBSET (Accounts \cup Strangers),
          settings : Settings, shots : [Pictures -> ShotStatuses]]
BoardRequests(b) ==
    CASE b = "logo"   -> {StaffUploadToolLogo(Listing)}
      [] b = "upload" -> {StaffUploadScreenshot(Listing)}
      [] b = "review" -> {StaffReviewScreenshot(s, to) : s \in Pictures,
                                                          to \in {"published", "rejected"}}
      [] b = "assign" -> {StaffAssignMaintainer(Listing, to) : to \in Accounts \cup Strangers}
      [] b = "invite" -> {StaffCreateClaimInvite(Listing, to) : to \in Accounts \cup Strangers}
      [] b = "verify" -> {StaffMarkPricesVerified(Listing)}
      [] b = "badge"  -> {StaffSendBadgeSuggestion(Listing)}
      [] b = "plan"   -> {StaffCreatePlan(Listing, "pro")}
      [] b = "uncap"  -> {StaffRemovePlanLimit(Listing, "seats")}
      [] OTHER        -> {StaffUpdateCommentSettings(f, v) : f \in SettingNames, v \in 0..1}
PressCall == CallRecord(UNION {BoardRequests(b) : b \in Buttons}, {0} \cup Settings)
PressRecord == [button : Buttons, call : PressCall, mounted : BOOLEAN,
                waits : SUBSET AfterWriteKeys]
SettingsKey == StaffGetCommentSettings
EntryOf(key) ==
    CASE key = PageKey   -> [logo : Nat, plans : SUBSET {"pro"}, shown : SUBSET Pictures]
      [] key = RecordKey -> [verified : Nat, maintainers : SUBSET Accounts, cap : BOOLEAN]
      [] key = ShotsKey  -> [shots : [Pictures -> ShotStatuses]]
      [] OTHER           -> [settings : Settings]

BoardShape ==
    /\ toolsVisit \in ToolVisit
    /\ board \in Board
    /\ DOMAIN cached = AfterWriteKeys \cup {SettingsKey}
    /\ \A k \in AfterWriteKeys \cup {SettingsKey} : cached[k] \in EntryOf(k)
    /\ DOMAIN fetching = AfterWriteKeys
    /\ \A k \in AfterWriteKeys :
          /\ fetching[k] \in CallRecord(ReadOf(k), {0} \cup EntryOf(k))
          /\ fetching[k].stage = "answered" => fetching[k].data \in EntryOf(k)
    /\ toRefetch \subseteq {ShotsKey} /\ ("shots" \in panels => toRefetch = {})
    /\ panels \subseteq PanelsUsed
    /\ typedTo \in [{"assign", "invite"} -> {""} \cup Accounts \cup Strangers]
    /\ presses \in Seq(PressRecord)
    /\ link \in {""} \cup board.links
    /\ boardMoved \in BOOLEAN

\* What a press is about, and what came of it: a link answered is one the server
\* made, and the settings answered are still the server's, as nobody else's
\* change or lost answer came between.
PressSound(p) ==
    /\ p.call.stage \in {"sent", "answered"} => p.call.req \in BoardRequests(p.button)
    /\ p.button = "settings" => p.mounted
    /\ p.call.stage = "answered" /\ p.call.ok /\ p.button = "invite" =>
          p.call.req.body \in board.links
    /\ p.call.stage = "answered" /\ p.call.ok /\ p.button = "settings" =>
          p.call.data \in Settings /\ (boardMoved \/ p.call.data = board.settings)
PressesSound == \A i \in DOMAIN presses : PressSound(presses[i])

\* the settings' button is busy until its answer is in the cache
SettingsOut(i) == presses[i].button = "settings" /\ Pending(presses[i].call)
OneSettings == \A i, j \in DOMAIN presses : SettingsOut(i) /\ SettingsOut(j) => i = j

\* A cache entry that is not the server's is to be read again, or is being read:
\* a write has been answered and not yet acted upon, the read has not taken its
\* snapshot or nothing changed since, or its panel is closed and will read it.
Answered(i) == presses[i].call.stage = "answered" /\ presses[i].call.ok
Rereads == {"logo", "review", "upload", "assign", "verify", "plan", "uncap"}
WriteAnsweredOK == \E i \in DOMAIN presses : Answered(i) /\ presses[i].button \in Rereads
EntryFollows(k) ==
    \/ fetching[k].stage = "sent"
    \/ fetching[k].stage = "answered" /\ fetching[k].data = BoardAnswer(k)
    \/ k \in toRefetch
    \/ fetching[k].stage = "idle" /\ cached[k] = BoardAnswer(k)
EntriesFollow == boardMoved \/ WriteAnsweredOK \/ \A k \in AfterWriteKeys : EntryFollows(k)
SettingsFollow ==
    \/ boardMoved
    \/ \E i \in DOMAIN presses : Answered(i) /\ presses[i].button = "settings"
    \/ cached[SettingsKey] = BoardAnswer(SettingsKey)

BoardInv ==
    BoardShape /\ PressesSound /\ OneSettings /\ EntriesFollow /\ SettingsFollow

LEMMA KeyOfOne == ASSUME NEW op, NEW x PROVE Key(op, <<x>>) = << <<op, x>> >>
  <1> DEFINE S == {op, x}
             joined == <<op>> \o <<x>>
  <1>1. <<op>> \in Seq(S) /\ <<x>> \in Seq(S)
    OBVIOUS
  <1>2. /\ joined \in Seq(S) /\ Len(joined) = Len(<<op>>) + Len(<<x>>)
        /\ \A i \in 1..(Len(<<op>>) + Len(<<x>>)) :
              joined[i] = IF i <= Len(<<op>>) THEN <<op>>[i] ELSE <<x>>[i - Len(<<op>>)]
    BY <1>1, ConcatProperties
  <1>3. joined = <<op, x>>
    <2> HIDE DEF joined
    <2>1. Len(joined) = 2 /\ joined[1] = op /\ joined[2] = x
      BY <1>2
    <2> QED BY <1>2, <2>1
  <1> QED BY <1>3 DEF Key

LEMMA BoardKeysDiffer ==
    /\ PageKey # RecordKey /\ PageKey # ShotsKey /\ RecordKey # ShotsKey
    /\ SettingsKey \notin AfterWriteKeys
    /\ \A k \in AfterWriteKeys : Invalidates(k, k)
  <1>1. /\ PageKey = << <<"GetTool", Listing>> >>
        /\ RecordKey = << <<"StaffGetTool", Listing>> >>
        /\ ShotsKey = << <<"StaffListScreenshots", Listing>> >>
        /\ SettingsKey = << <<"StaffGetCommentSettings">> >>
    <2>1. PageKey = << <<"GetTool", Listing>> >>
      BY KeyOfOne DEF PageKey, GetTool
    <2>2. RecordKey = << <<"StaffGetTool", Listing>> >>
      BY KeyOfOne DEF RecordKey, StaffGetTool
    <2>3. ShotsKey = << <<"StaffListScreenshots", Listing>> >>
      BY KeyOfOne DEF ShotsKey, StaffListScreenshots
    <2>4. SettingsKey = << <<"StaffGetCommentSettings">> >>
      BY DEF SettingsKey, StaffGetCommentSettings, Key
    <2> QED BY <2>1, <2>2, <2>3, <2>4
  <1>2. PageKey # RecordKey /\ PageKey # ShotsKey /\ RecordKey # ShotsKey
    BY <1>1
  <1>3. PageKey[1][1] # SettingsKey[1][1]
    BY <1>1
  <1>4. RecordKey[1][1] # SettingsKey[1][1] /\ ShotsKey[1][1] # SettingsKey[1][1]
    BY <1>1
  <1>5. SettingsKey \notin AfterWriteKeys
    BY <1>3, <1>4 DEF AfterWriteKeys
  <1>6. ASSUME NEW k \in AfterWriteKeys PROVE Invalidates(k, k)
    <2>1. Len(k) = 1
      BY <1>1 DEF AfterWriteKeys
    <2> QED BY <2>1 DEF Invalidates, IsPrefix
  <1> QED BY <1>2, <1>5, <1>6

LEMMA AllInvalidated == Invalidated = AfterWriteKeys
  BY BoardKeysDiffer DEF Invalidated

LEMMA BoardAnswerTyped ==
    ASSUME board \in Board
    PROVE  \A k \in AfterWriteKeys \cup {SettingsKey} : BoardAnswer(k) \in EntryOf(k)
  <1>1. /\ board.logo \in Nat /\ board.plans \subseteq {"pro"} /\ board.cap \in BOOLEAN
        /\ board.verified \in Nat /\ board.maintainers \subseteq Accounts
        /\ board.settings \in Settings /\ board.shots \in [Pictures -> ShotStatuses]
    BY DEF Board
  <1>2. BoardAnswer(PageKey) \in EntryOf(PageKey)
    <2> DEFINE page == [logo |-> board.logo, plans |-> board.plans,
                        shown |-> {s \in Pictures : board.shots[s] = "published"}]
    <2>1. page \in [logo : Nat, plans : SUBSET {"pro"}, shown : SUBSET Pictures]
      BY <1>1
    <2>2. BoardAnswer(PageKey) = page
      BY BoardKeysDiffer DEF BoardAnswer
    <2> HIDE DEF page
    <2> QED BY <2>1, <2>2, BoardKeysDiffer DEF EntryOf
  <1>3. BoardAnswer(RecordKey) \in EntryOf(RecordKey)
    BY <1>1, BoardKeysDiffer DEF BoardAnswer, EntryOf
  <1>4. BoardAnswer(ShotsKey) \in EntryOf(ShotsKey)
    BY <1>1, BoardKeysDiffer DEF BoardAnswer, EntryOf
  <1>5. BoardAnswer(SettingsKey) \in EntryOf(SettingsKey)
    BY <1>1, BoardKeysDiffer DEF BoardAnswer, EntryOf, AfterWriteKeys
  <1> QED BY <1>2, <1>3, <1>4, <1>5 DEF AfterWriteKeys

LEMMA BoardInitInv == BoardInit => BoardInv
  <1> SUFFICES ASSUME BoardInit PROVE BoardInv
    OBVIOUS
  <1>1. board \in Board
    <2>1. [s \in Pictures |-> IF \A t \in Pictures : s <= t THEN "pending" ELSE "none"]
             \in [Pictures -> ShotStatuses]
      BY DEF ShotStatuses
    <2>2. [auto_approve |-> 0, trusted_after |-> 0] \in Settings
      BY DEF Settings
    <2> QED BY <2>1, <2>2 DEF BoardInit, Board
  <1>2. \A k \in AfterWriteKeys \cup {SettingsKey} :
            cached[k] = BoardAnswer(k) /\ cached[k] \in EntryOf(k)
    BY <1>1, BoardAnswerTyped DEF BoardInit, SettingsKey
  <1>3. \A k \in AfterWriteKeys :
            /\ fetching[k] \in CallRecord(ReadOf(k), {0} \cup EntryOf(k))
            /\ fetching[k].stage = "idle"
    <2> SUFFICES ASSUME NEW k \in AfterWriteKeys
                 PROVE  /\ fetching[k] \in CallRecord(ReadOf(k), {0} \cup EntryOf(k))
                        /\ fetching[k].stage = "idle"
      OBVIOUS
    <2>1. fetching[k] = NoCall
      BY DEF BoardInit
    <2> QED BY <2>1, NoCallIsIdle
  <1>4. presses = <<>> /\ presses \in Seq(PressRecord) /\ DOMAIN presses = {}
    <2>1. presses = <<>>
      BY DEF BoardInit
    <2> QED BY <2>1
  <1>5. BoardShape
    <2>1. /\ DOMAIN cached = AfterWriteKeys \cup {SettingsKey} /\ DOMAIN fetching = AfterWriteKeys
      BY DEF BoardInit, SettingsKey
    <2>2. typedTo \in [{"assign", "invite"} -> {""} \cup Accounts \cup Strangers]
      BY DEF BoardInit
    <2>3. toolsVisit \in ToolVisit
      BY StaffToolsAssumption DEF BoardInit, StaffToolsAssumption, ToolVisit
    <2> QED BY <1>1, <1>2, <1>3, <1>4, <2>1, <2>2, <2>3 DEF BoardShape, BoardInit
  <1>6. EntriesFollow /\ SettingsFollow
    BY <1>2, <1>3 DEF EntriesFollow, EntryFollows, SettingsFollow
  <1> QED BY <1>4, <1>5, <1>6 DEF BoardInv, PressesSound, OneSettings

LEMMA SameLength ==
    ASSUME NEW S, NEW s \in Seq(S), NEW t, t = [j \in DOMAIN s |-> t[j]],
           \A j \in DOMAIN s : t[j] \in S
    PROVE  t \in Seq(S) /\ DOMAIN t = DOMAIN s
  <1>1. Len(s) \in Nat /\ DOMAIN s = 1..Len(s)
    OBVIOUS
  <1>2. t \in [1..Len(s) -> S]
    BY <1>1
  <1> QED BY <1>1, <1>2

LEMMA PressTyped ==
    ASSUME BoardShape, NEW i \in DOMAIN presses
    PROVE  /\ presses[i] \in PressRecord
           /\ presses[i].button \in Buttons /\ presses[i].call \in PressCall
           /\ presses[i].mounted \in BOOLEAN /\ presses[i].waits \subseteq AfterWriteKeys
  <1>1. presses \in Seq(PressRecord)
    BY DEF BoardShape
  <1>2. presses[i] \in PressRecord
    BY <1>1
  <1> QED BY <1>2 DEF PressRecord

\* what most steps do to a press: its call is over or goes on to the reads it
\* waits for, and only a button in a panel loses its hook
Eased(p, q) ==
    /\ q.button = p.button
    /\ p.button = "settings" => q.mounted = p.mounted
    /\ \/ q.call = p.call
       \/ /\ q.call.stage \notin {"sent", "answered"}
          /\ p.call.stage # "idle"

LEMMA EasedStaySound ==
    ASSUME BoardInv, board' = board, boardMoved => boardMoved',
           DOMAIN presses' = DOMAIN presses,
           \A i \in DOMAIN presses : Eased(presses[i], presses'[i])
    PROVE  PressesSound' /\ OneSettings'
  <1>1. ASSUME NEW i \in DOMAIN presses PROVE PressSound(presses[i])'
    <2>1. PressSound(presses[i]) /\ Eased(presses[i], presses'[i])
      BY <1>1 DEF BoardInv, PressesSound
    <2>2. board.settings' = board.settings /\ board.links' = board.links
      OBVIOUS
    <2> QED BY <2>1, <2>2 DEF PressSound, Eased
  <1>2. ASSUME NEW i \in DOMAIN presses PROVE SettingsOut(i)' => SettingsOut(i)
    <2>1. Eased(presses[i], presses'[i])
      BY <1>2
    <2> QED BY <2>1 DEF Eased, SettingsOut, Pending
  <1>3. PressesSound'
    BY <1>1 DEF PressesSound
  <1>4. OneSettings'
    BY <1>2 DEF BoardInv, OneSettings
  <1> QED BY <1>3, <1>4

\* as long as no press that was answered is acted upon, one that will make the
\* page read again is still there
LEMMA AnswersOnTheirWay ==
    ASSUME DOMAIN presses' = DOMAIN presses,
           \A i \in DOMAIN presses : Answered(i) =>
               presses'[i].button = presses[i].button /\ presses'[i].call = presses[i].call
    PROVE  /\ WriteAnsweredOK => WriteAnsweredOK'
           /\ (\E i \in DOMAIN presses : Answered(i) /\ presses[i].button = "settings") =>
                 (\E i \in DOMAIN presses : Answered(i) /\ presses[i].button = "settings")'
  <1>1. \A i \in DOMAIN presses :
            Answered(i) => Answered(i)' /\ presses'[i].button = presses[i].button
    BY DEF Answered
  <1> QED BY <1>1 DEF WriteAnsweredOK

LEMMA AnswersStayTrue == board' = board => \A k : BoardAnswer(k)' = BoardAnswer(k)
  BY DEF BoardAnswer

\* the page's own steps: panels opened and closed, an address typed
LEMMA OpenPanelKeeps == ASSUME BoardInv, NEW p \in PanelsUsed, OpenPanel(p) PROVE BoardInv'
  <1>1. BoardShape
    BY DEF BoardInv
  <1>2. UNCHANGED <<toolsVisit, board, cached, typedTo, presses, link, boardMoved>>
    BY DEF OpenPanel
  <1>3. ShotsKey \in AfterWriteKeys
    BY DEF AfterWriteKeys
  <1> DEFINE reread == p = "shots" /\ ShotsKey \in toRefetch
  <1>4. /\ Fetch(ShotsKey) \in CallRecord(ReadOf(ShotsKey), {0} \cup EntryOf(ShotsKey))
        /\ Fetch(ShotsKey).stage = "sent"
    BY FetchIsSent
  <1>5. /\ fetching' = IF reread THEN [fetching EXCEPT ![ShotsKey] = Fetch(ShotsKey)] ELSE fetching
        /\ toRefetch' = IF reread THEN {} ELSE toRefetch
        /\ panels' = panels \cup {p} /\ panels' \subseteq PanelsUsed
    BY <1>1 DEF OpenPanel, BoardShape
  <1>6. DOMAIN fetching' = AfterWriteKeys
    BY <1>1, <1>5 DEF BoardShape
  <1>7. ASSUME NEW k \in AfterWriteKeys
        PROVE  IF reread /\ k = ShotsKey THEN fetching'[k] = Fetch(ShotsKey)
                                         ELSE fetching'[k] = fetching[k]
    BY <1>1, <1>5 DEF BoardShape
  <1>8. BoardShape'
    <2>1. \A k \in AfterWriteKeys :
             /\ fetching'[k] \in CallRecord(ReadOf(k), {0} \cup EntryOf(k))
             /\ fetching'[k].stage = "answered" => fetching'[k].data \in EntryOf(k)
      BY <1>1, <1>4, <1>7 DEF BoardShape
    <2>2. toRefetch' \subseteq {ShotsKey} /\ ("shots" \in panels' => toRefetch' = {})
      BY <1>1, <1>5 DEF BoardShape
    <2>3. PanelsUsed' = PanelsUsed
      BY <1>2 DEF PanelsUsed
    <2> QED BY <1>1, <1>2, <1>5, <1>6, <2>1, <2>2, <2>3 DEF BoardShape
  <1>9. PressesSound' /\ OneSettings' /\ SettingsFollow'
    <2>1. BoardAnswer(SettingsKey)' = BoardAnswer(SettingsKey)
      BY <1>2, AnswersStayTrue
    <2> QED BY <1>2, <2>1 DEF BoardInv, PressesSound, PressSound, OneSettings, SettingsOut,
               SettingsFollow, Answered
  <1>10. EntriesFollow'
    <2>1. ASSUME NEW k \in AfterWriteKeys, EntryFollows(k) PROVE EntryFollows(k)'
      <3>1. BoardAnswer(k)' = BoardAnswer(k)
        BY <1>2, AnswersStayTrue
      <3> QED BY <1>1, <1>2, <1>4, <1>5, <1>7, <2>1, <3>1 DEF EntryFollows, BoardShape
    <2>2. WriteAnsweredOK' = WriteAnsweredOK
      BY <1>2 DEF WriteAnsweredOK, Answered
    <2> QED BY <1>2, <2>1, <2>2 DEF BoardInv, EntriesFollow
  <1> QED BY <1>8, <1>9, <1>10 DEF BoardInv

\* steps that leave the cache, its reads and the server alone
LEMMA PressStepKeeps ==
    ASSUME BoardInv, UNCHANGED <<toolsVisit, board, cached, fetching, toRefetch, boardMoved>>,
           panels' \subseteq panels,
           typedTo' \in [{"assign", "invite"} -> {""} \cup Accounts \cup Strangers],
           presses' \in Seq(PressRecord), link' \in {""} \cup board.links,
           DOMAIN presses' = DOMAIN presses,
           \A i \in DOMAIN presses : Eased(presses[i], presses'[i]),
           \A i \in DOMAIN presses : Answered(i) => presses'[i].call = presses[i].call
    PROVE  BoardInv'
  <1>1. BoardShape
    BY DEF BoardInv
  <1>2. \A k : BoardAnswer(k)' = BoardAnswer(k)
    BY AnswersStayTrue
  <1>3. BoardShape'
    BY <1>1 DEF BoardShape, PanelsUsed
  <1>4. PressesSound' /\ OneSettings'
    BY EasedStaySound
  <1>5. \A k \in AfterWriteKeys : EntryFollows(k) => EntryFollows(k)'
    BY <1>2 DEF EntryFollows
  <1>6. \A i \in DOMAIN presses : Answered(i) =>
            presses'[i].button = presses[i].button /\ presses'[i].call = presses[i].call
    BY DEF Eased
  <1>7. EntriesFollow' /\ SettingsFollow'
    BY <1>2, <1>5, <1>6, AnswersOnTheirWay DEF BoardInv, EntriesFollow, SettingsFollow
  <1> QED BY <1>3, <1>4, <1>7 DEF BoardInv

LEMMA ClosePanelKeeps == ASSUME BoardInv, NEW p \in PanelsUsed, ClosePanel(p) PROVE BoardInv'
  <1>1. BoardShape
    BY DEF BoardInv
  <1>2. p # "page"
    BY DEF PanelsUsed
  <1>3. presses' = [i \in DOMAIN presses |->
           IF PanelOf(presses[i].button) = p THEN [presses[i] EXCEPT !.mounted = FALSE]
                                             ELSE presses[i]]
    BY DEF ClosePanel
  <1>4. ASSUME NEW i \in DOMAIN presses
        PROVE  /\ presses'[i] \in PressRecord /\ presses'[i].call = presses[i].call
               /\ Eased(presses[i], presses'[i])
    <2>1. presses[i] \in PressRecord
      BY <1>1, <1>4, PressTyped
    <2>2. presses[i].button = "settings" => PanelOf(presses[i].button) = "page"
      BY DEF PanelOf
    <2> QED BY <1>2, <1>3, <2>1, <2>2 DEF PressRecord, Eased
  <1>5. presses' \in Seq(PressRecord) /\ DOMAIN presses' = DOMAIN presses
    <2>1. presses \in Seq(PressRecord)
      BY <1>1 DEF BoardShape
    <2>2. presses' = [i \in DOMAIN presses |-> presses'[i]]
      BY <1>3
    <2> HIDE DEF PressRecord
    <2> QED BY <1>4, <2>1, <2>2, SameLength
  <1>6. /\ link' \in {""} \cup board.links /\ panels' \subseteq panels
        /\ UNCHANGED <<toolsVisit, board, cached, fetching, toRefetch, boardMoved, typedTo>>
    BY <1>1 DEF BoardShape, ClosePanel
  <1>7. typedTo' \in [{"assign", "invite"} -> {""} \cup Accounts \cup Strangers]
    BY <1>1, <1>6 DEF BoardShape
  <1> QED BY <1>4, <1>5, <1>6, <1>7, PressStepKeeps

LEMMA PressesStill ==
    presses' = presses => \A i \in DOMAIN presses : Eased(presses[i], presses'[i])
  BY DEF Eased

LEMMA TypeAddressKeeps == ASSUME BoardInv, NEW p \in PanelsUsed, TypeAddress(p) PROVE BoardInv'
  <1>1. BoardShape
    BY DEF BoardInv
  <1>2. UNCHANGED <<toolsVisit, board, cached, fetching, toRefetch, panels, presses, link,
                    boardMoved>>
    BY DEF TypeAddress
  <1>3. typedTo' \in [{"assign", "invite"} -> {""} \cup Accounts \cup Strangers]
    <2>1. PICK to \in Strangers \cup Accounts : typedTo' = [typedTo EXCEPT ![p] = to]
      BY DEF TypeAddress, Matching
    <2> QED BY <1>1, <2>1 DEF BoardShape
  <1> QED BY <1>1, <1>2, <1>3, PressesStill, PressStepKeeps DEF BoardShape

LEMMA AddressSends ==
    /\ Sends("assign") = {StaffAssignMaintainer(Listing, to) : to \in {typedTo["assign"]} \ {""}}
    /\ Sends("invite") = {StaffCreateClaimInvite(Listing, to) :
                             to \in IF link = "" THEN {typedTo["invite"]} \ {""} ELSE {}}
    /\ BoardRequests("assign") =
          {StaffAssignMaintainer(Listing, to) : to \in Accounts \cup Strangers}
    /\ BoardRequests("invite") =
          {StaffCreateClaimInvite(Listing, to) : to \in Accounts \cup Strangers}
  BY DEF Sends, BoardRequests

LEMMA SendsTyped ==
    ASSUME BoardShape, NEW b \in Buttons, NEW req \in Sends(b)
    PROVE  req \in BoardRequests(b)
  <1>1. typedTo["assign"] \in {""} \cup Accounts \cup Strangers
        /\ typedTo["invite"] \in {""} \cup Accounts \cup Strangers
    BY DEF BoardShape
  <1>2. cached[SettingsKey].settings \in Settings
    BY BoardKeysDiffer DEF BoardShape, EntryOf, AfterWriteKeys
  <1>3. b \in {"logo", "upload", "review", "assign", "invite", "verify", "badge", "plan",
               "uncap", "settings"}
    BY DEF Buttons
  <1>4. CASE b = "logo"
    BY <1>4 DEF Sends, BoardRequests
  <1>5. CASE b = "upload"
    BY <1>5 DEF Sends, BoardRequests
  <1>6. CASE b = "review"
    BY <1>6 DEF Sends, BoardRequests
  <1>7. CASE b = "assign"
    <2>1. PICK to \in Accounts \cup Strangers : req = StaffAssignMaintainer(Listing, to)
      BY <1>1, <1>7, AddressSends
    <2> QED BY <1>7, <2>1, AddressSends
  <1>8. CASE b = "invite"
    <2>1. PICK to \in Accounts \cup Strangers : req = StaffCreateClaimInvite(Listing, to)
      BY <1>1, <1>8, AddressSends
    <2> QED BY <1>8, <2>1, AddressSends
  <1>9. CASE b = "verify"
    BY <1>9 DEF Sends, BoardRequests
  <1>10. CASE b = "badge"
    BY <1>10 DEF Sends, BoardRequests
  <1>11. CASE b = "plan"
    BY <1>11 DEF Sends, BoardRequests
  <1>12. CASE b = "uncap"
    BY <1>12 DEF Sends, BoardRequests
  <1>13. CASE b = "settings"
    <2> DEFINE settings == cached[SettingsKey].settings
    <2>1. PICK f \in DOMAIN settings : req = StaffUpdateCommentSettings(f, 1 - settings[f])
      BY <1>13 DEF Sends, SettingsKey
    <2>2. f \in SettingNames /\ settings[f] \in 0..1
      BY <1>2, <2>1 DEF Settings, SettingNames
    <2>3. 1 - settings[f] \in 0..1
      BY <2>2
    <2> QED BY <1>13, <2>1, <2>2, <2>3 DEF BoardRequests
  <1> QED BY <1>3, <1>4, <1>5, <1>6, <1>7, <1>8, <1>9, <1>10, <1>11, <1>12, <1>13

\* A sequence with one more at its end.
LEMMA OneMore ==
    ASSUME NEW S, NEW s \in Seq(S), NEW x \in S
    PROVE  /\ Append(s, x) \in Seq(S) /\ Len(s) \in Nat
           /\ DOMAIN s = 1..Len(s) /\ DOMAIN Append(s, x) = 1..(Len(s) + 1)
           /\ Append(s, x)[Len(s) + 1] = x
           /\ \A i \in DOMAIN s : Append(s, x)[i] = s[i]
  OBVIOUS

LEMMA PressKeeps == ASSUME BoardInv, NEW b \in Buttons, Press(b) PROVE BoardInv'
  <1>1. BoardShape
    BY DEF BoardInv
  <1>2. UNCHANGED <<toolsVisit, board, cached, fetching, toRefetch, panels, typedTo, link,
                    boardMoved>>
    BY DEF Press
  <1>3. PICK req \in Sends(b) : presses' = Append(presses,
            [button |-> b, call |-> Sent(req), mounted |-> TRUE, waits |-> {}])
    BY DEF Press
  <1>4. req \in BoardRequests(b)
    BY <1>1, SendsTyped
  <1>5. Sent(req) \in PressCall /\ Sent(req).stage = "sent" /\ Sent(req).req = req
    BY <1>4, SentIsSent DEF PressCall
  <1> DEFINE new == [button |-> b, call |-> Sent(req), mounted |-> TRUE, waits |-> {}]
  <1>6. /\ new \in PressRecord /\ new.button = b /\ new.call = Sent(req) /\ new.mounted
    BY <1>5 DEF PressRecord
  <1>7. presses \in Seq(PressRecord)
    BY <1>1 DEF BoardShape
  <1> HIDE DEF new
  <1>8. PICK n \in Nat :
           /\ presses' \in Seq(PressRecord) /\ DOMAIN presses = 1..n
           /\ DOMAIN presses' = 1..(n + 1) /\ presses'[n + 1] = new
           /\ \A i \in DOMAIN presses : presses'[i] = presses[i]
    <2>1. presses' = Append(presses, new)
      BY <1>3 DEF new
    <2>2. new \in PressRecord
      BY <1>6
    <2> QED BY <1>7, <2>1, <2>2, OneMore
  <1>9. \A i \in DOMAIN presses' : i \in DOMAIN presses \/ i = n + 1
    BY <1>8
  <1>10. BoardShape'
    BY <1>1, <1>2, <1>8 DEF BoardShape, PanelsUsed
  <1>11. PressesSound'
    <2>1. ASSUME NEW i \in DOMAIN presses PROVE PressSound(presses[i])'
      <3>1. PressSound(presses[i])
        BY DEF BoardInv, PressesSound
      <3>2. presses'[i] = presses[i]
        BY <1>8
      <3> QED BY <1>2, <3>1, <3>2 DEF PressSound
    <2>2. PressSound(presses[n + 1])'
      BY <1>4, <1>5, <1>6, <1>8 DEF PressSound
    <2> QED BY <1>9, <2>1, <2>2 DEF PressesSound
  <1>12. OneSettings'
    <2>1. ASSUME NEW i \in DOMAIN presses PROVE SettingsOut(i)' = SettingsOut(i)
      BY <1>8 DEF SettingsOut
    <2>2. ASSUME NEW i \in DOMAIN presses, SettingsOut(i)' PROVE ~SettingsOut(n + 1)'
      <3>1. presses[i].button = "settings" /\ Pending(presses[i].call) /\ presses[i].mounted
        BY <2>1, <2>2 DEF SettingsOut, BoardInv, PressesSound, PressSound
      <3>2. b # "settings"
        BY <3>1 DEF Press, ButtonBusy
      <3> QED BY <1>6, <1>8, <3>2 DEF SettingsOut
    <2>3. ASSUME NEW i \in DOMAIN presses', NEW j \in DOMAIN presses',
                 SettingsOut(i)', SettingsOut(j)'
          PROVE  i = j
      <3>1. CASE i \in DOMAIN presses /\ j \in DOMAIN presses
        BY <2>1, <2>3, <3>1 DEF BoardInv, OneSettings
      <3> QED BY <1>9, <2>2, <2>3, <3>1
    <2> QED BY <2>3 DEF OneSettings
  <1>13. \A k : BoardAnswer(k)' = BoardAnswer(k)
    BY <1>2, AnswersStayTrue
  <1>14. \A i \in DOMAIN presses : i \in DOMAIN presses' /\ (Answered(i) => Answered(i)')
    BY <1>8 DEF Answered
  <1>15. EntriesFollow'
    <2>1. \A k \in AfterWriteKeys : EntryFollows(k) => EntryFollows(k)'
      BY <1>2, <1>13 DEF EntryFollows
    <2>2. WriteAnsweredOK => WriteAnsweredOK'
      BY <1>8, <1>14 DEF WriteAnsweredOK
    <2> QED BY <1>2, <2>1, <2>2 DEF BoardInv, EntriesFollow
  <1>16. SettingsFollow'
    BY <1>2, <1>8, <1>13, <1>14 DEF BoardInv, SettingsFollow
  <1> QED BY <1>10, <1>11, <1>12, <1>15, <1>16 DEF BoardInv

\* the reads
LEMMA ServeReadKeeps == ASSUME BoardInv, NEW k \in AfterWriteKeys, ServeRead(k) PROVE BoardInv'
  <1>1. BoardShape
    BY DEF BoardInv
  <1>2. UNCHANGED <<toolsVisit, board, cached, toRefetch, panels, typedTo, presses, link,
                    boardMoved>>
    BY DEF ServeRead
  <1> DEFINE served == Succeeds(fetching[k], BoardAnswer(k))
             calls == CallRecord(ReadOf(k), {0} \cup EntryOf(k))
  <1>3. fetching' = [fetching EXCEPT ![k] = served]
    BY DEF ServeRead
  <1>4. fetching[k] \in calls /\ BoardAnswer(k) \in EntryOf(k)
    BY <1>1, BoardAnswerTyped DEF BoardShape
  <1>5. /\ served \in calls /\ served.stage = "answered" /\ served.data = BoardAnswer(k)
    BY <1>4, SucceedsIsAnswered
  <1> HIDE DEF served
  <1>6. ASSUME NEW j \in AfterWriteKeys
        PROVE  fetching'[j] = IF j = k THEN served ELSE fetching[j]
    BY <1>1, <1>3 DEF BoardShape
  <1>7. BoardShape'
    <2>1. \A j \in AfterWriteKeys :
             /\ fetching'[j] \in CallRecord(ReadOf(j), {0} \cup EntryOf(j))
             /\ fetching'[j].stage = "answered" => fetching'[j].data \in EntryOf(j)
      BY <1>1, <1>4, <1>5, <1>6 DEF BoardShape
    <2>2. DOMAIN fetching' = AfterWriteKeys
      BY <1>1, <1>3 DEF BoardShape
    <2> QED BY <1>1, <1>2, <2>1, <2>2 DEF BoardShape, PanelsUsed
  <1>8. \A j : BoardAnswer(j)' = BoardAnswer(j)
    BY <1>2, AnswersStayTrue
  <1>9. PressesSound' /\ OneSettings' /\ SettingsFollow'
    BY <1>2, <1>8 DEF BoardInv, PressesSound, PressSound, OneSettings, SettingsOut,
       SettingsFollow, Answered
  <1>10. EntriesFollow'
    <2>1. ASSUME NEW j \in AfterWriteKeys, EntryFollows(j) PROVE EntryFollows(j)'
      BY <1>2, <1>5, <1>6, <1>8, <2>1 DEF EntryFollows
    <2>2. WriteAnsweredOK' = WriteAnsweredOK
      BY <1>2 DEF WriteAnsweredOK, Answered
    <2> QED BY <1>2, <2>1, <2>2 DEF BoardInv, EntriesFollow
  <1> QED BY <1>7, <1>9, <1>10 DEF BoardInv

LEMMA ReadDoneKeeps == ASSUME BoardInv, NEW k \in AfterWriteKeys, ReadDone(k) PROVE BoardInv'
  <1>1. BoardShape
    BY DEF BoardInv
  <1>2. /\ UNCHANGED <<toolsVisit, board, toRefetch, panels, typedTo, link>>
        /\ fetching[k].stage = "answered" /\ fetching' = [fetching EXCEPT ![k] = NoCall]
    BY DEF ReadDone
  <1>3. /\ NoCall \in CallRecord(ReadOf(k), {0} \cup EntryOf(k)) /\ NoCall.stage = "idle"
    BY NoCallIsIdle
  <1>4. ASSUME NEW j \in AfterWriteKeys
        PROVE  fetching'[j] = IF j = k THEN NoCall ELSE fetching[j]
    BY <1>1, <1>2 DEF BoardShape
  <1>5. \/ cached' = [cached EXCEPT ![k] = fetching[k].data] /\ boardMoved' = boardMoved
        \/ boardMoved' /\ cached' = cached
    BY DEF ReadDone
  <1>6. fetching[k].data \in EntryOf(k)
    BY <1>1, <1>2 DEF BoardShape
  <1>7. /\ DOMAIN cached' = AfterWriteKeys \cup {SettingsKey}
        /\ \A j \in AfterWriteKeys \cup {SettingsKey} : cached'[j] \in EntryOf(j)
        /\ \A j \in AfterWriteKeys \cup {SettingsKey} : j # k => cached'[j] = cached[j]
    BY <1>1, <1>5, <1>6 DEF BoardShape
  <1>8. presses' = [j \in DOMAIN presses |-> [presses[j] EXCEPT !.waits = @ \ {k}]]
    BY DEF ReadDone
  <1>9. ASSUME NEW i \in DOMAIN presses
        PROVE  /\ presses'[i] \in PressRecord /\ Eased(presses[i], presses'[i])
               /\ presses'[i].call = presses[i].call /\ presses'[i].button = presses[i].button
    <2>1. presses[i] \in PressRecord
      BY <1>1, PressTyped
    <2>2. presses'[i] = [presses[i] EXCEPT !.waits = @ \ {k}]
      BY <1>8
    <2> QED BY <2>1, <2>2 DEF PressRecord, Eased
  <1>10. presses' \in Seq(PressRecord) /\ DOMAIN presses' = DOMAIN presses
    <2>1. presses' = [j \in DOMAIN presses |-> presses'[j]]
      BY <1>8
    <2> QED BY <1>1, <1>9, <2>1, SameLength DEF BoardShape
  <1>11. BoardShape'
    <2>1. \A j \in AfterWriteKeys :
             /\ fetching'[j] \in CallRecord(ReadOf(j), {0} \cup EntryOf(j))
             /\ fetching'[j].stage = "answered" => fetching'[j].data \in EntryOf(j)
      BY <1>1, <1>3, <1>4 DEF BoardShape
    <2>2. DOMAIN fetching' = AfterWriteKeys
      BY <1>1, <1>2 DEF BoardShape
    <2>3. boardMoved' \in BOOLEAN
      BY <1>1, <1>5 DEF BoardShape, ReadDone
    <2> QED BY <1>1, <1>2, <1>7, <1>10, <2>1, <2>2, <2>3 DEF BoardShape, PanelsUsed
  <1>12. PressesSound' /\ OneSettings'
    BY <1>2, <1>5, <1>9, <1>10, EasedStaySound
  <1>13. \A j : BoardAnswer(j)' = BoardAnswer(j)
    BY <1>2, AnswersStayTrue
  <1>14. CASE boardMoved'
    BY <1>11, <1>12, <1>14 DEF BoardInv, EntriesFollow, SettingsFollow
  <1>15. CASE ~boardMoved'
    <2>1. cached' = [cached EXCEPT ![k] = fetching[k].data] /\ boardMoved' = boardMoved
      BY <1>5, <1>15
    <2>2. ASSUME NEW j \in AfterWriteKeys, EntryFollows(j) PROVE EntryFollows(j)'
      <3>1. CASE j = k
        <4>1. cached'[k] = fetching[k].data
          BY <1>1, <2>1 DEF BoardShape
        <4> QED BY <1>2, <1>3, <1>4, <1>13, <2>2, <3>1, <4>1 DEF EntryFollows
      <3>2. CASE j # k
        BY <1>2, <1>4, <1>7, <1>13, <2>2, <3>2 DEF EntryFollows
      <3> QED BY <3>1, <3>2
    <2>3. EntriesFollow'
      BY <1>9, <1>10, <2>1, <2>2, AnswersOnTheirWay DEF BoardInv, EntriesFollow
    <2>4. cached'[SettingsKey] = cached[SettingsKey]
      BY <1>7, BoardKeysDiffer
    <2>5. SettingsFollow'
      BY <1>9, <1>10, <1>13, <2>1, <2>4, AnswersOnTheirWay DEF BoardInv, SettingsFollow
    <2> QED BY <1>11, <1>12, <2>3, <2>5 DEF BoardInv
  <1> QED BY <1>14, <1>15

\* a press is over
LEMMA FinishIs ==
    ASSUME BoardShape, NEW i \in DOMAIN presses, Finish(i), presses[i].call.stage # "idle"
    PROVE  /\ presses' \in Seq(PressRecord) /\ DOMAIN presses' = DOMAIN presses
           /\ \A j \in DOMAIN presses : Eased(presses[j], presses'[j])
           /\ \A j \in DOMAIN presses : j # i => presses'[j] = presses[j]
  <1>1. presses' = [presses EXCEPT ![i].call = NoCall]
    BY DEF Finish
  <1>2. presses \in Seq(PressRecord)
    BY DEF BoardShape
  <1>3. NoCall \in PressCall /\ NoCall.stage = "idle"
    BY NoCallIsIdle DEF PressCall
  <1>4. PICK p \in PressRecord : p = presses[i]
    BY <1>2
  <1> DEFINE q == [p EXCEPT !.call = NoCall]
  <1>5. q \in PressRecord /\ q.call = NoCall /\ q.button = p.button /\ q.mounted = p.mounted
    BY <1>3 DEF PressRecord
  <1>6. presses' = [presses EXCEPT ![i] = q]
    BY <1>1, <1>4
  <1> HIDE DEF q
  <1>7. /\ presses' \in Seq(PressRecord) /\ DOMAIN presses' = DOMAIN presses
        /\ \A j \in DOMAIN presses : presses'[j] = IF j = i THEN q ELSE presses[j]
    BY <1>2, <1>5, <1>6
  <1>8. Eased(p, q) /\ \A j \in DOMAIN presses : Eased(presses[j], presses[j])
    BY <1>3, <1>4, <1>5 DEF Eased
  <1> QED BY <1>4, <1>7, <1>8

LEMMA PressRefusedKeeps ==
    ASSUME BoardInv, NEW i \in DOMAIN presses, PressRefused(i)
    PROVE  BoardInv'
  <1>1. BoardShape
    BY DEF BoardInv
  <1>2. /\ UNCHANGED <<toolsVisit, board, cached, fetching, toRefetch, panels, typedTo, link,
                       boardMoved>>
        /\ Finish(i) /\ presses[i].call.stage = "answered" /\ ~presses[i].call.ok
    BY DEF PressRefused
  <1>3. /\ presses' \in Seq(PressRecord) /\ DOMAIN presses' = DOMAIN presses
        /\ \A j \in DOMAIN presses : Eased(presses[j], presses'[j])
        /\ \A j \in DOMAIN presses : j # i => presses'[j] = presses[j]
    BY <1>1, <1>2, FinishIs
  <1>4. \A j \in DOMAIN presses : Answered(j) => presses'[j].call = presses[j].call
    BY <1>2, <1>3 DEF Answered
  <1>5. /\ panels' \subseteq panels /\ link' \in {""} \cup board.links
        /\ typedTo' \in [{"assign", "invite"} -> {""} \cup Accounts \cup Strangers]
    BY <1>1, <1>2 DEF BoardShape
  <1> QED BY <1>2, <1>3, <1>4, <1>5, PressStepKeeps

LEMMA PressDoneKeeps ==
    ASSUME BoardInv, NEW i \in DOMAIN presses, PressDone(i)
    PROVE  BoardInv'
  <1>1. BoardShape
    BY DEF BoardInv
  <1>2. /\ UNCHANGED <<toolsVisit, board, cached, fetching, toRefetch, typedTo, link,
                       boardMoved>>
        /\ Finish(i) /\ presses[i].call.stage = "rereading" /\ panels' \subseteq panels
    BY DEF PressDone
  <1>3. /\ presses' \in Seq(PressRecord) /\ DOMAIN presses' = DOMAIN presses
        /\ \A j \in DOMAIN presses : Eased(presses[j], presses'[j])
        /\ \A j \in DOMAIN presses : j # i => presses'[j] = presses[j]
    BY <1>1, <1>2, FinishIs
  <1>4. \A j \in DOMAIN presses : Answered(j) => presses'[j].call = presses[j].call
    BY <1>2, <1>3 DEF Answered
  <1>5. /\ link' \in {""} \cup board.links
        /\ typedTo' \in [{"assign", "invite"} -> {""} \cup Accounts \cup Strangers]
    BY <1>1, <1>2 DEF BoardShape
  <1> QED BY <1>2, <1>3, <1>4, <1>5, PressStepKeeps

\* the answer to an invitation, the badge or the settings
LEMMA OtherAnsweredKeeps ==
    ASSUME BoardInv, NEW i \in DOMAIN presses, OtherAnswered(i)
    PROVE  BoardInv'
  <1>1. BoardShape
    BY DEF BoardInv
  <1>2. /\ UNCHANGED <<toolsVisit, board, fetching, toRefetch, panels, typedTo, boardMoved>>
        /\ Finish(i) /\ presses[i].call.stage = "answered" /\ presses[i].call.ok
        /\ presses[i].button \in {"invite", "badge", "settings"}
        /\ link' = IF presses[i].button = "invite" /\ presses[i].mounted
                   THEN presses[i].call.req.body ELSE link
        /\ cached' = IF presses[i].button = "settings"
                     THEN [cached EXCEPT ![SettingsKey] = [settings |-> presses[i].call.data]]
                     ELSE cached
    BY DEF OtherAnswered, SettingsKey
  <1>3. /\ presses' \in Seq(PressRecord) /\ DOMAIN presses' = DOMAIN presses
        /\ \A j \in DOMAIN presses : Eased(presses[j], presses'[j])
        /\ \A j \in DOMAIN presses : j # i => presses'[j] = presses[j]
    BY <1>1, <1>2, FinishIs
  <1>4. PressSound(presses[i])
    BY DEF BoardInv, PressesSound
  <1>5. link' \in {""} \cup board.links
    BY <1>1, <1>2, <1>4 DEF BoardShape, PressSound
  <1>6. /\ DOMAIN cached' = AfterWriteKeys \cup {SettingsKey}
        /\ \A k \in AfterWriteKeys : cached'[k] = cached[k]
        /\ cached'[SettingsKey] = IF presses[i].button = "settings"
              THEN [settings |-> presses[i].call.data] ELSE cached[SettingsKey]
    BY <1>1, <1>2, BoardKeysDiffer DEF BoardShape
  <1>7. EntryOf(SettingsKey) = [settings : Settings]
    BY BoardKeysDiffer DEF EntryOf, AfterWriteKeys
  <1>8. cached'[SettingsKey] \in EntryOf(SettingsKey)
    BY <1>1, <1>2, <1>4, <1>6, <1>7 DEF BoardShape, PressSound
  <1>9. BoardShape'
    BY <1>1, <1>2, <1>3, <1>5, <1>6, <1>8 DEF BoardShape, PanelsUsed
  <1>10. PressesSound' /\ OneSettings'
    BY <1>2, <1>3, EasedStaySound
  <1>11. \A k : BoardAnswer(k)' = BoardAnswer(k)
    BY <1>2, AnswersStayTrue
  <1>12. EntriesFollow'
    <2>1. \A k \in AfterWriteKeys : EntryFollows(k) => EntryFollows(k)'
      BY <1>2, <1>6, <1>11 DEF EntryFollows
    <2>2. WriteAnsweredOK => WriteAnsweredOK'
      BY <1>2, <1>3 DEF WriteAnsweredOK, Answered, Rereads
    <2> QED BY <1>2, <2>1, <2>2 DEF BoardInv, EntriesFollow
  <1>13. SettingsFollow'
    <2>1. CASE presses[i].button = "settings"
      <3>1. boardMoved \/ presses[i].call.data = board.settings
        BY <1>2, <1>4, <2>1 DEF PressSound
      <3>2. BoardAnswer(SettingsKey) = [settings |-> board.settings]
        BY BoardKeysDiffer DEF BoardAnswer, AfterWriteKeys
      <3> QED BY <1>2, <1>6, <1>11, <2>1, <3>1, <3>2 DEF SettingsFollow
    <2>2. CASE presses[i].button # "settings"
      BY <1>2, <1>3, <1>6, <1>11, <2>2 DEF BoardInv, SettingsFollow, Answered
    <2> QED BY <2>1, <2>2
  <1> QED BY <1>9, <1>10, <1>12, <1>13 DEF BoardInv

\* the answer to a write that makes the page read its entries again
LEMMA RereadAnsweredKeeps ==
    ASSUME BoardInv, NEW i \in DOMAIN presses, RereadAnswered(i)
    PROVE  BoardInv'
  <1>1. BoardShape
    BY DEF BoardInv
  <1>2. /\ UNCHANGED <<toolsVisit, board, cached, link, boardMoved>>
        /\ presses[i].call.stage = "answered"
        /\ presses[i].button \notin {"invite", "badge", "settings"}
        /\ panels' \subseteq panels /\ AfterBoardWrite(i)
        /\ typedTo' = [typedTo EXCEPT !["assign"] = ""] \/ typedTo' = typedTo
    BY DEF RereadAnswered
  <1> DEFINE again == AfterWriteKeys \cap OnShow
  <1>3. /\ fetching' = [k \in AfterWriteKeys |-> IF k \in OnShow THEN Fetch(k) ELSE fetching[k]]
        /\ toRefetch' = toRefetch \cup (AfterWriteKeys \ OnShow)
        /\ presses' = [j \in DOMAIN presses |->
              IF j = i THEN [presses[j] EXCEPT !.call.stage = "rereading", !.waits = again]
                       ELSE [presses[j] EXCEPT !.waits = @ \ again]]
    BY <1>2, AllInvalidated DEF AfterBoardWrite
  <1>4. \A k \in AfterWriteKeys :
           /\ Fetch(k) \in CallRecord(ReadOf(k), {0} \cup EntryOf(k))
           /\ Fetch(k).stage = "sent"
    BY FetchIsSent
  <1>5. again \subseteq AfterWriteKeys
    OBVIOUS
  <1> HIDE DEF again
  <1>6. ASSUME NEW j \in DOMAIN presses
        PROVE  presses'[j] \in PressRecord /\ Eased(presses[j], presses'[j])
    <2>1. PICK p \in PressRecord : p = presses[j]
      BY <1>1, PressTyped
    <2>2. PICK c \in PressCall : c = p.call
      BY DEF PressRecord
    <2> DEFINE d == [c EXCEPT !.stage = "rereading"]
    <2>3. d \in PressCall /\ d.stage = "rereading"
      BY DEF PressCall, CallRecord
    <2>4. CASE j = i
      <3>1. presses'[j] = [p EXCEPT !.call = d, !.waits = again]
        BY <1>3, <2>1, <2>2, <2>4
      <3> HIDE DEF d
      <3> QED BY <1>2, <1>5, <2>1, <2>3, <2>4, <3>1, ZenonT(30) DEF PressRecord, Eased
    <2>5. CASE j # i
      <3>1. presses'[j] = [p EXCEPT !.waits = @ \ again]
        BY <1>3, <2>1, <2>5
      <3> QED BY <1>5, <2>1, <3>1 DEF PressRecord, Eased
    <2> QED BY <2>4, <2>5
  <1>7. presses' \in Seq(PressRecord) /\ DOMAIN presses' = DOMAIN presses
    <2>1. presses' = [j \in DOMAIN presses |-> presses'[j]]
      BY <1>3
    <2> QED BY <1>1, <1>6, <2>1, SameLength DEF BoardShape
  <1>8. toRefetch' \subseteq {ShotsKey} /\ ("shots" \in panels => toRefetch' = {})
    BY <1>1, <1>3 DEF BoardShape, OnShow, AfterWriteKeys
  <1>9. BoardShape'
    <2>1. DOMAIN fetching' = AfterWriteKeys
      BY <1>3
    <2>2. \A k \in AfterWriteKeys :
             /\ fetching'[k] \in CallRecord(ReadOf(k), {0} \cup EntryOf(k))
             /\ fetching'[k].stage = "answered" => fetching'[k].data \in EntryOf(k)
      BY <1>1, <1>3, <1>4 DEF BoardShape
    <2>3. typedTo' \in [{"assign", "invite"} -> {""} \cup Accounts \cup Strangers]
      BY <1>1, <1>2 DEF BoardShape
    <2> QED BY <1>1, <1>2, <1>7, <1>8, <2>1, <2>2, <2>3 DEF BoardShape, PanelsUsed
  <1>10. PressesSound' /\ OneSettings'
    BY <1>2, <1>6, <1>7, EasedStaySound
  <1>11. EntriesFollow'
    <2>1. \A k \in AfterWriteKeys : EntryFollows(k)'
      BY <1>3, <1>4 DEF EntryFollows
    <2> QED BY <2>1 DEF EntriesFollow
  <1>12. SettingsFollow'
    <2>1. ASSUME NEW j \in DOMAIN presses, Answered(j), presses[j].button = "settings"
          PROVE  Answered(j)' /\ presses'[j].button = "settings"
      <3>1. j # i
        BY <1>2, <2>1
      <3>2. presses'[j] = [presses[j] EXCEPT !.waits = @ \ again] /\ presses[j] \in PressRecord
        BY <1>1, <1>3, <3>1, PressTyped
      <3> QED BY <2>1, <3>2 DEF Answered, PressRecord
    <2>2. BoardAnswer(SettingsKey)' = BoardAnswer(SettingsKey)
      BY <1>2, AnswersStayTrue
    <2> QED BY <1>2, <1>7, <2>1, <2>2 DEF BoardInv, SettingsFollow
  <1> QED BY <1>9, <1>10, <1>11, <1>12 DEF BoardInv

\* what a write leaves of the listing: claim links stay, only the settings'
\* button touches the settings, and the three that re-read nothing change
\* nothing the page shows
LEMMA EffectsSay ==
    ASSUME board \in Board, NEW b \in Buttons, NEW req \in BoardRequests(b),
           NEW after \in Effects(req)
    PROVE  /\ after \in Board /\ board.links \subseteq after.links
           /\ b = "invite" => req.body \in after.links
           /\ b # "settings" => after.settings = board.settings
           /\ b \notin Rereads => /\ after.logo = board.logo /\ after.plans = board.plans
                                  /\ after.shots = board.shots /\ after.cap = board.cap
                                  /\ after.verified = board.verified
                                  /\ after.maintainers = board.maintainers
  <1>1. /\ board.logo \in Nat /\ board.plans \subseteq {"pro"} /\ board.verified \in Nat
        /\ board.maintainers \subseteq Accounts /\ board.links \subseteq Accounts \cup Strangers
        /\ board.settings \in Settings /\ board.shots \in [Pictures -> ShotStatuses]
    BY DEF Board
  <1>2. b \in {"logo", "upload", "review", "assign", "invite", "verify", "badge", "plan",
               "uncap", "settings"}
    BY DEF Buttons
  <1>3. CASE b = "logo"
    <2>1. req.op = "StaffUploadToolLogo"
      BY <1>3 DEF BoardRequests, StaffUploadToolLogo, Request
    <2>2. after = [board EXCEPT !.logo = @ + 1]
      BY <2>1 DEF Effects
    <2> QED BY <1>1, <1>3, <2>2 DEF Board, Rereads
  <1>4. CASE b = "upload"
    <2>1. req.op = "StaffUploadScreenshot"
      BY <1>4 DEF BoardRequests, StaffUploadScreenshot, Request
    <2>2. PICK s \in Pictures : after = [board EXCEPT !.shots[s] = "published"]
      BY <2>1 DEF Effects
    <2>3. [board.shots EXCEPT ![s] = "published"] \in [Pictures -> ShotStatuses]
      BY <1>1 DEF ShotStatuses
    <2> QED BY <1>1, <1>4, <2>2, <2>3 DEF Board, Rereads
  <1>5. CASE b = "review"
    <2>1. PICK s \in Pictures, to \in {"published", "rejected"} :
             req = StaffReviewScreenshot(s, to)
      BY <1>5 DEF BoardRequests
    <2>2. req.op = "StaffReviewScreenshot" /\ req.body = to /\ req.path[1] = s
      BY <2>1 DEF StaffReviewScreenshot, Request
    <2>3. after = [board EXCEPT !.shots[s] = to]
      BY <2>2 DEF Effects
    <2>4. [board.shots EXCEPT ![s] = to] \in [Pictures -> ShotStatuses]
      BY <1>1 DEF ShotStatuses
    <2> QED BY <1>1, <1>5, <2>3, <2>4 DEF Board, Rereads
  <1>6. CASE b = "assign"
    <2>1. req.op = "StaffAssignMaintainer"
      <3>1. PICK to \in Accounts \cup Strangers : req = StaffAssignMaintainer(Listing, to)
        BY <1>6, AddressSends
      <3> QED BY <3>1 DEF StaffAssignMaintainer, Request
    <2>2. PICK a \in Accounts : after = [board EXCEPT !.maintainers = @ \cup {a}]
      BY <2>1 DEF Effects
    <2> QED BY <1>1, <1>6, <2>2 DEF Board, Rereads
  <1>7. CASE b = "invite"
    <2>1. PICK to \in Accounts \cup Strangers : req = StaffCreateClaimInvite(Listing, to)
      BY <1>7, AddressSends
    <2>2. req.op = "StaffCreateClaimInvite" /\ req.body = to
      BY <2>1 DEF StaffCreateClaimInvite, Request
    <2>3. after = [board EXCEPT !.links = @ \cup {to}]
      BY <2>2 DEF Effects
    <2> QED BY <1>1, <1>7, <2>2, <2>3 DEF Board, Rereads
  <1>8. CASE b = "verify"
    <2>1. req.op = "StaffMarkPricesVerified"
      BY <1>8 DEF BoardRequests, StaffMarkPricesVerified, Request
    <2>2. after = [board EXCEPT !.verified = @ + 1]
      BY <2>1 DEF Effects
    <2> QED BY <1>1, <1>8, <2>2 DEF Board, Rereads
  <1>9. CASE b = "badge"
    <2>1. req.op = "StaffSendBadgeSuggestion"
      BY <1>9 DEF BoardRequests, StaffSendBadgeSuggestion, Request
    <2>2. after = board
      BY <2>1 DEF Effects
    <2> QED BY <1>9, <2>2
  <1>10. CASE b = "plan"
    <2>1. req.op = "StaffCreatePlan" /\ req.body = "pro"
      BY <1>10 DEF BoardRequests, StaffCreatePlan, Request
    <2>2. after = [board EXCEPT !.plans = @ \cup {"pro"}]
      BY <2>1 DEF Effects
    <2> QED BY <1>1, <1>10, <2>2 DEF Board, Rereads
  <1>11. CASE b = "uncap"
    <2>1. req.op = "StaffRemovePlanLimit"
      BY <1>11 DEF BoardRequests, StaffRemovePlanLimit, Request
    <2>2. after = [board EXCEPT !.cap = FALSE]
      BY <2>1 DEF Effects
    <2> QED BY <1>1, <1>11, <2>2 DEF Board, Rereads
  <1>12. CASE b = "settings"
    <2>1. PICK f \in SettingNames, v \in 0..1 : req = StaffUpdateCommentSettings(f, v)
      BY <1>12 DEF BoardRequests
    <2>2. req.op = "StaffUpdateCommentSettings" /\ req.body = v /\ req.path[1] = f
      BY <2>1 DEF StaffUpdateCommentSettings, Request
    <2>3. after = [board EXCEPT !.settings[f] = v]
      BY <2>2 DEF Effects
    <2>4. [board.settings EXCEPT ![f] = v] \in Settings
      BY <1>1 DEF Settings, SettingNames
    <2> QED BY <1>1, <1>12, <2>3, <2>4 DEF Board, Rereads
  <1> QED BY <1>2, <1>3, <1>4, <1>5, <1>6, <1>7, <1>8, <1>9, <1>10, <1>11, <1>12

\* a press is served
LEMMA ServedIs ==
    ASSUME BoardShape, NEW i \in DOMAIN presses, NEW c \in PressCall,
           presses' = [presses EXCEPT ![i].call = c]
    PROVE  /\ presses' \in Seq(PressRecord) /\ DOMAIN presses' = DOMAIN presses
           /\ presses'[i].button = presses[i].button
           /\ presses'[i].mounted = presses[i].mounted /\ presses'[i].call = c
           /\ \A j \in DOMAIN presses : j # i => presses'[j] = presses[j]
  <1>1. presses \in Seq(PressRecord)
    BY DEF BoardShape
  <1>2. PICK p \in PressRecord : p = presses[i]
    BY <1>1
  <1> DEFINE q == [p EXCEPT !.call = c]
  <1>3. q \in PressRecord /\ q.call = c /\ q.button = p.button /\ q.mounted = p.mounted
    BY DEF PressRecord
  <1>4. presses' = [presses EXCEPT ![i] = q]
    BY <1>2
  <1> HIDE DEF q
  <1> QED BY <1>1, <1>2, <1>3, <1>4

LEMMA ServedPressKeeps ==
    ASSUME BoardInv, NEW i \in DOMAIN presses, presses[i].call.stage = "sent",
           NEW c \in PressCall, c.stage = "answered", c.req = presses[i].call.req,
           presses' = [presses EXCEPT ![i].call = c],
           UNCHANGED <<toolsVisit, cached, fetching, toRefetch, panels, typedTo, link>>,
           boardMoved' \in BOOLEAN, boardMoved => boardMoved',
           board' \in Board, board.links \subseteq board'.links,
           presses[i].button # "settings" => board'.settings = board.settings,
           presses[i].button \notin Rereads =>
               /\ board'.logo = board.logo /\ board'.plans = board.plans
               /\ board'.shots = board.shots /\ board'.cap = board.cap
               /\ board'.verified = board.verified
               /\ board'.maintainers = board.maintainers,
           c.ok => /\ c.data = board'.settings
                   /\ presses[i].button = "invite" => c.req.body \in board'.links,
           c.ok \/ board' = board \/ boardMoved'
    PROVE  BoardInv'
  <1>1. BoardShape
    BY DEF BoardInv
  <1>2. /\ presses' \in Seq(PressRecord) /\ DOMAIN presses' = DOMAIN presses
        /\ presses'[i].button = presses[i].button
        /\ presses'[i].mounted = presses[i].mounted /\ presses'[i].call = c
        /\ \A j \in DOMAIN presses : j # i => presses'[j] = presses[j]
    BY <1>1, ServedIs
  <1>3. BoardShape'
    BY <1>1, <1>2 DEF BoardShape, PanelsUsed
  <1>4. board'.settings \in Settings
    BY DEF Board
  <1>5. \A j \in DOMAIN presses : SettingsOut(j)' => SettingsOut(j)
    <2>1. presses[i].button = "settings" => SettingsOut(i)
      BY DEF SettingsOut, Pending
    <2> QED BY <1>2, <2>1 DEF SettingsOut
  <1>6. OneSettings'
    BY <1>2, <1>5 DEF BoardInv, OneSettings
  <1>7. ASSUME NEW j \in DOMAIN presses PROVE PressSound(presses[j])'
    <2>1. PressSound(presses[j]) /\ PressSound(presses[i])
      BY DEF BoardInv, PressesSound
    <2>2. CASE j = i
      <3>1. c.req \in BoardRequests(presses[i].button)
        BY <2>1 DEF PressSound
      <3> QED BY <1>2, <1>4, <2>1, <2>2, <3>1 DEF PressSound
    <2>3. CASE j # i
      <3>1. presses'[j] = presses[j]
        BY <1>2, <2>3
      <3>2. presses[j].call.stage = "answered" /\ presses[j].button = "settings" =>
               presses[i].button # "settings"
        <4>1. SettingsOut(i) /\ SettingsOut(j) => i = j
          BY DEF BoardInv, OneSettings
        <4> QED BY <2>3, <4>1 DEF SettingsOut, Pending
      <3> QED BY <2>1, <3>1, <3>2 DEF PressSound
    <2> QED BY <2>2, <2>3
  <1>8. PressesSound'
    BY <1>2, <1>7 DEF PressesSound
  <1>9. ASSUME NEW j \in DOMAIN presses, Answered(j)
        PROVE  Answered(j)' /\ presses'[j].button = presses[j].button
    <2>1. j # i
      BY <1>9 DEF Answered
    <2> QED BY <1>2, <1>9, <2>1 DEF Answered
  <1>10. c.ok => Answered(i)'
    BY <1>2 DEF Answered
  <1>11. EntriesFollow'
    <2>1. CASE c.ok /\ presses[i].button \in Rereads
      BY <1>2, <1>10, <2>1 DEF EntriesFollow, WriteAnsweredOK
    <2>2. CASE ~(c.ok /\ presses[i].button \in Rereads) /\ ~boardMoved'
      <3>1. \A k \in AfterWriteKeys : BoardAnswer(k)' = BoardAnswer(k)
        <4>1. CASE board' = board
          BY <4>1, AnswersStayTrue
        <4>2. CASE presses[i].button \notin Rereads
          BY <4>2 DEF BoardAnswer, AfterWriteKeys
        <4> QED BY <2>2, <4>1, <4>2
      <3>2. \A k \in AfterWriteKeys : EntryFollows(k) => EntryFollows(k)'
        BY <3>1 DEF EntryFollows
      <3>3. WriteAnsweredOK => WriteAnsweredOK'
        BY <1>2, <1>9 DEF WriteAnsweredOK
      <3> QED BY <3>2, <3>3 DEF BoardInv, EntriesFollow
    <2>3. CASE boardMoved'
      BY <2>3 DEF EntriesFollow
    <2> QED BY <2>1, <2>2, <2>3
  <1>12. SettingsFollow'
    <2>1. CASE c.ok /\ presses[i].button = "settings"
      BY <1>2, <1>10, <2>1 DEF SettingsFollow
    <2>2. CASE ~(c.ok /\ presses[i].button = "settings") /\ ~boardMoved'
      <3>1. board'.settings = board.settings
        BY <2>2
      <3>2. BoardAnswer(SettingsKey) = [settings |-> board.settings]
        BY BoardKeysDiffer DEF BoardAnswer, AfterWriteKeys
      <3>3. BoardAnswer(SettingsKey)' = [settings |-> board'.settings]
        BY BoardKeysDiffer DEF BoardAnswer, AfterWriteKeys
      <3> QED BY <1>2, <1>9, <3>1, <3>2, <3>3 DEF BoardInv, SettingsFollow
    <2>3. CASE boardMoved'
      BY <2>3 DEF SettingsFollow
    <2> QED BY <2>1, <2>2, <2>3
  <1> QED BY <1>3, <1>6, <1>8, <1>11, <1>12 DEF BoardInv

LEMMA ServePressKeeps ==
    ASSUME BoardInv, NEW i \in DOMAIN presses, ServePress(i)
    PROVE  BoardInv'
  <1>1. BoardShape /\ board \in Board /\ boardMoved \in BOOLEAN
    BY DEF BoardInv, BoardShape
  <1>2. /\ presses[i].call.stage = "sent"
        /\ UNCHANGED <<toolsVisit, cached, fetching, toRefetch, panels, typedTo, link>>
    BY DEF ServePress
  <1>3. PICK call \in PressCall : call = presses[i].call
    BY <1>1, PressTyped
  <1>4. PICK b \in Buttons : b = presses[i].button /\ call.req \in BoardRequests(b)
    BY <1>1, <1>2, <1>3, PressTyped DEF BoardInv, PressesSound, PressSound
  <1>5. /\ Fails(call) \in PressCall /\ Fails(call).stage = "answered"
        /\ Fails(call).req = call.req /\ ~Fails(call).ok
    BY FailsIsAnswered DEF PressCall, Fails, CallRecord
  <1>6. ASSUME NEW after \in Effects(call.req), NEW arrives \in BOOLEAN, board' = after,
               presses' = [presses EXCEPT ![i].call =
                   IF arrives THEN Succeeds(call, after.settings) ELSE Fails(call)],
               boardMoved' = (boardMoved \/ ~arrives)
        PROVE  BoardInv'
    <2>1. /\ after \in Board /\ board.links \subseteq after.links
          /\ b = "invite" => call.req.body \in after.links
          /\ b # "settings" => after.settings = board.settings
          /\ b \notin Rereads => /\ after.logo = board.logo /\ after.plans = board.plans
                                 /\ after.shots = board.shots /\ after.cap = board.cap
                                 /\ after.verified = board.verified
                                 /\ after.maintainers = board.maintainers
      BY <1>1, <1>4, EffectsSay
    <2>2. after.settings \in Settings
      BY <2>1 DEF Board
    <2>3. /\ Succeeds(call, after.settings) \in PressCall
          /\ Succeeds(call, after.settings).stage = "answered"
          /\ Succeeds(call, after.settings).ok
          /\ Succeeds(call, after.settings).data = after.settings
      BY <2>2, SucceedsIsAnswered DEF PressCall
    <2>4. Succeeds(call, after.settings).req = call.req
      BY DEF Succeeds, PressCall, CallRecord
    <2>5. CASE arrives
      <3>1. presses' = [presses EXCEPT ![i].call = Succeeds(call, after.settings)]
        BY <1>6, <2>5
      <3>2. boardMoved' = boardMoved
        BY <1>1, <1>6, <2>5
      <3>3. PICK c \in PressCall : c = Succeeds(call, after.settings)
        BY <2>3
      <3>4. /\ c.stage = "answered" /\ c.ok /\ c.req = presses[i].call.req
            /\ presses' = [presses EXCEPT ![i].call = c]
            /\ c.data = board'.settings /\ (b = "invite" => c.req.body \in board'.links)
        BY <1>3, <1>6, <2>1, <2>3, <2>4, <3>1, <3>3
      <3> QED BY <1>1, <1>2, <1>4, <1>6, <2>1, <3>2, <3>4, ServedPressKeeps, ZenonT(30)
    <2>6. CASE ~arrives
      <3>1. presses' = [presses EXCEPT ![i].call = Fails(call)] /\ boardMoved'
        BY <1>6, <2>6
      <3> QED BY <1>1, <1>2, <1>3, <1>4, <1>5, <1>6, <2>1, <3>1, ServedPressKeeps
    <2> QED BY <2>5, <2>6
  <1>7. ASSUME presses' = [presses EXCEPT ![i].call = Fails(call)],
               UNCHANGED <<board, boardMoved>>
        PROVE  BoardInv'
    BY <1>1, <1>2, <1>3, <1>5, <1>7, ServedPressKeeps
  <1> QED BY <1>3, <1>6, <1>7 DEF ServePress

\* other staff write
LEMMA OtherStaffActKeeps == ASSUME BoardInv, OtherStaffAct PROVE BoardInv'
  <1>1. BoardShape /\ board \in Board
    BY DEF BoardInv, BoardShape
  <1>2. /\ UNCHANGED <<cached, fetching, toRefetch, panels, typedTo, presses, link, assigned>>
        /\ boardMoved' = TRUE
    BY DEF OtherStaffAct
  <1>3. PICK req \in {StaffReviewScreenshot(s, "rejected") : s \in Pictures}
                     \cup {StaffUpdateCommentSettings("trusted_after", 1)} :
           board' \in Effects(req)
    BY DEF OtherStaffAct
  <1>4. \E b \in {"review", "settings"} : req \in BoardRequests(b)
    BY <1>3 DEF BoardRequests, SettingNames
  <1>5. PICK b \in Buttons : req \in BoardRequests(b)
    BY <1>4 DEF Buttons
  <1>6. board' \in Board /\ board.links \subseteq board'.links
    BY <1>1, <1>3, <1>5, EffectsSay
  <1>7. toolsVisit' \in ToolVisit /\ toolsVisit'.buttons = toolsVisit.buttons
    <2>1. PICK v \in ToolVisit : v = toolsVisit
      BY <1>1 DEF BoardShape
    <2>2. v.others > 0 /\ toolsVisit' = [v EXCEPT !.others = @ - 1]
      BY <2>1 DEF OtherStaffAct
    <2>3. v.others - 1 \in Nat
      BY <2>2 DEF ToolVisit
    <2> QED BY <2>1, <2>2, <2>3 DEF ToolVisit
  <1>8. BoardShape'
    BY <1>1, <1>2, <1>6, <1>7 DEF BoardShape, PanelsUsed
  <1>9. ASSUME NEW i \in DOMAIN presses PROVE PressSound(presses[i])'
    <2>1. PressSound(presses[i])
      BY DEF BoardInv, PressesSound
    <2> QED BY <1>2, <1>6, <2>1 DEF PressSound
  <1>10. PressesSound' /\ OneSettings'
    BY <1>2, <1>9 DEF BoardInv, PressesSound, OneSettings, SettingsOut
  <1> QED BY <1>2, <1>8, <1>10 DEF BoardInv, EntriesFollow, SettingsFollow

LEMMA BoardNextInv == BoardInv /\ [BoardNext]_boardVars => BoardInv'
  <1> SUFFICES ASSUME BoardInv, [BoardNext]_boardVars PROVE BoardInv'
    OBVIOUS
  <1>1. CASE OtherStaffAct
    BY <1>1, OtherStaffActKeeps
  <1>2. ASSUME NEW p \in PanelsUsed, OpenPanel(p) \/ ClosePanel(p) \/ TypeAddress(p)
        PROVE  BoardInv'
    BY <1>2, OpenPanelKeeps, ClosePanelKeeps, TypeAddressKeeps
  <1>3. ASSUME NEW b \in Buttons, Press(b) PROVE BoardInv'
    BY <1>3, PressKeeps
  <1>4. ASSUME NEW i \in DOMAIN presses, PressSteps(i) PROVE BoardInv'
    BY <1>4, ServePressKeeps, PressRefusedKeeps, RereadAnsweredKeeps, OtherAnsweredKeeps,
       PressDoneKeeps DEF PressSteps
  <1>5. ASSUME NEW k \in AfterWriteKeys, ReadSteps(k) PROVE BoardInv'
    BY <1>5, ServeReadKeeps, ReadDoneKeeps DEF ReadSteps
  <1>6. CASE UNCHANGED boardVars
    <2>1. /\ UNCHANGED <<toolsVisit, board, cached, fetching, toRefetch, boardMoved>>
          /\ UNCHANGED <<panels, typedTo, presses, link>>
      BY <1>6 DEF boardVars
    <2>2. /\ typedTo \in [{"assign", "invite"} -> {""} \cup Accounts \cup Strangers]
          /\ presses \in Seq(PressRecord) /\ link \in {""} \cup board.links
      BY DEF BoardInv, BoardShape
    <2>3. \A i \in DOMAIN presses : Eased(presses[i], presses'[i])
      BY <2>1, PressesStill
    <2> QED BY <2>1, <2>2, <2>3, PressStepKeeps
  <1> QED BY <1>1, <1>2, <1>3, <1>4, <1>5, <1>6 DEF BoardNext

LEMMA BoardInvImplies == BoardInv => BoardTypeOK /\ BoardIsCurrent
  <1> SUFFICES ASSUME BoardInv PROVE BoardTypeOK /\ BoardIsCurrent
    OBVIOUS
  <1>1. BoardShape /\ board \in Board
    BY DEF BoardInv, BoardShape
  <1>2. BoardTypeOK
    <2>1. \A i \in DOMAIN presses : presses[i].waits \subseteq AfterWriteKeys
      BY <1>1, PressTyped
    <2>2. board.maintainers \subseteq Accounts /\ board.links \subseteq Accounts \cup Strangers
      BY <1>1 DEF Board
    <2>3. ASSUME NEW k \in AfterWriteKeys PROVE DOMAIN cached[k] = DOMAIN BoardAnswer(k)
      <3>1. cached[k] \in EntryOf(k) /\ BoardAnswer(k) \in EntryOf(k)
        BY <1>1, BoardAnswerTyped DEF BoardShape
      <3>2. k \in {PageKey, RecordKey, ShotsKey}
        BY DEF AfterWriteKeys
      <3> QED BY <3>1, <3>2, BoardKeysDiffer DEF EntryOf
    <2> QED BY <1>1, <2>1, <2>2, <2>3 DEF BoardTypeOK, BoardShape
  <1>3. ASSUME BoardSettled, ~boardMoved,
               NEW k \in OnShow \cup {SettingsKey}
        PROVE  cached[k] = BoardAnswer(k)
    <2>1. \A i \in DOMAIN presses : ~Answered(i)
      BY <1>3 DEF BoardSettled, Answered, Pending
    <2>2. CASE k = SettingsKey
      BY <1>3, <2>1, <2>2 DEF BoardInv, SettingsFollow
    <2>3. CASE k \in OnShow
      <3>1. k \in AfterWriteKeys /\ k \notin toRefetch
        BY <1>1, <2>3, BoardKeysDiffer DEF OnShow, AfterWriteKeys, BoardShape
      <3>2. fetching[k].stage = "idle"
        BY <1>3, <3>1 DEF BoardSettled, Pending
      <3> QED BY <1>3, <2>1, <3>1, <3>2 DEF BoardInv, EntriesFollow, EntryFollows, WriteAnsweredOK
    <2> QED BY <2>2, <2>3
  <1> QED BY <1>2, <1>3 DEF BoardIsCurrent, SettingsKey

----------------------------------------------------------------------------
\* OwnerListing

\* what a revision changes, and what it is about: some fields, each with a value
OwnerChanges == UNION {[fs -> OwnerValues] : fs \in SUBSET OwnerFields}
Revision == [status : {"submitted", "approved"}, changes : OwnerChanges, base : OwnerChanges]
ProposeCall == CallRecord({ProposeToolRevision(Tool, c) : c \in OwnerChanges}, {0})
PictureRequests == {UploadToolScreenshot(Tool)}
                     \cup {WithdrawToolScreenshot(Tool, s) : s \in ShotIds}
ShotCall == [stage : {"idle", "sent", "answered", "relisting", "relisted"},
             req : {NoRequest} \cup PictureRequests, ok : BOOLEAN, data : ShotIds \cup {0}]
ShotListing == [ShotIds -> {"none", "pending", "published", "rejected", "gone"}]
ShotListRead == CallRecord(ReadOf(ListMyScreenshots(Tool)), {0} \cup ShotListing)

EditorShape ==
    /\ tool \in Fieldset /\ myListing \in Fieldset /\ ownerDraft \in Fieldset
    /\ sentForReview \in BOOLEAN /\ propose \in ProposeCall
    /\ propose.stage = "sent" => propose.req # NoRequest
    /\ revisions \in Seq(Revision)
    /\ applying # NotApplying => applying.at \in DOMAIN revisions /\ applying.read \in Fieldset
ShotShape ==
    /\ shots \in ShotListing /\ myShots \in ShotListing
    /\ shotsRead \in ShotListRead
    /\ shotsRead.stage = "answered" => shotsRead.data \in ShotListing
    /\ shotCalls \in [ShotHooks -> ShotCall]
    /\ uploadedShot \in ShotIds \cup {0}
OwnerInv == EditorShape /\ ShotShape

LEMMA OwnerInvImplies == OwnerInv => OwnerTypeOK
  <1> SUFFICES ASSUME OwnerInv PROVE OwnerTypeOK
    OBVIOUS
  <1>1. \A i \in DOMAIN revisions : DOMAIN revisions[i].changes \subseteq OwnerFields
    <2> SUFFICES ASSUME NEW i \in DOMAIN revisions
                 PROVE  DOMAIN revisions[i].changes \subseteq OwnerFields
      OBVIOUS
    <2>1. revisions[i] \in Revision
      BY DEF OwnerInv, EditorShape
    <2>2. revisions[i].changes \in OwnerChanges
      BY <2>1 DEF Revision
    <2> QED BY <2>2 DEF OwnerChanges
  <1> QED BY <1>1 DEF OwnerInv, EditorShape, ShotShape, OwnerTypeOK, ShotListing

LEMMA OwnerInitInv == OwnerInit => OwnerInv
  <1> SUFFICES ASSUME OwnerInit PROVE OwnerInv
    OBVIOUS
  <1>1. tool \in Fieldset
    BY OwnerAssumption DEF OwnerInit, OwnerAssumption, Fieldset
  <1>2. NoCall \in ProposeCall /\ NoCall.stage = "idle" /\ NoCall \in ShotListRead
    BY NoCallIsIdle DEF ProposeCall, ShotListRead
  <1>3. NoCall \in ShotCall
    BY DEF NoCall, ShotCall
  <1>4. EditorShape
    <2>1. revisions = <<>> /\ revisions \in Seq(Revision)
      BY DEF OwnerInit
    <2> QED BY <1>1, <1>2, <2>1 DEF OwnerInit, EditorShape
  <1>5. shots \in ShotListing
    BY DEF OwnerInit, ShotListing
  <1>6. ShotShape
    BY <1>2, <1>3, <1>5 DEF OwnerInit, ShotShape
  <1> QED BY <1>4, <1>6 DEF OwnerInv

LEMMA ChangesAreTyped == OwnerInv => ChangesIn \in OwnerChanges
  <1> SUFFICES ASSUME OwnerInv PROVE ChangesIn \in OwnerChanges
    OBVIOUS
  <1> DEFINE touched == {f \in OwnerFields : ownerDraft[f] # myListing[f]}
  <1>1. touched \in SUBSET OwnerFields /\ ownerDraft \in [OwnerFields -> OwnerValues]
    BY DEF OwnerInv, EditorShape, Fieldset
  <1>2. Restrict(ownerDraft, touched) \in [touched -> OwnerValues]
    <2> HIDE DEF touched
    <2> QED BY <1>1 DEF Restrict
  <1> QED BY <1>1, <1>2 DEF ChangesIn, OwnerChanges

\* the form and the proposal leave the pictures alone, and the other way round
LEMMA EditorAndShotsApart ==
    /\ ShotShape /\ UNCHANGED shotVars => ShotShape'
    /\ EditorShape /\ UNCHANGED editorVars => EditorShape'
  BY DEF ShotShape, EditorShape, shotVars, editorVars

LEMMA FormStepsKeep ==
    ASSUME OwnerInv,
           \/ OpenEditor \/ CancelEdit \/ RereadListings \/ StaffEditsTool
           \/ \E f \in OwnerFields, v \in OwnerValues : TypeField(f, v)
    PROVE  OwnerInv'
  <1>1. EditorShape /\ UNCHANGED <<shotVars, revisions, applying, propose, sentForReview>>
    BY DEF OwnerInv, OpenEditor, CancelEdit, RereadListings, StaffEditsTool, TypeField
  <1>2. tool' \in Fieldset /\ myListing' \in Fieldset /\ ownerDraft' \in Fieldset
    <2>1. tool \in Fieldset /\ myListing \in Fieldset /\ ownerDraft \in Fieldset
      BY <1>1 DEF EditorShape
    <2>2. ASSUME OpenEditor \/ CancelEdit \/ RereadListings
          PROVE  tool' \in Fieldset /\ myListing' \in Fieldset /\ ownerDraft' \in Fieldset
      BY <2>1, <2>2 DEF OpenEditor, CancelEdit, RereadListings
    <2>3. ASSUME NEW f \in OwnerFields, NEW v \in OwnerValues,
                 TypeField(f, v) \/ StaffEditsTool
          PROVE  tool' \in Fieldset /\ myListing' \in Fieldset /\ ownerDraft' \in Fieldset
      BY <2>1, <2>3 DEF TypeField, StaffEditsTool, Fieldset
    <2>4. CASE StaffEditsTool
      BY <2>1, <2>4 DEF StaffEditsTool, Fieldset
    <2> QED BY <2>2, <2>3, <2>4
  <1>3. EditorShape'
    BY <1>1, <1>2 DEF EditorShape
  <1> QED BY <1>1, <1>3, EditorAndShotsApart DEF OwnerInv

LEMMA ProposeKeeps ==
    ASSUME OwnerInv, Propose \/ ProposalSteps PROVE OwnerInv'
  <1>1. EditorShape /\ propose \in ProposeCall
        /\ UNCHANGED <<shotVars, applying, tool, myListing, ownerDraft>>
    BY DEF OwnerInv, EditorShape, Propose, ProposalSteps, ServeProposal, ProposalAnswered
  <1>2. /\ propose' \in ProposeCall /\ (propose'.stage = "sent" => propose'.req # NoRequest)
        /\ revisions' \in Seq(Revision) /\ Len(revisions') >= Len(revisions)
        /\ sentForReview' \in BOOLEAN
    <2>1. CASE Propose
      <3>1. ChangesIn \in OwnerChanges
        BY ChangesAreTyped
      <3>2. PICK req \in {ProposeToolRevision(Tool, c) : c \in OwnerChanges} :
                propose' = Sent(req)
        BY <2>1, <3>1 DEF Propose
      <3>3. Sent(req) \in ProposeCall /\ Sent(req).req = req
        BY <3>2, SentIsSent DEF ProposeCall
      <3>4. req # NoRequest
        BY <3>2 DEF ProposeToolRevision, NoRequest, Request
      <3>5. UNCHANGED <<revisions, sentForReview>>
        BY <2>1 DEF Propose
      <3> QED BY <1>1, <3>2, <3>3, <3>4, <3>5 DEF EditorShape
    <2>2. CASE ServeProposal
      <3>1. /\ Fails(propose) \in ProposeCall /\ Fails(propose).stage = "answered"
            /\ Succeeds(propose, 0) \in ProposeCall /\ Succeeds(propose, 0).stage = "answered"
        BY <1>1, SucceedsIsAnswered, FailsIsAnswered DEF ProposeCall
      <3>2. /\ propose' = Fails(propose) \/ propose' = Succeeds(propose, 0)
            /\ propose.stage = "sent" /\ UNCHANGED sentForReview
        BY <2>2 DEF ServeProposal
      <3>3. revisions' \in Seq(Revision) /\ Len(revisions') >= Len(revisions)
        <4>1. CASE UNCHANGED revisions
          BY <1>1, <4>1 DEF EditorShape
        <4>2. CASE ~UNCHANGED revisions
          <5> DEFINE body == propose.req.body
          <5>1. PICK c \in OwnerChanges : propose.req = ProposeToolRevision(Tool, c)
            <6>1. propose.req \in {NoRequest} \cup {ProposeToolRevision(Tool, c) :
                                                       c \in OwnerChanges}
              BY <1>1 DEF ProposeCall, CallRecord
            <6> QED BY <1>1, <3>2, <6>1 DEF EditorShape
          <5>2. body = c
            BY <5>1 DEF ProposeToolRevision, Request
          <5>3. PICK fs \in SUBSET OwnerFields : c \in [fs -> OwnerValues]
            BY DEF OwnerChanges
          <5>4. Restrict(tool, fs) \in [fs -> OwnerValues]
            BY <1>1 DEF EditorShape, Fieldset, Restrict
          <5>5. Restrict(tool, DOMAIN body) \in OwnerChanges
            BY <5>2, <5>3, <5>4 DEF OwnerChanges
          <5> DEFINE revision == [status |-> "submitted", changes |-> body,
                                  base |-> Restrict(tool, DOMAIN body)]
          <5>6. revision \in Revision
            BY <5>2, <5>5 DEF Revision
          <5>7. revisions' = Append(revisions, revision)
            BY <2>2, <4>2 DEF ServeProposal
          <5> HIDE DEF revision
          <5> QED BY <1>1, <5>6, <5>7 DEF EditorShape
        <4> QED BY <4>1, <4>2
      <3> QED BY <1>1, <3>1, <3>2, <3>3 DEF EditorShape
    <2>3. CASE ProposalAnswered
      <3>1. NoCall \in ProposeCall /\ NoCall.stage = "idle"
        BY NoCallIsIdle DEF ProposeCall
      <3>2. propose.ok \in BOOLEAN
        BY <1>1 DEF ProposeCall, CallRecord
      <3> QED BY <1>1, <2>3, <3>1, <3>2 DEF ProposalAnswered, EditorShape
    <2> QED BY <2>1, <2>2, <2>3 DEF ProposalSteps
  <1>3. EditorShape'
    <2>1. \A i \in DOMAIN revisions : i \in DOMAIN revisions'
      <3>1. DOMAIN revisions = 1..Len(revisions) /\ DOMAIN revisions' = 1..Len(revisions')
            /\ Len(revisions) \in Nat /\ Len(revisions') \in Nat
        BY <1>1, <1>2 DEF EditorShape
      <3> QED BY <1>2, <3>1
    <2> QED BY <1>1, <1>2, <2>1 DEF EditorShape
  <1> QED BY <1>1, <1>3, EditorAndShotsApart DEF OwnerInv

LEMMA RevisionStepsKeep ==
    ASSUME OwnerInv, CheckRevision \/ ApplyRevision PROVE OwnerInv'
  <1>1. EditorShape /\ UNCHANGED <<shotVars, myListing, ownerDraft, propose, sentForReview>>
    BY DEF OwnerInv, CheckRevision, ApplyRevision
  <1>2. CASE CheckRevision
    <2>1. PICK i \in DOMAIN revisions : applying' = [at |-> i, read |-> tool]
      BY <1>2 DEF CheckRevision
    <2>2. UNCHANGED <<tool, revisions>>
      BY <1>2 DEF CheckRevision
    <2>3. applying'.at \in DOMAIN revisions' /\ applying'.read \in Fieldset
      BY <1>1, <2>1, <2>2 DEF EditorShape
    <2>4. EditorShape'
      BY <1>1, <2>2, <2>3 DEF EditorShape
    <2> QED BY <1>1, <2>4, EditorAndShotsApart DEF OwnerInv
  <1>3. CASE ApplyRevision
    <2>1. applying.at \in DOMAIN revisions /\ applying.read \in Fieldset
      BY <1>1, <1>3 DEF EditorShape, ApplyRevision
    <2>2. PICK revision \in Revision : revision = revisions[applying.at]
      BY <1>1, <2>1 DEF EditorShape
    <2>3. PICK fs \in SUBSET OwnerFields : revision.changes \in [fs -> OwnerValues]
      BY <2>2 DEF Revision, OwnerChanges
    <2> DEFINE changes == revision.changes
               merged == [f \in OwnerFields |->
                             IF f \in DOMAIN changes THEN changes[f] ELSE applying.read[f]]
    <2>4. merged \in Fieldset
      <3> HIDE DEF changes
      <3> QED BY <2>1, <2>3 DEF Fieldset, changes
    <2>5. tool' = merged
      BY <1>3, <2>2 DEF ApplyRevision
    <2> DEFINE approved == [revision EXCEPT !.status = "approved"]
    <2>6. approved \in Revision
      BY DEF Revision
    <2>7. revisions' = [revisions EXCEPT ![applying.at] = approved] /\ applying' = NotApplying
      BY <1>3, <2>2 DEF ApplyRevision
    <2> HIDE DEF approved, merged
    <2>8. revisions' \in Seq(Revision)
      BY <1>1, <2>1, <2>6, <2>7 DEF EditorShape
    <2>9. EditorShape'
      BY <1>1, <2>4, <2>5, <2>7, <2>8 DEF EditorShape
    <2> QED BY <1>1, <2>9, EditorAndShotsApart DEF OwnerInv
  <1> QED BY <1>2, <1>3

LEMMA ShotCallsTyped ==
    ASSUME NEW call \in ShotCall, NEW data \in ShotIds \cup {0}
    PROVE  /\ Succeeds(call, data) \in ShotCall /\ Fails(call) \in ShotCall
           /\ NoCall \in ShotCall
           /\ [call EXCEPT !.stage = "relisting"] \in ShotCall
           /\ [call EXCEPT !.stage = "relisted"] \in ShotCall
  BY DEF Succeeds, Fails, NoCall, ShotCall

\* a step of the pictures keeps what is said of them when each part it changes
\* stays of its kind
LEMMA ShotStepKeeps ==
    ASSUME OwnerInv, UNCHANGED editorVars, shots' \in ShotListing, myShots' \in ShotListing,
           shotsRead' = shotsRead \/ shotsRead' = NoCall
             \/ shotsRead' = Fetch(ListMyScreenshots(Tool))
             \/ shotsRead' = Succeeds(shotsRead, shots),
           shotCalls' \in [ShotHooks -> ShotCall], uploadedShot' \in ShotIds \cup {0}
    PROVE  OwnerInv'
  <1>1. /\ shotsRead' \in ShotListRead
        /\ shotsRead'.stage = "answered" => shotsRead'.data \in ShotListing
    <2>1. NoCall \in ShotListRead /\ NoCall.stage = "idle"
      BY NoCallIsIdle DEF ShotListRead
    <2>2. /\ Fetch(ListMyScreenshots(Tool)) \in ShotListRead
          /\ Fetch(ListMyScreenshots(Tool)).stage = "sent"
      <3>1. Request("read", ListMyScreenshots(Tool), "none") \in ReadOf(ListMyScreenshots(Tool))
        BY DEF ReadOf
      <3> QED BY <3>1, SentIsSent DEF ShotListRead, Fetch
    <2>3. shotsRead \in ShotListRead /\ shots \in ShotListing
      BY DEF OwnerInv, ShotShape
    <2>4. /\ Succeeds(shotsRead, shots) \in ShotListRead
          /\ Succeeds(shotsRead, shots).data = shots
      BY <2>3, SucceedsIsAnswered DEF ShotListRead
    <2> QED BY <2>1, <2>2, <2>3, <2>4 DEF OwnerInv, ShotShape
  <1>2. ShotShape'
    BY <1>1 DEF ShotShape
  <1> QED BY <1>2, EditorAndShotsApart DEF OwnerInv

LEMMA ShotMovesKeep ==
    ASSUME OwnerInv,
           \/ ChooseShot \/ UploadShot \/ StaffReviewShot
           \/ \E s \in ShotIds : WithdrawShot(s)
    PROVE  OwnerInv'
  <1>1. /\ UNCHANGED editorVars /\ UNCHANGED <<shotsRead, myShots>>
        /\ uploadedShot' \in {0, uploadedShot}
    BY DEF ChooseShot, UploadShot, StaffReviewShot, WithdrawShot
  <1>2. /\ shots \in ShotListing /\ myShots \in ShotListing
        /\ shotCalls \in [ShotHooks -> ShotCall] /\ uploadedShot \in ShotIds \cup {0}
    BY DEF OwnerInv, ShotShape
  <1>3. shots' \in ShotListing
    <2>1. CASE StaffReviewShot
      BY <1>2, <2>1 DEF StaffReviewShot, ShotListing
    <2> QED BY <1>2, <2>1 DEF ChooseShot, UploadShot, WithdrawShot
  <1>4. ASSUME NEW req \in PictureRequests PROVE Sent(req) \in ShotCall
    BY DEF Sent, NoCall, ShotCall
  <1>5. shotCalls' \in [ShotHooks -> ShotCall]
    <2>1. ASSUME NEW req \in PictureRequests, NEW h \in ShotHooks,
                 shotCalls' = [shotCalls EXCEPT ![h] = Sent(req)]
          PROVE  shotCalls' \in [ShotHooks -> ShotCall]
      BY <1>2, <1>4, <2>1
    <2>2. /\ UploadToolScreenshot(Tool) \in PictureRequests
          /\ \A s \in ShotIds : WithdrawToolScreenshot(Tool, s) \in PictureRequests
          /\ "upload" \in ShotHooks /\ "withdraw" \in ShotHooks
      BY DEF PictureRequests, ShotHooks
    <2>3. CASE ChooseShot \/ StaffReviewShot
      BY <1>2, <2>3 DEF ChooseShot, StaffReviewShot
    <2>4. CASE UploadShot
      BY <2>1, <2>2, <2>4 DEF UploadShot
    <2>5. ASSUME NEW s \in ShotIds, WithdrawShot(s)
          PROVE  shotCalls' \in [ShotHooks -> ShotCall]
      BY <2>1, <2>2, <2>5 DEF WithdrawShot
    <2> QED BY <2>3, <2>4, <2>5
  <1> QED BY <1>1, <1>2, <1>3, <1>5, ShotStepKeeps

LEMMA ServeShotKeeps ==
    ASSUME OwnerInv, ServeShotUpload \/ ServeShotWithdrawal PROVE OwnerInv'
  <1>1. UNCHANGED editorVars /\ UNCHANGED <<shotsRead, myShots, uploadedShot>>
    BY DEF ServeShotUpload, ServeShotWithdrawal
  <1>2. /\ shots \in ShotListing /\ myShots \in ShotListing
        /\ shotCalls \in [ShotHooks -> ShotCall] /\ uploadedShot \in ShotIds \cup {0}
    BY DEF OwnerInv, ShotShape
  <1>3. shots' \in ShotListing
    BY <1>2 DEF ServeShotUpload, ServeShotWithdrawal, ShotListing
  <1>4. "upload" \in ShotHooks /\ "withdraw" \in ShotHooks
    BY DEF ShotHooks
  <1>5. PICK h \in ShotHooks, data \in ShotIds \cup {0} :
            \/ shotCalls' = [shotCalls EXCEPT ![h] = Succeeds(shotCalls[h], data)]
            \/ shotCalls' = [shotCalls EXCEPT ![h] = Fails(shotCalls[h])]
    <2>1. CASE ServeShotUpload
      <3>1. \/ \E s \in ShotIds, arrives \in BOOLEAN :
                  shotCalls' = [shotCalls EXCEPT !["upload"] =
                                   IF arrives THEN Succeeds(shotCalls["upload"], s)
                                   ELSE Fails(shotCalls["upload"])]
            \/ shotCalls' = [shotCalls EXCEPT !["upload"] = Fails(shotCalls["upload"])]
        BY <2>1 DEF ServeShotUpload
      <3> QED BY <1>4, <3>1
    <2>2. CASE ServeShotWithdrawal
      <3>1. \/ \E arrives \in BOOLEAN :
                  shotCalls' = [shotCalls EXCEPT !["withdraw"] =
                                   IF arrives THEN Succeeds(shotCalls["withdraw"], 0)
                                   ELSE Fails(shotCalls["withdraw"])]
            \/ shotCalls' = [shotCalls EXCEPT !["withdraw"] = Fails(shotCalls["withdraw"])]
        BY <2>2 DEF ServeShotWithdrawal
      <3> QED BY <1>4, <3>1
    <2> QED BY <2>1, <2>2
  <1>6. Succeeds(shotCalls[h], data) \in ShotCall /\ Fails(shotCalls[h]) \in ShotCall
    BY <1>2, ShotCallsTyped
  <1>7. shotCalls' \in [ShotHooks -> ShotCall]
    BY <1>2, <1>5, <1>6
  <1> QED BY <1>1, <1>2, <1>3, <1>7, ShotStepKeeps

LEMMA ShotAnsweredKeeps ==
    ASSUME OwnerInv, NEW h \in ShotHooks, ShotAnswered(h) PROVE OwnerInv'
  <1>1. UNCHANGED editorVars /\ UNCHANGED <<shots, myShots, uploadedShot>>
    BY DEF ShotAnswered
  <1>2. /\ shots \in ShotListing /\ myShots \in ShotListing
        /\ shotCalls \in [ShotHooks -> ShotCall] /\ uploadedShot \in ShotIds \cup {0}
    BY DEF OwnerInv, ShotShape
  <1>3. CASE shotCalls[h].ok
    <2>1. /\ shotsRead' = Fetch(ListMyScreenshots(Tool))
          /\ shotCalls' = [g \in ShotHooks |->
                IF g = h THEN [shotCalls[h] EXCEPT !.stage = "relisting"]
                ELSE IF shotCalls[g].stage = "relisting"
                     THEN [shotCalls[g] EXCEPT !.stage = "relisted"] ELSE shotCalls[g]]
      BY <1>3 DEF ShotAnswered, Relist
    <2>2. \A g \in ShotHooks : /\ [shotCalls[g] EXCEPT !.stage = "relisting"] \in ShotCall
                               /\ [shotCalls[g] EXCEPT !.stage = "relisted"] \in ShotCall
      BY <1>2, ShotCallsTyped
    <2>3. shotCalls' \in [ShotHooks -> ShotCall]
      BY <1>2, <2>1, <2>2
    <2> QED BY <1>1, <1>2, <2>1, <2>3, ShotStepKeeps
  <1>4. CASE ~shotCalls[h].ok
    <2>1. shotCalls' = [shotCalls EXCEPT ![h] = NoCall] /\ UNCHANGED shotsRead
      BY <1>4 DEF ShotAnswered
    <2>2. shotCalls' \in [ShotHooks -> ShotCall]
      BY <1>2, <2>1, ShotCallsTyped
    <2> QED BY <1>1, <1>2, <2>1, <2>2, ShotStepKeeps
  <1> QED BY <1>3, <1>4

LEMMA ShotListKeeps == ASSUME OwnerInv, ShotListSteps PROVE OwnerInv'
  <1>1. UNCHANGED editorVars /\ UNCHANGED <<shots, uploadedShot>>
    BY DEF ShotListSteps, ServeShotList, ShotsRelisted
  <1>2. /\ shots \in ShotListing /\ myShots \in ShotListing
        /\ shotsRead.stage = "answered" => shotsRead.data \in ShotListing
        /\ shotCalls \in [ShotHooks -> ShotCall] /\ uploadedShot \in ShotIds \cup {0}
    BY DEF OwnerInv, ShotShape
  <1>3. CASE ServeShotList
    BY <1>1, <1>2, <1>3, ShotStepKeeps DEF ServeShotList
  <1>4. CASE ShotsRelisted
    <2>1. /\ shotsRead' = NoCall /\ myShots' \in ShotListing
          /\ shotCalls' = [g \in ShotHooks |->
                IF shotCalls[g].stage = "relisting"
                THEN [shotCalls[g] EXCEPT !.stage = "relisted"] ELSE shotCalls[g]]
      BY <1>2, <1>4 DEF ShotsRelisted
    <2>2. \A g \in ShotHooks : [shotCalls[g] EXCEPT !.stage = "relisted"] \in ShotCall
      BY <1>2, ShotCallsTyped
    <2>3. shotCalls' \in [ShotHooks -> ShotCall]
      BY <1>2, <2>1, <2>2
    <2> QED BY <1>1, <1>2, <2>1, <2>3, ShotStepKeeps
  <1> QED BY <1>3, <1>4 DEF ShotListSteps

LEMMA ShotSettledKeeps ==
    ASSUME OwnerInv, NEW h \in ShotHooks, ShotSettled(h) PROVE OwnerInv'
  <1>1. /\ UNCHANGED editorVars /\ UNCHANGED <<shots, myShots, shotsRead>>
        /\ shotCalls' = [shotCalls EXCEPT ![h] = NoCall]
        /\ uploadedShot' \in {uploadedShot, shotCalls[h].data}
    BY DEF ShotSettled
  <1>2. /\ shots \in ShotListing /\ myShots \in ShotListing
        /\ shotCalls \in [ShotHooks -> ShotCall] /\ uploadedShot \in ShotIds \cup {0}
    BY DEF OwnerInv, ShotShape
  <1>3. shotCalls[h].data \in ShotIds \cup {0} /\ NoCall \in ShotCall
    BY <1>2, ShotCallsTyped DEF ShotCall
  <1>4. shotCalls' \in [ShotHooks -> ShotCall]
    BY <1>1, <1>2, <1>3
  <1> QED BY <1>1, <1>2, <1>3, <1>4, ShotStepKeeps

LEMMA OwnerNextInv == OwnerInv /\ [OwnerNext]_ownerVars => OwnerInv'
  <1> SUFFICES ASSUME OwnerInv, [OwnerNext]_ownerVars PROVE OwnerInv'
    OBVIOUS
  <1>1. CASE OwnerMoves
    BY <1>1, FormStepsKeep, ProposeKeeps, ShotMovesKeep DEF OwnerMoves
  <1>2. CASE StaffMoves
    BY <1>2, FormStepsKeep, RevisionStepsKeep, ShotMovesKeep DEF StaffMoves
  <1>3. CASE ProposalSteps
    BY <1>3, ProposeKeeps
  <1>4. CASE ShotListSteps
    BY <1>4, ShotListKeeps
  <1>5. ASSUME NEW h \in ShotHooks, ShotSteps(h) PROVE OwnerInv'
    BY <1>5, ServeShotKeeps, ShotAnsweredKeeps, ShotSettledKeeps DEF ShotSteps
  <1>6. CASE UNCHANGED ownerVars
    <2>1. UNCHANGED shotVars /\ UNCHANGED editorVars
      BY <1>6 DEF ownerVars, shotVars, editorVars
    <2> QED BY <2>1, EditorAndShotsApart DEF OwnerInv
  <1> QED BY <1>1, <1>2, <1>3, <1>4, <1>5, <1>6 DEF OwnerNext
=============================================================================
