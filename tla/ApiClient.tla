----------------------------- MODULE ApiClient -----------------------------
(* What the pages of the site say to the API: the generated client of        *)
(* lib/api/generated, one operator per operation a modelled page uses.  A    *)
(* read is named by its query key - the URL, then the parameters when the    *)
(* operation has any - because keys are what the cache shares and what a     *)
(* mutation invalidates.  A write is a request: the operation (standing for  *)
(* its method and URL), the path parameters and the body.                    *)
EXTENDS Naturals, Sequences, SequencesExt

Key(op, path) == <<<<op>> \o path>>
KeyWith(op, path, params) == Key(op, path) \o <<params>>
Request(op, path, body) == [op |-> op, path |-> path, body |-> body]

\* invalidateQueries: every cached key that the given key is a prefix of
Invalidates(given, key) == IsPrefix(given, key)

\* One call of a mutation hook: on its way, then answered; the hook is pending
\* until the answer has been handed to the page.
NoRequest == Request("none", <<>>, "none")
NoCall == [stage |-> "idle", req |-> NoRequest, ok |-> FALSE, data |-> 0]
Sent(req) == [NoCall EXCEPT !.stage = "sent", !.req = req]
\* a read under way looks the same, named by its key
Fetch(key) == Sent(Request("read", key, "none"))
Pending(call) == call.stage # "idle"
Succeeds(call, data) == [call EXCEPT !.stage = "answered", !.ok = TRUE, !.data = data]
Fails(call) == [call EXCEPT !.stage = "answered", !.ok = FALSE]

----------------------------------------------------------------------------
\* benchmarks
ListMyBenchmarkSubmissions == Key("ListMyBenchmarkSubmissions", <<>>)
CreateBenchmarkSubmission(suite, tool) ==
    Request("CreateBenchmarkSubmission", <<suite>>, tool)
UploadBenchmarkOutput(submission, case, file) ==
    Request("UploadBenchmarkOutput", <<submission>>, <<case, file>>)
AddBenchmarkRunScreenshots(run, shots) ==
    Request("AddBenchmarkRunScreenshots", <<run>>, shots)
FinalizeBenchmarkSubmission(submission) ==
    Request("FinalizeBenchmarkSubmission", <<submission>>, "none")
WithdrawBenchmarkSubmission(submission) ==
    Request("WithdrawBenchmarkSubmission", <<submission>>, "none")

\* catalog, and its staff operations
GetTool(slug) == Key("GetTool", <<slug>>)
StaffGetTool(slug) == Key("StaffGetTool", <<slug>>)
StaffListScreenshots(slug) == Key("StaffListScreenshots", <<slug>>)
StaffUpdateTool(slug, field, value) ==
    Request("StaffUpdateTool", <<slug, field>>, value)
StaffAddToolFacet(slug, value) == Request("StaffAddToolFacet", <<slug, value>>, "none")
StaffRemoveToolFacet(slug, value) ==
    Request("StaffRemoveToolFacet", <<slug, value>>, "none")
StaffUpdatePlan(slug, changes) == Request("StaffUpdatePlan", <<slug>>, changes)
StaffSetPlanPrice(slug, price) == Request("StaffSetPlanPrice", <<slug>>, price)
StaffSetPlanLimit(slug, cap) == Request("StaffSetPlanLimit", <<slug>>, cap)

\* comments, and their moderation
ListToolComments(slug) == Key("ListToolComments", <<slug>>)
ListMyPendingComments(target) == KeyWith("ListMyPendingComments", <<>>, target)
StaffListComments(target, status) ==
    KeyWith("StaffListComments", <<>>, <<target, status>>)
CreateComment(target, parent) == Request("CreateComment", <<target, parent>>, "none")
UpdateComment(comment, body) == Request("UpdateComment", <<comment>>, body)
DeleteComment(comment) == Request("DeleteComment", <<comment>>, "none")
StaffReviewComment(comment, status) ==
    Request("StaffReviewComment", <<comment>>, status)

\* the owner's side of the catalog
ProposeToolRevision(slug, changes) == Request("ProposeToolRevision", <<slug>>, changes)
ListMyScreenshots(slug) == Key("ListMyScreenshots", <<slug>>)
UploadToolScreenshot(slug) == Request("UploadToolScreenshot", <<slug>>, "image")
WithdrawToolScreenshot(slug, shot) ==
    Request("WithdrawToolScreenshot", <<slug, shot>>, "none")

\* accounts
ListMyApiKeys == Key("ListMyApiKeys", <<>>)
CreateApiKey(label) == Request("CreateApiKey", <<>>, label)
RevokeApiKey(prefix) == Request("RevokeApiKey", <<prefix>>, "none")

\* newsletter
SubscribeNewsletter(topics) == Request("SubscribeNewsletter", <<>>, topics)
ConfirmNewsletter(link) == Request("ConfirmNewsletter", <<>>, link)
UnsubscribeNewsletter(link) == Request("UnsubscribeNewsletter", <<>>, link)

\* requests the reader answers for others
GetCliLogin(code) == Key("GetCliLogin", <<code>>)
ApproveCliLogin(code) == Request("ApproveCliLogin", <<code>>, "none")
DenyCliLogin(code) == Request("DenyCliLogin", <<code>>, "none")
GetMcpAuthorization(params) == KeyWith("GetMcpAuthorization", <<>>, params)
DecideMcpAuthorization(decision) == Request("DecideMcpAuthorization", <<>>, decision)
GetClaimInvite(token) == Key("GetClaimInvite", <<token>>)
RedeemToolClaimInvite(token) == Request("RedeemToolClaimInvite", <<token>>, "none")
=============================================================================
