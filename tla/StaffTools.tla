----------------------------- MODULE StaffTools -----------------------------
(* The staff tools around a listing that are not its forms: pictures and logo *)
(* (media-editors.tsx), maintainers and claim links, the price check and the   *)
(* badge mail (staff-panel.tsx), a new plan and a removed cap                  *)
(* (plans-editor.tsx), and the moderation settings (moderation-queue.tsx).     *)
(* Each button has a hook of its own, so several requests are out at once;     *)
(* what they change is read again through three shared cache entries           *)
(* (use-staff-write.ts), and a panel closed meanwhile takes its hook with it   *)
(* but not its request.                                                        *)
EXTENDS ApiClient, FiniteSets

CONSTANTS
    Accounts,    \* addresses with an account
    Strangers,   \* addresses without one
    Pictures,    \* the screenshots a listing can hold
    ToolVisits   \* bound: the buttons a visit uses (buttons), how often it presses one
                 \* (presses) and how many writes other staff make (others)

ASSUME StaffToolsAssumption ==
    /\ ToolVisits \subseteq [buttons : SUBSET STRING, presses : Nat, others : Nat]
    /\ Pictures \subseteq Nat /\ "" \notin Accounts \cup Strangers

VARIABLES
    toolsVisit,  \* which of the visits this is
    board,       \* server: what the tools write
    cached,      \* the query cache, by key
    fetching,    \* the reads in flight, by key
    toRefetch,   \* keys invalidated while nothing on the page shows them
    panels,      \* the editors that are open
    typedTo,     \* useState: the address in the maintainer and the link form
    presses,     \* the requests made, in order
    link,        \* the claim link on show, by its address
    assigned,    \* the address the panel says maintains the listing
    boardMoved   \* history: other staff wrote, or an answer or a re-read was lost

boardVars == <<toolsVisit, board, cached, fetching, toRefetch, panels, typedTo, presses,
               link, assigned, boardMoved>>

StaffUploadToolLogo(slug) == Request("StaffUploadToolLogo", <<slug>>, "image")
StaffUploadScreenshot(slug) == Request("StaffUploadScreenshot", <<slug>>, "image")
StaffReviewScreenshot(shot, status) == Request("StaffReviewScreenshot", <<shot>>, status)
StaffAssignMaintainer(slug, to) == Request("StaffAssignMaintainer", <<slug>>, to)
StaffCreateClaimInvite(slug, to) == Request("StaffCreateClaimInvite", <<slug>>, to)
StaffMarkPricesVerified(slug) == Request("StaffMarkPricesVerified", <<slug>>, "none")
StaffSendBadgeSuggestion(slug) == Request("StaffSendBadgeSuggestion", <<slug>>, "none")
StaffCreatePlan(slug, code) == Request("StaffCreatePlan", <<slug>>, code)
StaffRemovePlanLimit(slug, kind) == Request("StaffRemovePlanLimit", <<slug>>, kind)
StaffUpdateCommentSettings(field, value) ==
    Request("StaffUpdateCommentSettings", <<field>>, value)
StaffGetCommentSettings == Key("StaffGetCommentSettings", <<>>)
StaffFindUsers(query) == KeyWith("StaffFindUsers", <<>>, query)

Listing == "tool"
PageKey == GetTool(Listing)
RecordKey == StaffGetTool(Listing)
ShotsKey == StaffListScreenshots(Listing)
AfterWriteKeys == {PageKey, RecordKey, ShotsKey}

\* the buttons, and the panel each is in when it is in one
Buttons == {"logo", "review", "upload", "assign", "invite", "verify", "badge", "plan", "uncap",
            "settings"}
PanelOf(b) == CASE b = "logo" -> "logo" [] b \in {"review", "upload"} -> "shots"
                [] b \in {"assign", "invite", "plan"} -> b [] OTHER -> "page"

BoardAnswer(key) ==
    CASE key = PageKey   -> [logo |-> board.logo, plans |-> board.plans,
                             shown |-> {s \in Pictures : board.shots[s] = "published"}]
      [] key = RecordKey -> [verified |-> board.verified, maintainers |-> board.maintainers,
                             cap |-> board.cap]
      [] key = ShotsKey  -> [shots |-> board.shots]
      [] OTHER           -> [settings |-> board.settings]

BoardInit ==
    /\ toolsVisit \in ToolVisits
    /\ board = [logo |-> 0, plans |-> {}, cap |-> TRUE, verified |-> 0, maintainers |-> {},
                links |-> {}, settings |-> [auto_approve |-> 0, trusted_after |-> 0],
                shots |-> [s \in Pictures |->
                              IF \A t \in Pictures : s <= t THEN "pending" ELSE "none"]]
    /\ cached = [k \in AfterWriteKeys \cup {StaffGetCommentSettings} |-> BoardAnswer(k)]
    /\ fetching = [k \in AfterWriteKeys |-> NoCall] /\ toRefetch = {}
    /\ panels = {} /\ typedTo = [p \in {"assign", "invite"} |-> ""]
    /\ presses = <<>> /\ link = "" /\ assigned = "" /\ boardMoved = FALSE

----------------------------------------------------------------------------
\* opening and closing an editor; closing (Cancel, Done, OK) drops its hooks,
\* and with them a claim link on show or still on its way
PanelsUsed == {PanelOf(b) : b \in toolsVisit.buttons} \ {"page"}
OpenPanel(p) ==
    /\ p \in PanelsUsed \ panels
    /\ panels' = panels \cup {p}
    /\ assigned' = IF p = "assign" THEN "" ELSE assigned
    /\ IF p = "shots" /\ ShotsKey \in toRefetch
       THEN /\ fetching' = [fetching EXCEPT ![ShotsKey] = Fetch(ShotsKey)]
            /\ toRefetch' = toRefetch \ {ShotsKey}
       ELSE UNCHANGED <<fetching, toRefetch>>
    /\ UNCHANGED <<toolsVisit, board, cached, typedTo, presses, link, boardMoved>>

ClosePanel(p) ==
    /\ p \in panels
    /\ panels' = panels \ {p}
    /\ presses' = [i \in DOMAIN presses |->
          IF PanelOf(presses[i].button) = p THEN [presses[i] EXCEPT !.mounted = FALSE]
                                            ELSE presses[i]]
    /\ link' = IF p = "invite" THEN "" ELSE link
    /\ UNCHANGED <<toolsVisit, board, cached, fetching, toRefetch, typedTo, assigned,
                   boardMoved>>

\* an address, typed or picked from the accounts that match what is typed
Matching(key) == {a \in Accounts : key = StaffFindUsers(key[2])}
TypeAddress(p) ==
    /\ p \in panels \cap DOMAIN typedTo /\ (p = "invite" => link = "")
    /\ \E to \in (Strangers \cup Matching(StaffFindUsers(typedTo[p]))) \ {typedTo[p]} :
          typedTo' = [typedTo EXCEPT ![p] = to]
    /\ UNCHANGED <<toolsVisit, board, cached, fetching, toRefetch, panels, presses, link,
                   assigned, boardMoved>>

\* what a button can send, from what the page shows
Sends(b) ==
    LET shown == cached[ShotsKey].shots
        settings == cached[StaffGetCommentSettings].settings IN
    CASE b = "logo"   -> {StaffUploadToolLogo(Listing)}
      [] b = "upload" -> {StaffUploadScreenshot(Listing)}
      [] b = "review" -> {StaffReviewScreenshot(s, to) :
                             s \in {t \in Pictures : shown[t] # "none"},
                             to \in {"published", "rejected"}}
                         \ {StaffReviewScreenshot(s, shown[s]) : s \in Pictures}
      [] b = "assign" -> {StaffAssignMaintainer(Listing, to) : to \in {typedTo[b]} \ {""}}
      [] b = "invite" -> {StaffCreateClaimInvite(Listing, to) :
                             to \in IF link = "" THEN {typedTo[b]} \ {""} ELSE {}}
      [] b = "verify" -> {StaffMarkPricesVerified(Listing)}
      [] b = "badge"  -> {StaffSendBadgeSuggestion(s) :
                             s \in IF cached[RecordKey].maintainers = {} THEN {} ELSE {Listing}}
      [] b = "plan"   -> {StaffCreatePlan(Listing, "pro")}
      [] b = "uncap"  -> {StaffRemovePlanLimit(k, "seats") :
                             k \in IF cached[RecordKey].cap THEN {Listing} ELSE {}}
      [] OTHER        -> {StaffUpdateCommentSettings(f, 1 - settings[f]) : f \in DOMAIN settings}

ButtonBusy(b) ==
    \E i \in DOMAIN presses :
        presses[i].button = b /\ presses[i].mounted /\ Pending(presses[i].call)

Press(b) ==
    /\ b \in toolsVisit.buttons /\ PanelOf(b) \in panels \cup {"page"} /\ ~ButtonBusy(b)
    /\ Len(presses) < toolsVisit.presses
    /\ \E req \in Sends(b) :
          presses' = Append(presses, [button |-> b, call |-> Sent(req), mounted |-> TRUE,
                                      waits |-> {}])
    /\ UNCHANGED <<toolsVisit, board, cached, fetching, toRefetch, panels, typedTo, link,
                   assigned, boardMoved>>

----------------------------------------------------------------------------
\* the server's writes (catalog/staff.py, comments/staff.py); none when refused
Effects(req) ==
    LET free == {s \in Pictures : board.shots[s] = "none"} IN
    CASE req.op = "StaffUploadToolLogo" -> {[board EXCEPT !.logo = @ + 1]}
      [] req.op = "StaffUploadScreenshot" ->
            {[board EXCEPT !.shots[s] = "published"] : s \in {t \in free : \A u \in free : t <= u}}
      [] req.op = "StaffReviewScreenshot" ->
            {[board EXCEPT !.shots[s] = req.body] : s \in {req.path[1]} \ free}
      [] req.op = "StaffAssignMaintainer" ->
            {[board EXCEPT !.maintainers = @ \cup {a}] : a \in {req.body} \cap Accounts}
      [] req.op = "StaffCreateClaimInvite" -> {[board EXCEPT !.links = @ \cup {req.body}]}
      [] req.op = "StaffMarkPricesVerified" -> {[board EXCEPT !.verified = @ + 1]}
      [] req.op = "StaffSendBadgeSuggestion" -> {b \in {board} : b.maintainers # {}}
      [] req.op = "StaffCreatePlan" ->
            {[board EXCEPT !.plans = @ \cup {p}] : p \in {req.body} \ board.plans}
      [] req.op = "StaffRemovePlanLimit" ->
            {[b EXCEPT !.cap = FALSE] : b \in {c \in {board} : c.cap}}
      [] req.op = "StaffUpdateCommentSettings" ->
            {[board EXCEPT !.settings[req.path[1]] = req.body]}

ServePress(i) ==
    LET call == presses[i].call IN
    /\ call.stage = "sent"
    /\ \/ \E after \in Effects(call.req), arrives \in BOOLEAN :
             /\ board' = after
             /\ presses' = [presses EXCEPT ![i].call =
                   IF arrives THEN Succeeds(call, after.settings) ELSE Fails(call)]
             /\ boardMoved' = (boardMoved \/ ~arrives)
       \/ presses' = [presses EXCEPT ![i].call = Fails(call)] /\ UNCHANGED <<board,
                                                                             boardMoved>>
    /\ UNCHANGED <<toolsVisit, cached, fetching, toRefetch, panels, typedTo, link,
                   assigned>>

\* afterWrite invalidates the three keys: a key on show is read again at once,
\* dropping the read under way, and whoever waited for that one goes on; a key
\* that nothing shows is read when its panel opens
OnShow == {PageKey, RecordKey} \cup (IF "shots" \in panels THEN {ShotsKey} ELSE {})
Invalidated == {k \in AfterWriteKeys : \E w \in AfterWriteKeys : Invalidates(w, k)}
AfterBoardWrite(i) ==
    /\ fetching' = [k \in AfterWriteKeys |->
                       IF k \in Invalidated \cap OnShow THEN Fetch(k) ELSE fetching[k]]
    /\ toRefetch' = toRefetch \cup (Invalidated \ OnShow)
    /\ presses' = [j \in DOMAIN presses |->
          IF j = i THEN [presses[j] EXCEPT !.call.stage = "rereading",
                                           !.waits = Invalidated \cap OnShow]
                   ELSE [presses[j] EXCEPT !.waits = @ \ (Invalidated \cap OnShow)]]

Finish(i) == presses' = [presses EXCEPT ![i].call = NoCall]

PressRefused(i) ==
    /\ presses[i].call.stage = "answered" /\ ~presses[i].call.ok
    /\ Finish(i)
    /\ UNCHANGED <<toolsVisit, board, cached, fetching, toRefetch, panels, typedTo, link,
                   assigned, boardMoved>>

\* the hooks that re-read; the maintainer form names the address in its field
\* by then, and closes
RereadAnswered(i) ==
    /\ presses[i].call.stage = "answered" /\ presses[i].call.ok
    /\ presses[i].button \notin {"invite", "badge", "settings"}
    /\ AfterBoardWrite(i)
    /\ IF presses[i].button = "assign"
       THEN /\ assigned' = typedTo["assign"] /\ typedTo' = [typedTo EXCEPT !["assign"] = ""]
            /\ panels' = panels \ {"assign"}
       ELSE UNCHANGED <<assigned, typedTo, panels>>
    /\ UNCHANGED <<toolsVisit, board, cached, link, boardMoved>>

\* the others: the link is shown unless its form is gone, the saved settings
\* are put in the cache as answered
OtherAnswered(i) ==
    LET press == presses[i] IN
    /\ press.call.stage = "answered" /\ press.call.ok
    /\ press.button \in {"invite", "badge", "settings"}
    /\ Finish(i)
    /\ link' = IF press.button = "invite" /\ press.mounted THEN press.call.req.body ELSE link
    /\ cached' = IF press.button = "settings"
                 THEN [cached EXCEPT ![StaffGetCommentSettings] = [settings |-> press.call.data]]
                 ELSE cached
    /\ UNCHANGED <<toolsVisit, board, fetching, toRefetch, panels, typedTo, assigned,
                   boardMoved>>

\* the write is over once the reads it waited for are; the logo's editor closes,
\* opened again meanwhile or not
PressDone(i) ==
    /\ presses[i].call.stage = "rereading" /\ presses[i].waits = {}
    /\ Finish(i)
    /\ panels' = IF presses[i].button = "logo" THEN panels \ {"logo"} ELSE panels
    /\ UNCHANGED <<toolsVisit, board, cached, fetching, toRefetch, typedTo, link,
                   assigned, boardMoved>>

\* a read takes its snapshot; it arrives, or fails and the cache keeps what it had
ServeRead(k) ==
    /\ fetching[k].stage = "sent"
    /\ fetching' = [fetching EXCEPT ![k] = Succeeds(@, BoardAnswer(k))]
    /\ UNCHANGED <<toolsVisit, board, cached, toRefetch, panels, typedTo, presses, link,
                   assigned, boardMoved>>

ReadDone(k) ==
    /\ fetching[k].stage = "answered"
    /\ fetching' = [fetching EXCEPT ![k] = NoCall]
    /\ \/ cached' = [cached EXCEPT ![k] = fetching[k].data] /\ UNCHANGED boardMoved
       \/ boardMoved' = TRUE /\ UNCHANGED cached
    /\ presses' = [j \in DOMAIN presses |-> [presses[j] EXCEPT !.waits = @ \ {k}]]
    /\ UNCHANGED <<toolsVisit, board, toRefetch, panels, typedTo, link, assigned>>

\* other staff, in another tab: a picture reviewed, the settings changed
OtherStaffAct ==
    /\ toolsVisit.others > 0
    /\ toolsVisit' = [toolsVisit EXCEPT !.others = @ - 1]
    /\ \E req \in {StaffReviewScreenshot(s, "rejected") : s \in Pictures}
                   \cup {StaffUpdateCommentSettings("trusted_after", 1)} :
          board' \in Effects(req)
    /\ boardMoved' = TRUE
    /\ UNCHANGED <<cached, fetching, toRefetch, panels, typedTo, presses, link, assigned>>

PressSteps(i) == ServePress(i) \/ PressRefused(i) \/ RereadAnswered(i) \/ OtherAnswered(i)
                 \/ PressDone(i)
ReadSteps(k) == ServeRead(k) \/ ReadDone(k)
BoardNext ==
    \/ OtherStaffAct
    \/ \E p \in PanelsUsed : OpenPanel(p) \/ ClosePanel(p) \/ TypeAddress(p)
    \/ \E b \in Buttons : Press(b)
    \/ \E i \in DOMAIN presses : PressSteps(i)
    \/ \E k \in AfterWriteKeys : ReadSteps(k)
BoardFairness ==
    /\ WF_boardVars(\E i \in DOMAIN presses : PressSteps(i))
    /\ \A k \in AfterWriteKeys : WF_boardVars(ReadSteps(k))
BoardSpec == BoardInit /\ [][BoardNext]_boardVars /\ BoardFairness

----------------------------------------------------------------------------
BoardTypeOK ==
    /\ board.maintainers \subseteq Accounts /\ board.links \subseteq Accounts \cup Strangers
    /\ panels \subseteq PanelsUsed /\ toRefetch \subseteq {ShotsKey}
    /\ \A k \in AfterWriteKeys : DOMAIN cached[k] = DOMAIN BoardAnswer(k)
    /\ \A i \in DOMAIN presses : presses[i].waits \subseteq AfterWriteKeys
    /\ link \in {""} \cup board.links

BoardSettled ==
    /\ \A i \in DOMAIN presses : ~Pending(presses[i].call)
    /\ \A k \in AfterWriteKeys : ~Pending(fetching[k])

\* Once the buttons have settled what the panel shows is what the server holds:
\* pictures, record, page and settings, through writes that drop each other's
\* re-reads and a picture list that was closed while it went stale
\* (use-staff-write.ts) - unless others wrote or an answer was lost.
BoardIsCurrent ==
    BoardSettled /\ ~boardMoved =>
        \A k \in OnShow \cup {StaffGetCommentSettings} : cached[k] = BoardAnswer(k)
=============================================================================
