------------------------------ MODULE Frontend ------------------------------
(* The site's front end: its pages, and the session they all read.  A visit   *)
(* is to one page; the page's module says what it does with the API, and the  *)
(* other pages stand still.  What the pages share is the client of ApiClient  *)
(* and the rule that a request out on the network comes to an end, whatever   *)
(* the reader does meanwhile.                                                 *)
EXTENDS ResultUpload, StaffEditing, StaffTools, CommentThread, OwnerListing, MyBenchmarks,
        CodeForms, ConsentPages, Newsletter, DocumentCost, SessionTokens

VARIABLE page

frontendVars == <<page, uploadVars, staffVars, boardVars, commentVars, ownerVars,
                  accountVars, codeVars, consentVars, newsVars, calcVars, sessionVars>>

PageNames == {"upload", "staff", "board", "comments", "owner", "account", "codes",
              "consent", "news", "calculator", "session"}

\* a page that is not visited is pinned to one of its initial states
Pinned(name, state, states) == page # name => state = CHOOSE s \in states : TRUE

FrontendInit ==
    /\ page \in PageNames
    /\ UploadInit /\ SessionInit
    /\ StaffInit /\ Pinned("staff", staffVisit, StaffVisits)
    /\ BoardInit /\ Pinned("board", toolsVisit, ToolVisits)
    /\ CommentInit /\ Pinned("comments", commentVisit, CommentVisits)
                   /\ Pinned("comments", comments, {ThreadOf(t) : t \in Threads})
    /\ OwnerInit /\ Pinned("owner", ownerVisit, OwnerVisits)
    /\ AccountInit /\ Pinned("account", accountVisit, AccountVisits)
    /\ CodeInit /\ Pinned("codes", codeForm, {"signin"})
    /\ ConsentInit /\ Pinned("consent", consentKind, {"cli"})
    /\ NewsInit /\ Pinned("news", newsVisit, NewsVisits)
    /\ CalcInit /\ Pinned("calculator", slugs, {ToolSlugs(url) : url \in Urls})

FrontendNext ==
    /\ UNCHANGED page
    /\ IF page = "upload"     THEN UploadNext  ELSE UNCHANGED uploadVars
    /\ IF page = "staff"      THEN StaffNext   ELSE UNCHANGED staffVars
    /\ IF page = "board"      THEN BoardNext   ELSE UNCHANGED boardVars
    /\ IF page = "comments"   THEN CommentNext ELSE UNCHANGED commentVars
    /\ IF page = "owner"      THEN OwnerNext   ELSE UNCHANGED ownerVars
    /\ IF page = "account"    THEN AccountNext ELSE UNCHANGED accountVars
    /\ IF page = "codes"      THEN CodeNext    ELSE UNCHANGED codeVars
    /\ IF page = "consent"    THEN ConsentNext ELSE UNCHANGED consentVars
    /\ IF page = "news"       THEN NewsNext    ELSE UNCHANGED newsVars
    /\ IF page = "calculator" THEN CalcNext    ELSE UNCHANGED calcVars
    /\ IF page = "session"    THEN SessionNext ELSE UNCHANGED sessionVars

\* what the visited page owes without its reader: the fairness of its own module
FrontendFairness ==
    /\ \A k \in LoopIds : WF_uploadVars(page = "upload" /\ LoopSteps(k))
    /\ WF_uploadVars(page = "upload" /\ OpeningSteps)
    /\ WF_uploadVars(page = "upload" /\ FinalizeSteps)
    /\ \A s \in SaveSlots : WF_staffVars(page = "staff" /\ SaveSteps(s))
    /\ WF_staffVars(page = "staff" /\ RecordSteps)
    /\ WF_boardVars(page = "board" /\ \E i \in DOMAIN presses : PressSteps(i))
    /\ \A k \in AfterWriteKeys : WF_boardVars(page = "board" /\ ReadSteps(k))
    /\ \A w \in WriteSlots : WF_commentVars(page = "comments" /\ WriteSteps(w))
    /\ WF_commentVars(page = "comments" /\ ListSteps)
    /\ \A h \in ShotHooks : WF_ownerVars(page = "owner" /\ ShotSteps(h))
    /\ WF_ownerVars(page = "owner" /\ ProposalSteps)
    /\ WF_ownerVars(page = "owner" /\ ShotListSteps)
    /\ WF_accountVars(page = "account" /\ AccountSteps)
    /\ WF_accountVars(page = "account" /\ ListingSteps)
    /\ SF_accountVars(page = "account" /\ SubsRelisted(TRUE))
    /\ \A s \in Submissions : WF_accountVars(page = "account" /\ ScoringEnds(s))
    /\ WF_codeVars(page = "codes" /\ AskSteps) /\ WF_codeVars(page = "codes" /\ CheckSteps)
    /\ \A t \in ConsentTabs : WF_consentVars(page = "consent" /\ ConsentSteps(t))
    /\ \A t \in NewsTabs : WF_newsVars(page = "news" /\ NewsTabSteps(t))
    /\ WF_newsVars(page = "news" /\ SignupSteps)

FrontendSpec == FrontendInit /\ [][FrontendNext]_frontendVars /\ FrontendFairness

----------------------------------------------------------------------------
FrontendTypeOK ==
    /\ page \in PageNames
    /\ UploadTypeOK /\ StaffTypeOK /\ BoardTypeOK /\ CommentTypeOK /\ OwnerTypeOK
    /\ AccountTypeOK /\ CodeTypeOK /\ ConsentTypeOK /\ NewsTypeOK /\ CalcTypeOK
    /\ SessionTypeOK

\* Once its writes have settled, a page that nobody else disturbed shows what
\* the server holds: every write has re-read all it changed, though another
\* write's re-read dropped the one it was waiting for.
PagesAreCurrent ==
    /\ SettledPageIsCurrent
    /\ BoardIsCurrent
    /\ ThreadIsCurrent
    /\ KeysListIsCurrent

\* What a page says has happened did: the decision it shows is the one stored,
\* the address it names is the one the code went to.
ShownIsSo == DecisionShownWasMade /\ SentToWasMailed

\* No button stays at "Saving...", "Posting..." or "Uploading...": whatever was
\* refused, lost on the way or overtaken, a page's calls come to an end, though
\* its reader goes on pressing.  Of the saves of two blocks, or the buttons of
\* two mailed links, each comes back; the reader may keep one or the other busy.
ComesBack(n) ==
    /\ UploadSettled /\ BoardSettled /\ CommentSettled /\ OwnerSettled /\ AccountSettled
    /\ CodeFormSettled /\ ConsentSettled /\ SignupSettled
    /\ n \in SaveSlots => saves[n] = NoSave
    /\ n \in NewsTabs => LinkSettled(n)
ButtonsComeBack == \A n \in SaveSlots \cup NewsTabs : []<>ComesBack(n)
=============================================================================
