---------------------------- MODULE Frontend_proofs ----------------------------
(* The results about single pages hold of the whole front end: the page       *)
(* visited takes its own steps, the others stand still, and each starts in    *)
(* one of its own initial states.  No invariant of one page mentions another, *)
(* so each carries over from its module's three facts.                        *)
EXTENDS Frontend, FrontendPages_proofs, ResultUpload_proofs, PageLists_proofs

\* a step of the front end is a step of each page, or none
LEMMA FrontendSteps ==
    [FrontendNext]_frontendVars => /\ [SessionNext]_sessionVars /\ [NewsNext]_newsVars
                                   /\ [CodeNext]_codeVars /\ [ConsentNext]_consentVars
                                   /\ [UploadNext]_uploadVars /\ [StaffNext]_staffVars
                                   /\ [BoardNext]_boardVars /\ [CommentNext]_commentVars
                                   /\ [AccountNext]_accountVars /\ [OwnerNext]_ownerVars
                                   /\ [CalcNext]_calcVars
  <1> SUFFICES ASSUME [FrontendNext]_frontendVars
               PROVE  /\ [SessionNext]_sessionVars /\ [NewsNext]_newsVars
                      /\ [CodeNext]_codeVars /\ [ConsentNext]_consentVars
                      /\ [UploadNext]_uploadVars /\ [StaffNext]_staffVars
                      /\ [BoardNext]_boardVars /\ [CommentNext]_commentVars
                      /\ [AccountNext]_accountVars /\ [OwnerNext]_ownerVars
                      /\ [CalcNext]_calcVars
    OBVIOUS
  <1>1. CASE UNCHANGED frontendVars
    BY <1>1 DEF frontendVars
  <1>2. CASE FrontendNext
    BY <1>2 DEF FrontendNext
  <1> QED BY <1>1, <1>2

LEMMA FrontendStarts ==
    FrontendInit => /\ SessionInit /\ NewsInit /\ CodeInit /\ ConsentInit
                    /\ UploadInit /\ StaffInit /\ BoardInit /\ CommentInit /\ AccountInit
                    /\ OwnerInit /\ CalcInit
  BY DEF FrontendInit

----------------------------------------------------------------------------
\* Every request of a visit reaches the API while its access token is good
\* (resolve-token.ts, token-source.client.ts).
THEOREM VisitsRequestsArrive == FrontendSpec => []NoRequestExpires
  <1>1. SessionInv => NoRequestExpires
    BY DEF SessionInv, TokensInTime, NoRequestExpires
  <1> QED BY <1>1, FrontendStarts, FrontendSteps, SessionInitInv, SessionNextInv, PTL
          DEF FrontendSpec

\* Requests that renew one session at once do not end it.
THEOREM VisitsKeepTheirSession == FrontendSpec => []RefreshRaceKeepsSession
  <1>1. SessionInv => RefreshRaceKeepsSession
    BY DEF SessionInv, Sessions, Excused, RefreshRaceKeepsSession
  <1> QED BY <1>1, FrontendStarts, FrontendSteps, SessionInitInv, SessionNextInv, PTL
          DEF FrontendSpec

\* Nobody is on the mailing list who did not press the button of a link mailed
\* for just these topics (newsletter-link.tsx, services.py).
THEOREM VisitsDoubleOptIn == FrontendSpec => []ConfirmedByItsOwner
  <1>1. NewsInv => ConfirmedByItsOwner
    BY DEF NewsInv
  <1> QED BY <1>1, FrontendStarts, FrontendSteps, NewsInitInv, NewsNextInv, PTL
          DEF FrontendSpec

\* Whoever unsubscribed stays off the list until a confirmation is pressed anew.
THEOREM VisitsUnsubscriptionStands == FrontendSpec => []UnsubscribedStays
  <1>1. NewsInv => UnsubscribedStays
    BY DEF NewsInv, NoReturnUnderWay, UnsubscribedStays
  <1> QED BY <1>1, FrontendStarts, FrontendSteps, NewsInitInv, NewsNextInv, PTL
          DEF FrontendSpec

\* What a page says has happened did: the decision shown on an approval page is
\* the stored one, the address a code form names is the one its code went to.
THEOREM VisitsAreToldWhatHappened == FrontendSpec => []ShownIsSo
  <1>1. FrontendSpec => []DecisionShownWasMade
    BY FrontendStarts, FrontendSteps, ConsentInitHolds, ConsentStepKeeps, ConsentInvImplies, PTL
       DEF FrontendSpec
  <1>2. FrontendSpec => []SentToWasMailed
    BY FrontendStarts, FrontendSteps, CodeInitHolds, CodeStepKeeps, CodeInvImplies, PTL
       DEF FrontendSpec
  <1>3. DecisionShownWasMade /\ SentToWasMailed => ShownIsSo
    BY DEF ShownIsSo
  <1> QED BY <1>1, <1>2, <1>3, PTL

\* A row that reads "Uploaded" is a PDF the server stored, and its case still
\* has an output (submit-results.tsx uploadAll).
THEOREM VisitsUploadWhatTheySay == FrontendSpec => []DoneRowWasStored
  BY FrontendStarts, FrontendSteps, UploadInitInv, UploadNextInv, UploadInvImplies, PTL
     DEF FrontendSpec

\* Screenshots sit on the run made from the file they were taken of.
THEOREM VisitsKeepShotsWithTheirRun == FrontendSpec => []ShotsOnTheirOwnRun
  BY FrontendStarts, FrontendSteps, UploadInitInv, UploadNextInv, UploadInvImplies, PTL
     DEF FrontendSpec

\* A swap of one value of a required facet for another is refused only when others
\* wrote, an answer was lost, two blocks were saved at once or the form was filled
\* from a record being read again (facet-editor.tsx, use-staff-write.ts).
THEOREM VisitsSwapFacets == FrontendSpec => []SwapNotRefused
  BY FrontendStarts, FrontendSteps, StaffInitInv, StaffNextInv, StaffInvImplies, PTL
     DEF FrontendSpec

\* Once its writes have settled, a page that nobody else disturbed shows what the
\* server holds, though its re-reads drop each other.
THEOREM VisitsSeeWhatTheServerHolds == FrontendSpec => []PagesAreCurrent
  <1>1. FrontendSpec => []SettledPageIsCurrent
    BY FrontendStarts, FrontendSteps, StaffInitInv, StaffNextInv, StaffInvImplies, PTL
       DEF FrontendSpec
  <1>2. FrontendSpec => []BoardIsCurrent
    BY FrontendStarts, FrontendSteps, BoardInitInv, BoardNextInv, BoardInvImplies, PTL
       DEF FrontendSpec
  <1>3. FrontendSpec => []ThreadIsCurrent
    BY FrontendStarts, FrontendSteps, ThreadInitInv, ThreadNextInv, ThreadInvImplies, PTL
       DEF FrontendSpec
  <1>4. FrontendSpec => []KeysListIsCurrent
    BY FrontendStarts, FrontendSteps, AccountInitInv, AccountNextInv, AccountInvImplies, PTL
       DEF FrontendSpec
  <1>5. (SettledPageIsCurrent /\ BoardIsCurrent /\ ThreadIsCurrent /\ KeysListIsCurrent)
           => PagesAreCurrent
    BY DEF PagesAreCurrent
  <1> QED BY <1>1, <1>2, <1>3, <1>4, <1>5, PTL

\* The discussion shows every comment of its lists once, though they were read at
\* different moments and a reply may have come without what it replies to
\* (build-tree.ts).
THEOREM VisitsShowEveryComment == FrontendSpec => []TreeHoldsEveryComment
  BY FrontendStarts, FrontendSteps, TreeInitInv, TreeNextInv, TreeInvImplies, PTL
     DEF FrontendSpec

\* The row the calculator badges is the answer, and a tool's row in the hub names
\* no plan the table would not badge (cheapestRows, cheapestCost).
THEOREM VisitsBadgeTheCheapest == FrontendSpec => []CheapestIsRanked
  BY FrontendStarts, FrontendSteps, CalcInitInv, CalcNextInv, CheapestRanked, PTL
     DEF FrontendSpec

\* More work never costs less (documentCost).
THEOREM VisitsPayMoreForMore == FrontendSpec => MoreWorkNeverCostsLess
  <1>1. FrontendSpec => [][CalcNext]_calcVars /\ []CalcInv
    BY FrontendStarts, FrontendSteps, CalcInitInv, CalcNextInv, PTL DEF FrontendSpec
  <1> QED BY <1>1, MoreWorkStep, PTL DEF MoreWorkNeverCostsLess

----------------------------------------------------------------------------
\* what each page's invariant says of the types of its variables
LEMMA EachPageTyped ==
    /\ SessionInv => SessionTypeOK
    /\ NewsInv => NewsTypeOK
    /\ CodeInv => CodeTypeOK
    /\ ConsentInv => ConsentTypeOK
    /\ UploadInv => UploadTypeOK
    /\ StaffInv => StaffTypeOK
    /\ BoardInv => BoardTypeOK
    /\ ThreadInv => CommentTypeOK
    /\ AccountInv => AccountTypeOK
    /\ OwnerInv => OwnerTypeOK
    /\ CalcInv => CalcTypeOK
  <1>1. SessionInv => SessionTypeOK
    BY DEF SessionInv, SessionShape, Reading, SessionRecord, SessionErrors, TokensInTime,
       ReadingInTime, SessionTypeOK
  <1>2. NewsInv => NewsTypeOK
    BY DEF NewsInv, NewsShape, NewsRow, NewsLink, NewsTab, NewsTypeOK
  <1> QED BY <1>1, <1>2, CodeInvImplies, ConsentInvImplies, UploadInvImplies, StaffInvImplies,
             BoardInvImplies, ThreadInvImplies, AccountInvImplies, OwnerInvImplies,
             CalcInvImplies

\* Every variable of every page keeps its type: what the pages cache, draft and
\* send is of what the server holds, whatever the interleaving.
THEOREM FrontendTypeCorrect == FrontendSpec => []FrontendTypeOK
  <1>1. FrontendSpec => [](page \in PageNames)
    <2>1. FrontendInit => page \in PageNames
      BY DEF FrontendInit
    <2>2. page \in PageNames /\ [FrontendNext]_frontendVars => (page \in PageNames)'
      BY DEF FrontendNext, frontendVars, PageNames
    <2> QED BY <2>1, <2>2, PTL DEF FrontendSpec
  <1>2. FrontendSpec => /\ []SessionInv /\ []NewsInv /\ []CodeInv /\ []ConsentInv
    BY FrontendStarts, FrontendSteps, SessionInitInv, SessionNextInv, NewsInitInv, NewsNextInv,
       CodeInitHolds, CodeStepKeeps, ConsentInitHolds, ConsentStepKeeps, PTL DEF FrontendSpec
  <1>3. FrontendSpec => /\ []UploadInv /\ []StaffInv /\ []BoardInv
    BY FrontendStarts, FrontendSteps, UploadInitInv, UploadNextInv, StaffInitInv, StaffNextInv,
       BoardInitInv, BoardNextInv, PTL DEF FrontendSpec
  <1>4. FrontendSpec => /\ []ThreadInv /\ []AccountInv /\ []OwnerInv /\ []CalcInv
    BY FrontendStarts, FrontendSteps, ThreadInitInv, ThreadNextInv, AccountInitInv,
       AccountNextInv, OwnerInitInv, OwnerNextInv, CalcInitInv, CalcNextInv, PTL
       DEF FrontendSpec
  <1>5. (/\ page \in PageNames
         /\ SessionTypeOK /\ NewsTypeOK /\ CodeTypeOK /\ ConsentTypeOK /\ UploadTypeOK
         /\ StaffTypeOK /\ BoardTypeOK /\ CommentTypeOK /\ AccountTypeOK /\ OwnerTypeOK
         /\ CalcTypeOK) => FrontendTypeOK
    BY DEF FrontendTypeOK
  <1> QED BY <1>1, <1>2, <1>3, <1>4, <1>5, EachPageTyped, PTL
=============================================================================
