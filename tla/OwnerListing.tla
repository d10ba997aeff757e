---------------------------- MODULE OwnerListing ----------------------------
(* What an owner does to a listing they maintain (features/catalog:          *)
(* my-listings-panel, listing-editor, screenshot-uploader): propose an edit   *)
(* from a form filled when the card was mounted, upload and withdraw          *)
(* screenshots.  The listings are read again behind the open form; staff edit *)
(* the tool, apply revisions and publish pictures meanwhile                   *)
(* (apps/catalog/api.py, the revision actions of apps/catalog/admin.py).      *)
EXTENDS ApiClient, FiniteSets, Functions

CONSTANTS
    OwnerFields,   \* the fields an owner may propose a change to
    OwnerValues,   \* what they can hold
    ShotIds,       \* ids of screenshots
    MaxHeld,       \* the server's limit of screenshots that are not rejected
    OwnerVisits    \* bound: how often the owner types, sends, uploads and withdraws
                   \* (acts), the listings are read again (reads), staff act (staff)

ASSUME OwnerAssumption ==
    /\ OwnerValues # {} /\ ShotIds \subseteq Nat \ {0} /\ MaxHeld \in Nat
    /\ \A v \in OwnerVisits : {v.edits, v.shots, v.reads, v.staff} \subseteq Nat

VARIABLES
    ownerVisit,   \* what is left of the visit's bounds
    tool,         \* server: the listing's fields
    revisions,    \* server: the proposed revisions, in order
    applying,     \* server: the revision an editor is applying, as it was read
    myListing,    \* the query cache: the listing as last read
    ownerOpen,    \* useState: the form is up
    ownerDraft,   \* useState: what its fields say
    propose,      \* the propose hook; sentForReview once it has succeeded
    sentForReview,
    shots,        \* server: the status of each screenshot
    myShots,      \* the query cache: the screenshots as last listed
    shotsRead,    \* the list being read again: idle, sent, or the answer on its way
    shotCalls,    \* the upload and withdraw hooks
    shotFile,     \* useState: a picture is chosen
    uploadedShot, \* the picture "Uploaded" is about, 0 when it is not shown
    listReadLost  \* history: a re-read of the list failed

ownerVars == <<ownerVisit, tool, revisions, applying, myListing, ownerOpen, ownerDraft,
               propose, sentForReview, shots, myShots, shotsRead, shotCalls, shotFile,
               uploadedShot, listReadLost>>
editorVars == <<tool, revisions, applying, myListing, ownerOpen, ownerDraft, propose,
                sentForReview>>
shotVars == <<shots, myShots, shotsRead, shotCalls, shotFile, uploadedShot, listReadLost>>

Tool == "t"
Fieldset == [OwnerFields -> OwnerValues]
NotApplying == [at |-> 0, read |-> <<>>]
ShotHooks == {"upload", "withdraw"}

OwnerInit ==
    /\ ownerVisit \in OwnerVisits
    /\ tool \in {[f \in OwnerFields |-> v] : v \in {CHOOSE v \in OwnerValues : TRUE}}
    /\ revisions = <<>> /\ applying = NotApplying
    /\ myListing = tool /\ ownerOpen = FALSE /\ ownerDraft = tool
    /\ propose = NoCall /\ sentForReview = FALSE
    /\ shots = [s \in ShotIds |-> "none"] /\ myShots = shots
    /\ shotsRead = NoCall /\ shotCalls = [h \in ShotHooks |-> NoCall]
    /\ shotFile = FALSE /\ uploadedShot = 0 /\ listReadLost = FALSE

Spend(kind) ==
    /\ ownerVisit[kind] > 0
    /\ ownerVisit' = [ownerVisit EXCEPT ![kind] = @ - 1]

----------------------------------------------------------------------------
\* listing-editor.tsx: the draft is set when the card is mounted and by Cancel,
\* not when the form opens; what it sends is compared with the listing as it
\* was read last
ChangesIn == Restrict(ownerDraft, {f \in OwnerFields : ownerDraft[f] # myListing[f]})

OpenEditor ==
    /\ ~ownerOpen /\ ~sentForReview /\ Spend("edits")
    /\ ownerOpen' = TRUE
    /\ UNCHANGED <<tool, revisions, applying, myListing, ownerDraft, propose,
                   sentForReview, shotVars>>

TypeField(f, v) ==
    /\ ownerOpen /\ ~sentForReview /\ v # ownerDraft[f] /\ Spend("edits")
    /\ ownerDraft' = [ownerDraft EXCEPT ![f] = v]
    /\ UNCHANGED <<tool, revisions, applying, myListing, ownerOpen, propose,
                   sentForReview, shotVars>>

CancelEdit ==
    /\ ownerOpen /\ ~sentForReview
    /\ ownerOpen' = FALSE /\ ownerDraft' = myListing
    /\ UNCHANGED <<ownerVisit, tool, revisions, applying, myListing, propose,
                   sentForReview, shotVars>>

Propose ==
    /\ ownerOpen /\ ~sentForReview /\ ~Pending(propose) /\ DOMAIN ChangesIn # {}
    /\ Spend("edits")
    /\ propose' = Sent(ProposeToolRevision(Tool, ChangesIn))
    /\ UNCHANGED <<tool, revisions, applying, myListing, ownerOpen, ownerDraft,
                   sentForReview, shotVars>>

\* the revision remembers the tool as it is now, for the conflict check
ServeProposal ==
    /\ propose.stage = "sent"
    /\ \/ /\ revisions' = Append(revisions,
                [status |-> "submitted", changes |-> propose.req.body,
                 base |-> Restrict(tool, DOMAIN propose.req.body)])
          /\ \E arrives \in BOOLEAN :
                propose' = IF arrives THEN Succeeds(propose, 0) ELSE Fails(propose)
       \/ propose' = Fails(propose) /\ UNCHANGED revisions
    /\ UNCHANGED <<ownerVisit, tool, applying, myListing, ownerOpen, ownerDraft,
                   sentForReview, shotVars>>

ProposalAnswered ==
    /\ propose.stage = "answered"
    /\ propose' = NoCall
    /\ sentForReview' = (sentForReview \/ propose.ok)
    /\ UNCHANGED <<ownerVisit, tool, revisions, applying, myListing, ownerOpen,
                   ownerDraft, shotVars>>

\* the listings read again: on reconnecting, or for another card on the page
RereadListings ==
    /\ myListing # tool /\ Spend("reads")
    /\ myListing' = tool
    /\ UNCHANGED <<tool, revisions, applying, ownerOpen, ownerDraft, propose,
                   sentForReview, shotVars>>

\* staff: an edit of the tool, and a revision read, checked for conflicts and
\* saved over the whole tool (admin.py apply_revisions), or rejected
StaffEditsTool ==
    /\ Spend("staff")
    /\ \E f \in OwnerFields, v \in OwnerValues :
          v # tool[f] /\ tool' = [tool EXCEPT ![f] = v]
    /\ UNCHANGED <<revisions, applying, myListing, ownerOpen, ownerDraft, propose,
                   sentForReview, shotVars>>

Conflicts(r) == {f \in DOMAIN r.changes : r.base[f] # tool[f]}

CheckRevision ==
    /\ applying = NotApplying /\ Spend("staff")
    /\ \E i \in DOMAIN revisions :
          /\ revisions[i].status = "submitted" /\ Conflicts(revisions[i]) = {}
          /\ applying' = [at |-> i, read |-> tool]
    /\ UNCHANGED <<tool, revisions, myListing, ownerOpen, ownerDraft, propose,
                   sentForReview, shotVars>>

ApplyRevision ==
    /\ applying # NotApplying
    /\ LET changes == revisions[applying.at].changes IN
       tool' = [f \in OwnerFields |->
                   IF f \in DOMAIN changes THEN changes[f] ELSE applying.read[f]]
    /\ revisions' = [revisions EXCEPT ![applying.at].status = "approved"]
    /\ applying' = NotApplying
    /\ UNCHANGED <<ownerVisit, myListing, ownerOpen, ownerDraft, propose, sentForReview,
                   shotVars>>

----------------------------------------------------------------------------
\* screenshot-uploader.tsx
ChooseShot ==
    /\ ~shotFile /\ Spend("shots")
    /\ shotFile' = TRUE
    /\ UNCHANGED <<editorVars, shots, myShots, shotsRead, shotCalls, uploadedShot,
                   listReadLost>>

UploadShot ==
    /\ shotFile /\ ~Pending(shotCalls["upload"])
    /\ shotCalls' = [shotCalls EXCEPT !["upload"] = Sent(UploadToolScreenshot(Tool))]
    /\ uploadedShot' = 0
    /\ UNCHANGED <<ownerVisit, editorVars, shots, myShots, shotsRead, shotFile,
                   listReadLost>>

WithdrawShot(s) ==
    /\ myShots[s] \in {"pending", "rejected"} /\ ~Pending(shotCalls["withdraw"])
    /\ Spend("shots")
    /\ shotCalls' = [shotCalls EXCEPT !["withdraw"] = Sent(WithdrawToolScreenshot(Tool, s))]
    /\ UNCHANGED <<editorVars, shots, myShots, shotsRead, shotFile, uploadedShot,
                   listReadLost>>

Held == {s \in ShotIds : shots[s] \in {"pending", "published"}}

ServeShotUpload ==
    LET call == shotCalls["upload"] IN
    /\ call.stage = "sent"
    /\ \/ \E s \in ShotIds :
             /\ Cardinality(Held) < MaxHeld
             /\ shots[s] = "none" /\ \A r \in ShotIds : r < s => shots[r] # "none"
             /\ shots' = [shots EXCEPT ![s] = "pending"]
             /\ \E arrives \in BOOLEAN :
                   shotCalls' = [shotCalls EXCEPT !["upload"] =
                                    IF arrives THEN Succeeds(call, s) ELSE Fails(call)]
       \/ shotCalls' = [shotCalls EXCEPT !["upload"] = Fails(call)] /\ UNCHANGED shots
    /\ UNCHANGED <<ownerVisit, editorVars, myShots, shotsRead, shotFile, uploadedShot,
                   listReadLost>>

ServeShotWithdrawal ==
    LET call == shotCalls["withdraw"]
        s == call.req.path[2] IN
    /\ call.stage = "sent"
    /\ \/ /\ shots[s] \in {"pending", "rejected"}
          /\ shots' = [shots EXCEPT ![s] = "gone"]
          /\ \E arrives \in BOOLEAN :
                shotCalls' = [shotCalls EXCEPT !["withdraw"] =
                                 IF arrives THEN Succeeds(call, 0) ELSE Fails(call)]
       \/ shotCalls' = [shotCalls EXCEPT !["withdraw"] = Fails(call)] /\ UNCHANGED shots
    /\ UNCHANGED <<ownerVisit, editorVars, myShots, shotsRead, shotFile, uploadedShot,
                   listReadLost>>

StaffReviewShot ==
    /\ Spend("staff")
    /\ \E s \in ShotIds, status \in {"published", "rejected"} :
          shots[s] = "pending" /\ shots' = [shots EXCEPT ![s] = status]
    /\ UNCHANGED <<editorVars, myShots, shotsRead, shotCalls, shotFile, uploadedShot,
                   listReadLost>>

\* invalidateQueries: the read under way is dropped for a new one
RelistUnlessReading(read) == IF Pending(read) THEN read ELSE Fetch(ListMyScreenshots(Tool))
Relist(read) == Fetch(ListMyScreenshots(Tool))

\* a success re-reads the list before the hook settles; the other hook, if it
\* was waiting for a re-read that this one drops, settles at once
ShotAnswered(h) ==
    LET call == shotCalls[h] IN
    /\ call.stage = "answered"
    /\ IF call.ok
       THEN /\ shotsRead' = Relist(shotsRead)
            /\ shotCalls' = [g \in ShotHooks |->
                  IF g = h THEN [call EXCEPT !.stage = "relisting"]
                  ELSE IF shotCalls[g].stage = "relisting"
                       THEN [shotCalls[g] EXCEPT !.stage = "relisted"] ELSE shotCalls[g]]
       ELSE shotCalls' = [shotCalls EXCEPT ![h] = NoCall] /\ UNCHANGED shotsRead
    /\ UNCHANGED <<ownerVisit, editorVars, shots, myShots, shotFile, uploadedShot,
                   listReadLost>>

ServeShotList ==
    /\ shotsRead.stage = "sent"
    /\ shotsRead' = Succeeds(shotsRead, shots)
    /\ UNCHANGED <<ownerVisit, editorVars, shots, myShots, shotCalls, shotFile,
                   uploadedShot, listReadLost>>

ShotsRelisted ==
    /\ shotsRead.stage = "answered"
    /\ \/ myShots' = shotsRead.data /\ UNCHANGED listReadLost
       \/ listReadLost' = TRUE /\ UNCHANGED myShots
    /\ shotsRead' = NoCall
    /\ shotCalls' = [g \in ShotHooks |->
          IF shotCalls[g].stage = "relisting"
          THEN [shotCalls[g] EXCEPT !.stage = "relisted"] ELSE shotCalls[g]]
    /\ UNCHANGED <<ownerVisit, editorVars, shots, shotFile, uploadedShot>>

\* the upload form empties, whatever has been chosen in it since
ShotSettled(h) ==
    /\ shotCalls[h].stage = "relisted"
    /\ shotCalls' = [shotCalls EXCEPT ![h] = NoCall]
    /\ IF h = "upload" THEN shotFile' = FALSE /\ uploadedShot' = shotCalls[h].data
                       ELSE UNCHANGED <<shotFile, uploadedShot>>
    /\ UNCHANGED <<ownerVisit, editorVars, shots, myShots, shotsRead, listReadLost>>

ProposalSteps == ServeProposal \/ ProposalAnswered
ShotSteps(h) ==
    \/ h = "upload" /\ ServeShotUpload
    \/ h = "withdraw" /\ ServeShotWithdrawal
    \/ ShotAnswered(h) \/ ShotSettled(h)
ShotListSteps == ServeShotList \/ ShotsRelisted
OwnerMoves ==
    \/ OpenEditor \/ CancelEdit \/ Propose \/ RereadListings
    \/ \E f \in OwnerFields, v \in OwnerValues : TypeField(f, v)
    \/ ChooseShot \/ UploadShot \/ \E s \in ShotIds : WithdrawShot(s)
StaffMoves == StaffEditsTool \/ CheckRevision \/ ApplyRevision \/ StaffReviewShot

OwnerNext ==
    \/ OwnerMoves \/ StaffMoves \/ ProposalSteps \/ ShotListSteps
    \/ \E h \in ShotHooks : ShotSteps(h)
\* requests are answered in the end and their continuations run
OwnerFairness ==
    /\ WF_ownerVars(ProposalSteps) /\ WF_ownerVars(ShotListSteps)
    /\ \A h \in ShotHooks : WF_ownerVars(ShotSteps(h))
OwnerSpec == OwnerInit /\ [][OwnerNext]_ownerVars /\ OwnerFairness

----------------------------------------------------------------------------
OwnerTypeOK ==
    /\ tool \in Fieldset /\ myListing \in Fieldset /\ ownerDraft \in Fieldset
    /\ sentForReview \in BOOLEAN
    /\ \A i \in DOMAIN revisions : DOMAIN revisions[i].changes \subseteq OwnerFields
    /\ \A r \in {shots, myShots} : \A s \in ShotIds :
          r[s] \in {"none", "pending", "published", "rejected", "gone"}
    /\ uploadedShot \in ShotIds \cup {0}

\* A picture the page called uploaded turns up in the owner's list, though a
\* withdrawal may have dropped the re-read it was waiting for: "a pending upload
\* that was invisible here would be uploaded again" (api.py list_my_screenshots).
UploadedShotIsListed ==
    \A s \in ShotIds :
        []<>(uploadedShot = s => myShots[s] # "none" \/ listReadLost)

\* no button is waiting for its answer
OwnerSettled == ~Pending(propose) /\ \A h \in ShotHooks : ~Pending(shotCalls[h])
=============================================================================
