---------------------------- MODULE StaffEditing ----------------------------
(* Editing a tool page in place (features/catalog/staff): each block opens   *)
(* its own form, prefilled from the staff record in the query cache; a save  *)
(* is one request, or for facets a list of them sent one after the other;    *)
(* then the record is read again and the form closes.  Forms of one plan     *)
(* share a single slot.  Nothing locks the listing between the read and the  *)
(* save: other staff write meanwhile, saves of other blocks re-read the      *)
(* record under an open form, and a cancelled form's save goes on.           *)
EXTENDS ApiClient, FiniteSets, Functions

CONSTANTS
    Fields,       \* the fields edited one by one (text, lines, number, FAQ...)
    Values,       \* what a field, a price or a cap can hold
    Facets,       \* the taxonomy's values
    Required,     \* those of a dimension a published page needs a value of
    DetailFields, \* the fields of the plan's details form
    Slug,         \* the tool
    StaffVisits,  \* bound: the blocks one visit opens, how many forms it opens
                  \* (opens), and how many edits other staff make meanwhile (others)
    MaxSaves      \* bound: saves in flight at once

ASSUME StaffAssumption ==
    /\ Required \subseteq Facets /\ Required # {} /\ IsFiniteSet(Facets) /\ Values # {}
    /\ Fields \cap {"facets", "details", "price", "cap"} = {}
    /\ \A v \in StaffVisits : v.opens \in Nat /\ v.others \in Nat
    /\ MaxSaves \in Nat \ {0}

VARIABLES
    staffVisit,   \* which of the visits this is
    listing,      \* server: the tool, its facets and its plan
    staffRecord,  \* the query cache: the record the forms prefill from
    rereading,    \* the re-read in flight: idle, sent, or the answer it brings
    form,         \* the open form of each block, and what was typed in it
    opens,        \* forms opened so far, numbering them
    saves,        \* the saves in flight
    otherEdits,   \* edits by other staff so far
    otherRemoval, \* the facet, if any, whose removal by other staff was let through
    swapRefused,  \* history: a facet swap was refused by the server's rule
    disturbed     \* history: other staff wrote, an answer was lost, a block was
                  \* opened again over its own save (overlap), or saved by a
                  \* record that was out of date and being read again (stale)

staffVars == <<staffVisit, listing, staffRecord, rereading, form, opens, saves,
               otherEdits, otherRemoval, swapRefused, disturbed>>
othersVars == <<otherEdits, otherRemoval>>

PlanForms == {"details", "price", "cap"}
Blocks == Fields \cup {"facets"} \cup PlanForms
SaveSlots == 1..MaxSaves

StaffListing == [fields : [Fields -> Values], facets : SUBSET Facets,
            details : [DetailFields -> Values], price : Values, cap : Values]

\* prefilling: what a block's form shows of the record
DraftOf(r, b) ==
    CASE b \in Fields  -> r.fields[b]
      [] b = "facets"  -> r.facets
      [] b = "details" -> r.details
      [] b = "price"   -> r.price
      [] b = "cap"     -> r.cap

DraftValues(b) == CASE b \in Fields  -> Values
               [] b = "facets"  -> SUBSET Facets
               [] b = "details" -> [DetailFields -> Values]
               [] OTHER         -> Values

ClosedForm == [id |-> 0, draft |-> 0, error |-> FALSE]
NoSave == [block |-> "none", id |-> 0, wants |-> 0, todo |-> <<>>, call |-> NoCall,
           stage |-> "idle", ok |-> FALSE]
NoRead == [stage |-> "idle", data |-> 0]

StaffInit ==
    /\ staffVisit \in StaffVisits
    /\ listing \in {l \in StaffListing :
          /\ \A f \in Fields : l.fields[f] = CHOOSE v \in Values : TRUE
          /\ \A f \in DetailFields : l.details[f] = CHOOSE v \in Values : TRUE
          /\ l.price = CHOOSE v \in Values : TRUE
          /\ l.cap = l.price
          /\ l.facets = {CHOOSE v \in Required : TRUE}}
    /\ staffRecord = listing
    /\ rereading = NoRead
    /\ form = [b \in Blocks |-> ClosedForm] /\ opens = 0
    /\ saves = [s \in SaveSlots |-> NoSave]
    /\ otherEdits = 0 /\ otherRemoval = {} /\ swapRefused = FALSE /\ disturbed = {}

----------------------------------------------------------------------------
\* what SaveForm sends, from the form as it stands and the record as it is now:
\* nothing (the button is disabled) when the form says what the record says

FieldChange(b, draft) ==
    IF draft = staffRecord.fields[b] THEN <<>> ELSE <<StaffUpdateTool(Slug, b, draft)>>

FacetChangesRemovingFirst(ticked) ==
    LET adds == SetToSeq(ticked \ staffRecord.facets)
        removals == SetToSeq(staffRecord.facets \ ticked) IN
    [i \in DOMAIN removals |-> StaffRemoveToolFacet(Slug, removals[i])]
        \o [i \in DOMAIN adds |-> StaffAddToolFacet(Slug, adds[i])]

\* adds before removals: the server refuses to take the last value off a
\* required dimension, and a swap has to pass through holding both
FacetChanges(ticked) ==
    LET adds == SetToSeq(ticked \ staffRecord.facets)
        removals == SetToSeq(staffRecord.facets \ ticked) IN
    [i \in DOMAIN adds |-> StaffAddToolFacet(Slug, adds[i])]
        \o [i \in DOMAIN removals |-> StaffRemoveToolFacet(Slug, removals[i])]

\* only the fields that differ, against the record and not against what the
\* form was opened on
DetailChanges(draft) ==
    LET touched == {f \in DetailFields : draft[f] # staffRecord.details[f]} IN
    IF touched = {} THEN <<>> ELSE <<StaffUpdatePlan(Slug, Restrict(draft, touched))>>

ChangesOf(b, draft) ==
    CASE b \in Fields  -> FieldChange(b, draft)
      [] b = "facets"  -> FacetChanges(draft)
      [] b = "details" -> DetailChanges(draft)
      [] b = "price"   -> <<StaffSetPlanPrice(Slug, draft)>>
      [] b = "cap"     -> <<StaffSetPlanLimit(Slug, draft)>>

IsOpen(b) == form[b] # ClosedForm
SavePending(b) == \E s \in SaveSlots : saves[s].block = b /\ saves[s].id = form[b].id

----------------------------------------------------------------------------
\* the reader opens, types, cancels; a plan form takes the place of the one
\* that was open
OpenForm(b) ==
    /\ b \in staffVisit.blocks /\ ~IsOpen(b) /\ opens < staffVisit.opens
    /\ opens' = opens + 1
    /\ form' = [c \in Blocks |->
          IF c = b THEN [id |-> opens + 1, draft |-> DraftOf(staffRecord, b), error |-> FALSE]
          ELSE IF {b, c} \subseteq PlanForms THEN ClosedForm ELSE form[c]]
    /\ disturbed' = disturbed \cup
          {k \in {"overlap"} : \E s \in SaveSlots : saves[s].block = b}
    /\ UNCHANGED <<staffVisit, listing, staffRecord, rereading, saves, othersVars,
                   swapRefused>>

TypeInForm(b) ==
    /\ IsOpen(b)
    /\ \E d \in DraftValues(b) \ {form[b].draft} : form' = [form EXCEPT ![b].draft = d]
    /\ UNCHANGED <<staffVisit, listing, staffRecord, rereading, opens, saves, othersVars,
                   swapRefused, disturbed>>

CancelForm(b) ==
    /\ IsOpen(b)
    /\ form' = [form EXCEPT ![b] = ClosedForm]
    /\ UNCHANGED <<staffVisit, listing, staffRecord, rereading, opens, saves, othersVars,
                   swapRefused, disturbed>>

SaveForm(b, s) ==
    /\ IsOpen(b) /\ ~SavePending(b) /\ ChangesOf(b, form[b].draft) # <<>>
    /\ saves[s] = NoSave /\ \A t \in 1..s - 1 : saves[t] # NoSave
    /\ LET todo == ChangesOf(b, form[b].draft) IN
       saves' = [saves EXCEPT ![s] =
           [block |-> b, id |-> form[b].id, wants |-> form[b].draft,
            todo |-> Tail(todo), call |-> Sent(Head(todo)), stage |-> "sending", ok |-> FALSE]]
    /\ form' = [form EXCEPT ![b].error = FALSE]
    /\ disturbed' = disturbed \cup {k \in {"stale"} :
          rereading # NoRead /\ DraftOf(staffRecord, b) # DraftOf(listing, b)}
    /\ UNCHANGED <<staffVisit, listing, staffRecord, rereading, opens, othersVars,
                   swapRefused>>

----------------------------------------------------------------------------
\* the server's writes (apps/catalog/staff.py): each is its own transaction
Allowed(req) ==
    CASE req.op = "StaffAddToolFacet" -> req.path[2] \notin listing.facets
      [] req.op = "StaffRemoveToolFacet" ->
            /\ req.path[2] \in listing.facets
            /\ req.path[2] \in Required =>
                  \E v \in Required \ {req.path[2]} : v \in listing.facets
      [] OTHER -> TRUE

Written(req) ==
    CASE req.op = "StaffUpdateTool" ->
            [listing EXCEPT !.fields[req.path[2]] = req.body]
      [] req.op = "StaffAddToolFacet" ->
            [listing EXCEPT !.facets = @ \cup {req.path[2]}]
      [] req.op = "StaffRemoveToolFacet" ->
            [listing EXCEPT !.facets = @ \ {req.path[2]}]
      [] req.op = "StaffUpdatePlan" ->
            [listing EXCEPT !.details =
                [f \in DetailFields |-> IF f \in DOMAIN req.body THEN req.body[f] ELSE @[f]]]
      [] req.op = "StaffSetPlanPrice" -> [listing EXCEPT !.price = req.body]
      [] req.op = "StaffSetPlanLimit" -> [listing EXCEPT !.cap = req.body]

\* a request is checked before its transaction, and holds nothing: passed, or
\* refused
CheckSave(s) ==
    LET call == saves[s].call IN
    /\ call.stage = "sent"
    /\ \/ /\ Allowed(call.req)
          /\ saves' = [saves EXCEPT ![s].call.stage = "checked"]
          /\ UNCHANGED swapRefused
       \/ /\ ~Allowed(call.req)
          /\ swapRefused' = (swapRefused \/ saves[s].wants \cap Required # {})
          /\ saves' = [saves EXCEPT ![s].call = Fails(call)]
    /\ UNCHANGED <<staffVisit, listing, staffRecord, rereading, form, opens, othersVars,
                   disturbed>>

\* two rows for one facet break uniq_tool_facet; deleting a row that is gone does not
FitsTable(req) == req.op = "StaffAddToolFacet" => req.path[2] \notin listing.facets

\* then written, on what the table holds by now: done and answered, done and the
\* answer lost, or failed on the way
WriteSave(s) ==
    LET call == saves[s].call IN
    /\ call.stage = "checked"
    /\ \E done, arrives \in BOOLEAN :
          /\ arrives => done
          /\ done => FitsTable(call.req)
          /\ listing' = IF done THEN Written(call.req) ELSE listing
          /\ saves' = [saves EXCEPT ![s].call =
                          IF arrives THEN Succeeds(call, 0) ELSE Fails(call)]
          /\ disturbed' = disturbed \cup {k \in {"lost"} : ~arrives}
    /\ UNCHANGED <<staffVisit, staffRecord, rereading, form, opens, othersVars,
                   swapRefused>>

\* other staff: a removal of theirs is counted first and deleted later, too
OtherStaffWrites ==
    /\ otherEdits < staffVisit.others
    /\ otherEdits' = otherEdits + 1
    /\ disturbed' = disturbed \cup {"others"}
    /\ \/ \E f \in Fields, v \in Values : listing' = [listing EXCEPT !.fields[f] = v]
       \/ \E f \in DetailFields, v \in Values : listing' = [listing EXCEPT !.details[f] = v]
       \/ \E v \in Facets : listing' = [listing EXCEPT !.facets = @ \cup {v}]
    /\ UNCHANGED <<staffVisit, staffRecord, rereading, form, opens, saves, otherRemoval,
                   swapRefused>>

OtherStaffRemove(v) ==
    /\ otherEdits < staffVisit.others /\ otherRemoval = {}
    /\ Allowed(StaffRemoveToolFacet(Slug, v))
    /\ otherEdits' = otherEdits + 1 /\ otherRemoval' = {v}
    /\ UNCHANGED <<staffVisit, listing, staffRecord, rereading, form, opens, saves,
                   swapRefused, disturbed>>

OtherStaffRemoved ==
    /\ otherRemoval # {}
    /\ listing' = [listing EXCEPT !.facets = @ \ otherRemoval] /\ otherRemoval' = {}
    /\ disturbed' = disturbed \cup {"others"}
    /\ UNCHANGED <<staffVisit, staffRecord, rereading, form, opens, saves, otherEdits,
                   swapRefused>>

----------------------------------------------------------------------------
\* a call is answered: the next one, or afterWrite; a refusal is shown on the
\* form, and the facet editor re-reads the record even then.
\* invalidateQueries restarts the read, and the saves that were waiting for the
\* one it cancels go on at once or with the new one, by the library's version.
AfterWriteUnlessReading(s, ok) ==
    /\ rereading' = IF rereading = NoRead THEN [stage |-> "sent", data |-> 0] ELSE rereading
    /\ saves' = [saves EXCEPT ![s].stage = "rereading", ![s].call = NoCall, ![s].ok = ok]
AfterWrite(s, ok) ==
    /\ rereading' = [stage |-> "sent", data |-> 0]
    /\ \E goOn \in BOOLEAN : saves' = [t \in SaveSlots |->
          IF t = s THEN [saves[s] EXCEPT !.stage = "rereading", !.call = NoCall, !.ok = ok]
          ELSE IF goOn /\ saves[t].stage = "rereading" THEN [saves[t] EXCEPT !.stage = "reread"]
          ELSE saves[t]]

ShowError(save) ==
    form' = [form EXCEPT ![save.block] =
                IF form[save.block].id = save.id THEN [@ EXCEPT !.error = TRUE] ELSE @]

SaveAnswered(s) ==
    LET save == saves[s] IN
    /\ save.call.stage = "answered"
    /\ \/ /\ save.call.ok /\ save.todo # <<>>
          /\ saves' = [saves EXCEPT ![s].todo = Tail(save.todo),
                                    ![s].call = Sent(Head(save.todo))]
          /\ UNCHANGED <<form, rereading>>
       \/ /\ save.call.ok /\ save.todo = <<>>
          /\ AfterWrite(s, TRUE) /\ UNCHANGED form
       \/ /\ ~save.call.ok /\ save.block = "facets"
          /\ ShowError(save) /\ AfterWrite(s, FALSE)
       \/ /\ ~save.call.ok /\ save.block # "facets"
          /\ ShowError(save)
          /\ saves' = [saves EXCEPT ![s] = NoSave] /\ UNCHANGED rereading
    /\ UNCHANGED <<staffVisit, listing, staffRecord, opens, othersVars, swapRefused,
                   disturbed>>

\* the re-read takes its snapshot, and arrives or fails (the cache keeps what
\* it had); either way the saves waiting for it go on
ServeRecord ==
    /\ rereading.stage = "sent"
    /\ rereading' = [stage |-> "answered", data |-> listing]
    /\ UNCHANGED <<staffVisit, listing, staffRecord, form, opens, saves, othersVars,
                   swapRefused, disturbed>>

RecordReread ==
    /\ rereading.stage = "answered"
    /\ rereading' = NoRead
    /\ \/ staffRecord' = rereading.data /\ UNCHANGED disturbed
       \/ UNCHANGED staffRecord /\ disturbed' = disturbed \cup {"lost"}
    /\ saves' = [t \in SaveSlots |->
          IF saves[t].stage = "rereading" THEN [saves[t] EXCEPT !.stage = "reread"]
          ELSE saves[t]]
    /\ UNCHANGED <<staffVisit, listing, form, opens, othersVars, swapRefused>>

\* onDone: setEditing(false) of the block, or setOpen(null) for whichever form
\* of the plan is open by now
ClosesWith(b) == IF b \in PlanForms THEN PlanForms ELSE {b}

SaveDone(s) ==
    LET save == saves[s] IN
    /\ save.stage = "reread"
    /\ saves' = [saves EXCEPT ![s] = NoSave]
    /\ form' = [b \in Blocks |->
          IF save.ok /\ b \in ClosesWith(save.block) THEN ClosedForm ELSE form[b]]
    /\ UNCHANGED <<staffVisit, listing, staffRecord, rereading, opens, othersVars,
                   swapRefused, disturbed>>

StaffReader ==
    \/ \E b \in Blocks : OpenForm(b) \/ TypeInForm(b) \/ CancelForm(b)
    \/ \E b \in Blocks, s \in SaveSlots : SaveForm(b, s)
    \/ OtherStaffWrites \/ OtherStaffRemoved \/ \E v \in Facets : OtherStaffRemove(v)
SaveSteps(s) == CheckSave(s) \/ WriteSave(s) \/ SaveAnswered(s) \/ SaveDone(s)
RecordSteps == ServeRecord \/ RecordReread

StaffNext == RecordSteps \/ StaffReader \/ \E s \in SaveSlots : SaveSteps(s)

\* requests are answered in the end and their continuations run, whatever is
\* typed, retried or saved elsewhere on the page meanwhile
StaffFairness ==
    /\ WF_staffVars(RecordSteps)
    /\ \A s \in SaveSlots : WF_staffVars(SaveSteps(s))
StaffSpec == StaffInit /\ [][StaffNext]_staffVars /\ StaffFairness

----------------------------------------------------------------------------
StaffTypeOK ==
    /\ listing \in StaffListing /\ staffRecord \in StaffListing
    /\ rereading.stage \in {"idle", "sent", "answered"}
    /\ rereading.stage = "answered" => rereading.data \in StaffListing
    /\ \A b \in Blocks : IsOpen(b) => form[b].draft \in DraftValues(b)
    /\ \A s \in SaveSlots : saves[s] # NoSave => saves[s].block \in Blocks
    /\ otherRemoval \subseteq Facets
    /\ swapRefused \in BOOLEAN /\ disturbed \subseteq {"others", "lost", "overlap", "stale"}

\* A swap of one value of a required dimension for another that nothing disturbs
\* is never refused: the adds of facet-editor.tsx land before its removals, and
\* both are worked out from a record that every save, the refused one too, has
\* had read again.
SwapNotRefused == swapRefused => disturbed # {}

\* no save is under way, and nothing is being read again
StaffSettled == rereading = NoRead /\ \A s \in SaveSlots : saves[s] = NoSave

\* Once the saves have settled, what the forms prefill from is what the server
\* holds - though a save of one block cancels the re-read another was waiting
\* for, and a facet save that failed half way had already written - unless an
\* answer was lost or somebody else wrote (use-staff-write.ts).
SettledPageIsCurrent ==
    StaffSettled /\ disturbed \subseteq {"overlap", "stale"} => staffRecord = listing

=============================================================================
