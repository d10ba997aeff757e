----------------------------- MODULE ListingRows -----------------------------
(* The rows of one published listing and the requests that write them         *)
(* (apps/catalog): staff edit columns under the row's lock (staff.py          *)
(* update_tool), add and remove facets without it, owners propose revisions   *)
(* and an editor applies them by saving the whole row as it was read          *)
(* (admin.py apply_revisions).  Every write leaves a ToolRevision behind,     *)
(* which says what it replaced and by what.  A request reads in one step and  *)
(* writes and commits in another.                                             *)
EXTENDS Naturals, Sequences, FiniteSets

CONSTANTS
    Fields,        \* the columns of Tool that owners and staff may edit
    Values,        \* what they hold
    Facets,        \* facet values
    Required,      \* those of a dimension a published page needs a value of
    Writer,        \* bound: requests open at once
    Histories      \* bound: how many of them a history has open at once (atOnce)
                   \* and how many ToolRevision rows it makes (made)

ASSUME RowsAssumption ==
    /\ "facet_slugs" \notin Fields /\ Required \subseteq Facets /\ Required # {}
    /\ Values # {} /\ IsFiniteSet(Writer)
    /\ \A h \in Histories : h.atOnce \in Nat \ {0} /\ h.made \in Nat

VARIABLES
    history,       \* which of the histories this is
    listing,       \* what getattr(tool, field) says: the columns, and facet_slugs
    revisions,     \* ToolRevision rows, oldest first
    writing        \* the open requests

rowVars == <<history, listing, revisions, writing>>

Attributes == Fields \cup {"facet_slugs"}
Held(f) == IF f = "facet_slugs" THEN SUBSET Facets ELSE Values

Nothing == [f \in {} |-> {}]
NoWriting == [kind |-> "none", changes |-> Nothing, before |-> Nothing, facet |-> "none",
              revision |-> 0]
Revision(origin, changes, before, status) ==
    [origin |-> origin, changes |-> changes, base |-> before, status |-> status]

\* the given attributes of a listing
Snapshot(l, fs) == [f \in fs |-> l[f]]
\* set_facet_slugs, setattr
With(l, changes) == [f \in Attributes |-> IF f \in DOMAIN changes THEN changes[f] ELSE l[f]]

RowsInit ==
    /\ history \in Histories
    /\ listing \in {[f \in Attributes |-> IF f = "facet_slugs" THEN Required ELSE v] :
                        v \in Values}
    /\ revisions = <<>>
    /\ writing = [r \in Writer |-> NoWriting]

Begins(r, as) ==
    /\ writing[r] = NoWriting
    /\ Cardinality({s \in Writer : writing[s] # NoWriting}) < history.atOnce
    /\ writing' = [writing EXCEPT ![r] = as]
Ends(r) == writing' = [writing EXCEPT ![r] = NoWriting]
\* bound: what the open requests will record has room
Recording == {r \in Writer : writing[r].kind \in {"edit", "add", "remove", "propose"}}
Room == Len(revisions) + Cardinality(Recording) < history.made

\* the row of the tool is locked FOR UPDATE: nobody else updates it, and no row
\* that refers to it is inserted
NeverLocked == FALSE
Locked == \E r \in Writer : writing[r].kind = "edit"

----------------------------------------------------------------------------
\* update_tool: the row is locked, fields that hold the value already are dropped
BeginEdit(r, values) ==
    /\ ~Locked /\ Room
    /\ LET applied == {f \in DOMAIN values : values[f] # listing[f]} IN
       /\ applied # {}
       /\ Begins(r, [NoWriting EXCEPT !.kind = "edit", !.changes = Snapshot(values, applied),
                                      !.before = Snapshot(listing, applied)])
    /\ UNCHANGED <<listing, revisions>>
CommitEdit(r) ==
    /\ writing[r].kind = "edit"
    /\ listing' = With(listing, writing[r].changes)
    /\ revisions' = Append(revisions,
           Revision("staff", writing[r].changes, writing[r].before, "approved"))
    /\ Ends(r)

\* _record_facet_revision: the list as it was read, and as it is after the write
FacetsBecome(r, now) ==
    /\ listing' = [listing EXCEPT !["facet_slugs"] = now]
    /\ revisions' = Append(revisions,
           Revision("staff", [f \in {"facet_slugs"} |-> now], writing[r].before, "approved"))
    /\ Ends(r)
ReadsFacets(r, op, value) ==
    /\ Room
    /\ Begins(r, [NoWriting EXCEPT !.kind = op, !.facet = value,
                                   !.before = Snapshot(listing, {"facet_slugs"})])
    /\ UNCHANGED <<listing, revisions>>

BeginAddFacet(r, value) == value \notin listing["facet_slugs"] /\ ReadsFacets(r, "add", value)
CommitAddFacet(r) ==
    /\ writing[r].kind = "add" /\ ~Locked
    /\ writing[r].facet \notin listing["facet_slugs"]
    /\ FacetsBecome(r, listing["facet_slugs"] \cup {writing[r].facet})
\* uniq_tool_facet: somebody added it meanwhile
FacetTaken(r) ==
    /\ writing[r].kind = "add" /\ writing[r].facet \in listing["facet_slugs"]
    /\ Ends(r) /\ UNCHANGED <<listing, revisions>>

\* refused for the last value of a required dimension
LastOfItsKind(value) ==
    value \in Required /\ (listing["facet_slugs"] \cap Required) \ {value} = {}
BeginRemoveFacet(r, value) ==
    /\ value \in listing["facet_slugs"]
    /\ ~LastOfItsKind(value)
    /\ ReadsFacets(r, "remove", value)
CommitRemoveFacet(r) ==
    /\ writing[r].kind = "remove" /\ ~Locked
    /\ FacetsBecome(r, listing["facet_slugs"] \ {writing[r].facet})

\* propose_tool_revision: what it proposes to change, and what that was when read
BeginPropose(r, changes) ==
    /\ Room
    /\ Begins(r, [NoWriting EXCEPT !.kind = "propose", !.changes = changes,
                                   !.before = Snapshot(listing, DOMAIN changes)])
    /\ UNCHANGED <<listing, revisions>>
CommitPropose(r) ==
    /\ writing[r].kind = "propose" /\ ~Locked
    /\ revisions' = Append(revisions,
           Revision("owner", writing[r].changes, writing[r].before, "submitted"))
    /\ Ends(r) /\ UNCHANGED listing

\* conflicting_fields
AppliedAlready(n) == {f \in DOMAIN revisions[n].changes : listing[f] = revisions[n].changes[f]}
Conflicting(n) == {f \in DOMAIN revisions[n].base : listing[f] # revisions[n].base[f]}

\* apply_revisions, for one revision: one that conflicts is left as it is; else
\* the row read for the check is changed and saved, every column of it
BeginApply(r, n) ==
    /\ revisions[n].status = "submitted"
    /\ Conflicting(n) = {}
    /\ Begins(r, [NoWriting EXCEPT !.kind = "apply", !.revision = n,
                      !.changes = revisions[n].changes, !.before = Snapshot(listing, Fields)])
    /\ UNCHANGED <<listing, revisions>>
CommitApply(r) ==
    /\ writing[r].kind = "apply" /\ ~Locked
    /\ listing' = With(With(listing, writing[r].before), writing[r].changes)
    /\ revisions' = [revisions EXCEPT ![writing[r].revision].status = "approved"]
    /\ Ends(r)

\* reject_revisions: one UPDATE of the selected rows, whatever their status
RejectRevision(n) ==
    /\ revisions' = [revisions EXCEPT ![n].status = "rejected"]
    /\ UNCHANGED <<listing, writing>>

\* the process dies or its connection is lost
WritingEnds(r) == writing[r] # NoWriting /\ Ends(r) /\ UNCHANGED <<listing, revisions>>

\* what one form of one page sends: a field, or the list of facets
OneField == {[f \in {g} |-> v] : g \in Fields, v \in Values}
OneList == {[f \in {"facet_slugs"} |-> s] : s \in SUBSET Facets}

RowsNext ==
    /\ UNCHANGED history
    /\ \/ \E r \in Writer :
             \/ \E values \in OneField : BeginEdit(r, values)
             \/ CommitEdit(r)
             \/ \E value \in Facets : BeginAddFacet(r, value) \/ BeginRemoveFacet(r, value)
             \/ CommitAddFacet(r) \/ FacetTaken(r) \/ CommitRemoveFacet(r)
             \/ \E n \in DOMAIN revisions : BeginApply(r, n)
             \/ \E changes \in OneField \cup OneList : BeginPropose(r, changes)
             \/ CommitPropose(r) \/ CommitApply(r) \/ WritingEnds(r)
       \/ \E n \in DOMAIN revisions : RejectRevision(n)

RowsSpec == RowsInit /\ [][RowsNext]_rowVars

----------------------------------------------------------------------------
Holds(changes) == /\ DOMAIN changes \subseteq Attributes
                  /\ \A f \in DOMAIN changes : changes[f] \in Held(f)

RowsTypeOK ==
    /\ history \in Histories
    /\ DOMAIN listing = Attributes /\ Holds(listing)
    /\ Len(revisions) <= history.made
    /\ \A n \in DOMAIN revisions :
          /\ revisions[n].origin \in {"owner", "staff"}
          /\ revisions[n].status \in {"submitted", "approved", "rejected"}
          /\ Holds(revisions[n].changes) /\ Holds(revisions[n].base)
          /\ DOMAIN revisions[n].changes = DOMAIN revisions[n].base
    /\ \A r \in Writer : /\ Holds(writing[r].changes) /\ Holds(writing[r].before)
                          /\ writing[r].revision \in 0..Len(revisions)

\* the revisions a step records as applied, and whether one tells what the step did:
\* it replaced what the revision was based on by what it asks for, and nothing else
Applied == {n \in DOMAIN revisions' :
               /\ revisions'[n].status = "approved"
               /\ n \in DOMAIN revisions => revisions[n].status # "approved"}
TellsTheStep(n) ==
    /\ \A f \in DOMAIN revisions'[n].base : revisions'[n].base[f] = listing[f]
    /\ listing' = With(listing, revisions'[n].changes)

TrailTellsTheStep ==
    /\ \A n \in Applied : /\ revisions'[n].origin = "staff"
                         /\ DOMAIN revisions'[n].changes \subseteq Fields
                         => TellsTheStep(n)
    /\ history.atOnce = 1 => /\ \A n \in Applied : TellsTheStep(n)
                             /\ listing' # listing => Applied # {}

\* The trail tells what happened.  An edit's record names the value it replaced,
\* whatever was being added, applied or saved over the row at the same time: the
\* row is locked before it is read (staff.py:303).  And with one request at a time
\* nothing changes without a revision that tells it, and what an owner proposed is
\* applied over what the owner saw, however long it waited for review.
TrailIsTheHistory == [][TrailTellsTheStep]_rowVars
=============================================================================
