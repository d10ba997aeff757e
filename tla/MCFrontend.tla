----------------------------- MODULE MCFrontend -----------------------------
(* Frontend for TLC: the visits of each page, one for every behaviour that   *)
(* takes several actors, and a small catalog for the calculator.             *)
EXTENDS Frontend

StaffVisit(blocks, opened, edits) == [blocks |-> blocks, opens |-> opened, others |-> edits]
MCStaffVisits == {
    StaffVisit({"facets"}, 1, 1),
    StaffVisit({"details", "price"}, 2, 0), StaffVisit({"details"}, 1, 1),
    StaffVisit({"tagline"}, 2, 1), StaffVisit({"cap", "tagline"}, 2, 0)}

ToolVisit(buttons, pressed, writing) ==
    [buttons |-> buttons, presses |-> pressed, others |-> writing]
MCToolVisits == {
    ToolVisit({"review"}, 2, 0), ToolVisit({"upload", "verify"}, 2, 0),
    ToolVisit({"plan", "uncap", "invite", "logo"}, 1, 0),
    ToolVisit({"assign", "badge"}, 2, 0), ToolVisit({"settings"}, 2, 1)}

CommentVisit(who, modes, sent, acts) ==
    [reader |-> who, modes |-> modes, sends |-> sent, others |-> acts]
MCCommentVisits == {
    CommentVisit("member", 1, 2, 0), CommentVisit("member", 1, 1, 1),
    CommentVisit("staff", 1, 1, 0), CommentVisit("staff", 0, 2, 0),
    CommentVisit("staff", 0, 1, 1)}
MCThreads == {
    << <<"published", 0, "reader">>, <<"published", 1, "other">> >>,
    << <<"pending", 0, "other">> >>}

OwnerVisit(edits, pictures, reads, staff) ==
    [edits |-> edits, shots |-> pictures, reads |-> reads, staff |-> staff]
MCOwnerVisits == {OwnerVisit(4, 0, 1, 2), OwnerVisit(0, 4, 0, 1)}

AccountVisit(acts, keysUsed, staff) == [acts |-> acts, keys |-> keysUsed, staff |-> staff]
MCAccountVisits == {AccountVisit(3, 0, 1), AccountVisit(0, 3, 0)}

NewsVisit(asks, strangers, staff) == [asks |-> asks, strangers |-> strangers, staff |-> staff]
MCNewsVisits == {NewsVisit(0, 2, 0), NewsVisit(1, 0, 1)}

Cost(amount, currency, unit, overage) ==
    [amount |-> amount, currency |-> currency, unit |-> unit, is_overage |-> overage]
Cap(kind, value, unlimited) == [kind |-> kind, value |-> value, is_unlimited |-> unlimited]
Offer(code, costs, caps) == [code |-> code, prices |-> costs, limits |-> caps]

\* "a" meters pages past an allowance and has a plan by the page with a cap per
\* document; "b" publishes in euros, per document, per month and for free
MCCatalog == [
    a |-> <<Offer("pro", <<Cost(2, "USD", "page", TRUE), Cost(30, "USD", "month", FALSE)>>,
                  {Cap("pages_per_month", 3, FALSE), Cap("documents_per_month", 1, TRUE)}),
            Offer("payg", <<Cost(9, "USD", "page", FALSE)>>,
                  {Cap("pages_per_document", 3, FALSE)})>>,
    b |-> <<Offer("pro", <<Cost(25, "EUR", "document", FALSE)>>, {}),
            Offer("team", <<Cost(40, "EUR", "month", FALSE)>>, {}),
            Offer("free", <<Cost(0, "EUR", "month", FALSE)>>,
                  {Cap("documents_per_month", 1, FALSE)})>>]
MCEcb == [EUR |-> 10, USD |-> 11]
MCTyped == {<<>>, <<0>>, <<99>>}
MCUrls == {<<>>, <<"a", "b", "a">>, <<"gone", "a">>}
=============================================================================
