----------------------------- MODULE PlanPrices -----------------------------
(* The published prices of one plan (apps/catalog): staff set a figure for a  *)
(* slot under the plan's lock (staff.py set_plan_price), an editor publishes  *)
(* what owners proposed without it (admin.py approve_proposals), owners       *)
(* withdraw and editors reject meanwhile.  Requests are transactions at READ  *)
(* COMMITTED: a row is known by the transaction that opened and the one that  *)
(* closed it, an UPDATE works on the rows it saw when it started and waits    *)
(* for those another transaction has closed, an INSERT waits for the plan's   *)
(* lock (its foreign key) and for whoever may hold its slot                   *)
(* (uniq_current_plan_price), and PostgreSQL breaks a circle of waits.        *)
EXTENDS Naturals, FiniteSets, FiniteSetsExt

CONSTANTS
    Slots,       \* currency, billing period and overage, as the index keys on
    BaseSlots,   \* those that are not overage rates: what owners propose
    Figures,     \* amount and unit
    Proposals,   \* ids of price proposals
    Request,     \* bound: requests open at once
    MaxPrices    \* bound: price rows

ASSUME PricesAssumption ==
    /\ BaseSlots \subseteq Slots /\ MaxPrices \in Nat
    /\ {"none", "committed"} \cap Request = {} /\ "quote" \notin Figures
    /\ {"none", "staff"} \cap Proposals = {}

VARIABLES
    prices,      \* PlanPrice rows; opened and closed name a transaction
    proposals,   \* PriceProposal rows
    request      \* the open transactions

priceVars == <<prices, proposals, request>>

PriceId == 1..MaxPrices
NoPrice == [slot |-> "none", figure |-> "none", from |-> "none",
            opened |-> "none", closed |-> "none"]
NoProposal == [slot |-> "none", figure |-> "none", status |-> "none"]
NoTransaction == [kind |-> "none", stage |-> "none", slot |-> "none", figure |-> "none",
                  from |-> "none", todo |-> {}, done |-> {}, previous |-> {}, targets |-> {}]

PricesInit ==
    /\ prices = [i \in PriceId |-> NoPrice]
    /\ proposals = [p \in Proposals |-> NoProposal]
    /\ request = [r \in Request |-> NoTransaction]

----------------------------------------------------------------------------
\* is_current, as transaction r sees it; CurrentFor("committed") is what readers see
CurrentFor(r) == {i \in PriceId : /\ prices[i].opened \in {"committed", r}
                                  /\ prices[i].closed \notin {"committed", r}}

\* rows that may hold a slot once the open transactions are over
Claimants(r, slot) ==
    {i \in PriceId : /\ prices[i].opened # "none" /\ prices[i].slot = slot
                     /\ prices[i].closed \notin {"committed", r}}

\* the plan row: FOR UPDATE from set_plan_price on, KEY SHARE from an INSERT on
HasPlan(r) == request[r].kind = "set"
SharesPlan(r) == \E i \in PriceId : prices[i].opened = r
PlanUnlocked == TRUE
PlanFree == \A s \in Request : ~HasPlan(s) /\ ~SharesPlan(s)

\* the other transactions r has to wait for before its next step
WaitsFor(r) ==
    CASE request[r].stage = "closing" ->
             {s \in Request \ {r} : \E i \in request[r].targets : prices[i].closed = s}
      [] request[r].stage = "open" /\ request[r].figure # "quote" ->
             {s \in Request \ {r} : HasPlan(s) \/ \E i \in Claimants(r, request[r].slot) :
                                                    s \in {prices[i].opened, prices[i].closed}}
      [] OTHER -> {}

FreeIds == {i \in PriceId : prices[i] = NoPrice}
NewId == CHOOSE i \in FreeIds : TRUE
Owed == MapThenSumSet(
            LAMBDA r : Cardinality(request[r].todo)
                       + IF HasPlan(r) /\ request[r].stage # "commit" THEN 1 ELSE 0, Request)
\* bound: a transaction begins only while there are rows for what it may open
RoomFor(n) == Cardinality(FreeIds) >= Owed + n

----------------------------------------------------------------------------
\* set_plan_price: the plan is locked, the slot's current figure read; one that
\* has not moved ends the request with nothing written
LockPlan(r, slot, figure) ==
    /\ request[r] = NoTransaction /\ RoomFor(1)
    /\ PlanFree
    /\ LET current == {i \in CurrentFor(r) : prices[i].slot = slot} IN
       /\ \A i \in current : prices[i].figure # figure
       /\ request' = [request EXCEPT ![r] = [NoTransaction EXCEPT
              !.kind = "set", !.stage = "close", !.slot = slot, !.figure = figure,
              !.from = "staff", !.previous = current]]
    /\ UNCHANGED <<prices, proposals>>

\* approve_proposals: the selected rows that are pending, read once
ReadProposals(r, chosen) ==
    /\ request[r] = NoTransaction
    /\ LET pending == {p \in chosen : proposals[p].status = "pending"} IN
       /\ pending # {} /\ RoomFor(Cardinality(pending))
       /\ request' = [request EXCEPT ![r] =
              [NoTransaction EXCEPT !.kind = "approve", !.stage = "next", !.todo = pending]]
    /\ UNCHANGED <<prices, proposals>>

\* the next proposal of the loop
TakeProposal(r) ==
    /\ request[r].stage = "next"
    /\ \E p \in request[r].todo :
          request' = [request EXCEPT ![r].stage = "close", ![r].from = p,
                          ![r].slot = proposals[p].slot, ![r].figure = proposals[p].figure]
    /\ UNCHANGED <<prices, proposals>>

\* the UPDATE that closes starts: the slot's current rows, or all of the plan's
StartClosing(r) ==
    /\ request[r].stage = "close"
    /\ request' = [request EXCEPT ![r].stage = "closing",
           ![r].targets = {i \in CurrentFor(r) :
                               HasPlan(r) => prices[i].slot = request[r].slot}]
    /\ UNCHANGED <<prices, proposals>>

\* it closes those of them that nobody closed meanwhile
FinishClosing(r) ==
    /\ request[r].stage = "closing" /\ WaitsFor(r) = {}
    /\ prices' = [i \in PriceId |->
           IF i \in request[r].targets /\ prices[i].closed = "none"
           THEN [prices[i] EXCEPT !.closed = r] ELSE prices[i]]
    /\ request' = [request EXCEPT ![r].stage = "open", ![r].targets = {}]
    /\ UNCHANGED proposals

\* one proposal, or the figure staff set, is dealt with
NextProposal(r) ==
    LET left == request[r].todo \ {request[r].from} IN
    request' = [request EXCEPT
        ![r].todo = left, ![r].done = (@ \cup {request[r].from}) \cap Proposals,
        ![r].stage = IF left = {} THEN "commit" ELSE "next"]

\* the new row, in a slot nobody holds
OpenPrice(r) ==
    /\ request[r].stage = "open" /\ WaitsFor(r) = {} /\ FreeIds # {}
    /\ request[r].figure # "quote" /\ Claimants(r, request[r].slot) = {}
    /\ prices' = [prices EXCEPT ![NewId] =
           [slot |-> request[r].slot, figure |-> request[r].figure,
            from |-> request[r].from, opened |-> r, closed |-> "none"]]
    /\ NextProposal(r) /\ UNCHANGED proposals

\* everything the transaction did is undone
Undone(r) ==
    /\ prices' = [i \in PriceId |->
           IF prices[i].opened = r THEN NoPrice
           ELSE IF prices[i].closed = r THEN [prices[i] EXCEPT !.closed = "none"]
           ELSE prices[i]]
    /\ request' = [request EXCEPT ![r] = NoTransaction]
    /\ UNCHANGED proposals

\* IntegrityError, for a slot that is taken or a price without an amount: StaffError
\* for set_plan_price, an error page for the admin
CannotOpen(r) ==
    /\ request[r].stage = "open" /\ WaitsFor(r) = {}
    /\ request[r].figure = "quote" \/ Claimants(r, request[r].slot) # {}
RefusedAndRetried(r) == CannotOpen(r) /\ UNCHANGED priceVars
RefusedAndSkipped(r) ==
    /\ CannotOpen(r)
    /\ NextProposal(r) /\ UNCHANGED <<prices, proposals>>
Refused(r) == CannotOpen(r) /\ Undone(r)

\* the process dies or its connection is lost
RollBack(r) == request[r] # NoTransaction /\ Undone(r)

\* the deadlock detector ends one of those that wait for each other
BreakDeadlock ==
    \E circle \in SUBSET Request \ {{}} :
        /\ \A r \in circle : WaitsFor(r) \cap circle # {}
        /\ \E r \in circle : Undone(r)

\* the commit; what was proposed is approved by its key, whatever it is by now
Commit(r) ==
    /\ request[r].stage = "commit"
    /\ prices' = [i \in PriceId |->
           [prices[i] EXCEPT !.opened = IF @ = r THEN "committed" ELSE @,
                             !.closed = IF @ = r THEN "committed" ELSE @]]
    /\ proposals' = [p \in Proposals |->
           IF p \in request[r].done /\ proposals[p].status # "withdrawn"
           THEN [proposals[p] EXCEPT !.status = "approved"] ELSE proposals[p]]
    /\ request' = [request EXCEPT ![r] = NoTransaction]

----------------------------------------------------------------------------
\* propose_tool_price, of a figure or of "quote only"; the row refers to the plan,
\* so it waits for the plan's lock
Propose(p, slot, figure) ==
    /\ proposals[p] = NoProposal /\ \A r \in Request : ~HasPlan(r)
    /\ proposals' = [proposals EXCEPT ![p] =
           [slot |-> slot, figure |-> figure, status |-> "pending"]]
    /\ UNCHANGED <<prices, request>>

\* withdraw_price_proposal: one DELETE of a pending row
WithdrawSuperseded(p) ==
    /\ proposals[p].status = "pending"
    /\ proposals' = [proposals EXCEPT ![p].status = "superseded"]
    /\ UNCHANGED <<prices, request>>
Withdraw(p) ==
    /\ proposals[p].status = "pending"
    /\ proposals' = [proposals EXCEPT ![p].status = "withdrawn"]
    /\ UNCHANGED <<prices, request>>

\* reject_proposals: one UPDATE of the selected rows, whatever their status
Reject(p) ==
    /\ proposals[p].status \in {"pending", "approved", "rejected"}
    /\ proposals' = [proposals EXCEPT ![p].status = "rejected"]
    /\ UNCHANGED <<prices, request>>

TransactionSteps(r) ==
    \/ TakeProposal(r) \/ StartClosing(r) \/ FinishClosing(r)
    \/ OpenPrice(r) \/ Refused(r) \/ Commit(r)

PricesNext ==
    \/ \E r \in Request :
          \/ \E slot \in Slots, figure \in Figures : LockPlan(r, slot, figure)
          \/ \E chosen \in SUBSET Proposals : ReadProposals(r, chosen)
          \/ TransactionSteps(r) \/ RollBack(r)
    \/ BreakDeadlock
    \/ \E p \in Proposals :
          \/ \E slot \in BaseSlots, figure \in Figures \cup {"quote"} :
                Propose(p, slot, figure)
          \/ Withdraw(p) \/ Reject(p)

PricesSpec == PricesInit /\ [][PricesNext]_priceVars

\* PostgreSQL serves those who wait for a lock in turn, and breaks deadlocks
FairPricesSpec ==
    /\ PricesSpec
    /\ \A r \in Request : SF_priceVars(TransactionSteps(r))
    /\ WF_priceVars(BreakDeadlock)

----------------------------------------------------------------------------
PricesTypeOK ==
    /\ \A i \in PriceId :
          \/ prices[i] = NoPrice
          \/ prices[i] \in [slot : Slots, figure : Figures, from : Proposals \cup {"staff"},
                            opened : Request \cup {"committed"},
                            closed : Request \cup {"committed", "none"}]
    /\ \A p \in Proposals :
          \/ proposals[p] = NoProposal
          \/ proposals[p] \in [slot : BaseSlots, figure : Figures \cup {"quote"},
                 status : {"pending", "approved", "rejected", "withdrawn"}]
    /\ \A r \in Request :
          /\ request[r].stage \in {"none", "next", "close", "closing", "open", "commit"}
          /\ request[r].todo \cup request[r].done \subseteq Proposals
          /\ request[r].previous \cup request[r].targets \subseteq PriceId

\* The figure set_plan_price says it superseded is the one it closed, though an
\* approval that closes it takes no lock of its own: the foreign key of the row
\* the approval opens keeps it from committing in between (staff.py:597-607).
ReplacedIsReported ==
    \A r \in Request : request[r].kind = "set" /\ request[r].stage \in {"open", "commit"} =>
        {i \in PriceId : prices[i].closed = r} = request[r].previous

\* What is marked approved was published: its figure is in the history.
ApprovedIsPublished ==
    \A p \in Proposals : proposals[p].status = "approved" =>
        \E i \in PriceId : prices[i].opened = "committed" /\ prices[i].from = p

\* What the operations say they did, to staff in their answer (staff.py:619) and
\* to owners in the status of a proposal (admin.py:924), the rows bear out.
SaidIsDone == ReplacedIsReported /\ ApprovedIsPublished

\* "Exactly one current figure per plan, currency, billing period and overage
\* flag" (mcp.py:832): a slot never shows two, and a plan that was ever priced
\* is never without a price, whoever closes and opens rows at the same time,
\* is refused, dies or is ended as a deadlock's victim.
PricedOnce ==
    LET shown == CurrentFor("committed") IN
    /\ \A i, j \in shown : prices[i].slot = prices[j].slot => i = j
    /\ (\E i \in PriceId : prices[i].opened = "committed") => shown # {}

\* Every request comes to an end: two approvals, or an approval and an edit, wait
\* for rows the other has, and one of them is ended.
RequestsEnd == \A r \in Request : []<>(request[r] = NoTransaction)
=============================================================================
