-------------------------- MODULE CatalogRows_proofs --------------------------
(* Proofs about the rows of the catalog, for any slots, figures, proposals    *)
(* and number of concurrent requests, and for any listing, however many       *)
(* revisions it has.                                                          *)
(*                                                                            *)
(* None of the properties is inductive.  PricedOnce speaks of committed rows; *)
(* the invariant says of every two rows that could both come to hold a slot   *)
(* that one transaction closes the one and opens the other, so both come      *)
(* about or neither.  The set-price operation may report what it read only    *)
(* because whoever closes its rows would have to open one, which the plan's   *)
(* lock forbids.  What a revision says of the step that records it needs to   *)
(* know that what the request read is still so.                               *)
EXTENDS CatalogRows, SequenceTheorems, FiniteSetTheorems, TLAPS

----------------------------------------------------------------------------
\* PlanPrices

PriceRow == [slot : Slots, figure : Figures, from : Proposals \cup {"staff"},
             opened : Request \cup {"committed"},
             closed : Request \cup {"committed", "none"}]
ProposalRow == [slot : BaseSlots, figure : Figures \cup {"quote"},
                status : {"pending", "approved", "rejected", "withdrawn"}]
Transaction == [kind : {"none", "set", "approve"},
                stage : {"none", "next", "close", "closing", "open", "commit"},
                slot : Slots \cup {"none"}, figure : Figures \cup {"quote", "none"},
                from : Proposals \cup {"staff", "none"},
                todo : SUBSET Proposals, done : SUBSET Proposals,
                previous : SUBSET PriceId, targets : SUBSET PriceId]

\* in the middle of one proposal or figure
AtWork(r) == request[r].stage \in {"close", "closing", "open"}
Proposed == {p \in Proposals : proposals[p] # NoProposal}

PricesShape ==
    /\ prices \in [PriceId -> PriceRow \cup {NoPrice}]
    /\ proposals \in [Proposals -> ProposalRow \cup {NoProposal}]
    /\ request \in [Request -> Transaction]

\* what a transaction works on is there
WorkIsThere ==
    \A r \in Request :
        /\ request[r].todo \cup request[r].done \subseteq Proposed
        /\ AtWork(r) => /\ request[r].slot \in Slots
                        /\ request[r].figure \in Figures \cup {"quote"}
                        /\ request[r].from \in Proposed \cup {"staff"}

\* of two rows for a slot, neither closed for good, one is to go when the other comes
HoldersReplace(i, j) ==
    \E r \in Request : \/ prices[i].closed = r /\ prices[j].opened = r
                       \/ prices[j].closed = r /\ prices[i].opened = r
OneHolder ==
    \A i, j \in PriceId :
        /\ i # j /\ prices[i].slot = prices[j].slot
        /\ "none" \notin {prices[i].opened, prices[j].opened}
        /\ "committed" \notin {prices[i].closed, prices[j].closed}
        => HoldersReplace(i, j)

\* a transaction closes rows it can see: its own, or committed ones
ClosesWhatItSees ==
    /\ \A i \in PriceId : prices[i].closed \in Request =>
                             prices[i].opened \in {"committed", prices[i].closed}
    /\ \A r \in Request : \A i \in request[r].targets : prices[i].opened \in {"committed", r}

\* one that has not begun has touched nothing
IdleHoldsNothing ==
    \A r \in Request : request[r] = NoTransaction =>
        \A i \in PriceId : r \notin {prices[i].opened, prices[i].closed}

\* a transaction about to commit leaves a current row of its own
LeavesARow(r) == \E i \in PriceId : prices[i].opened = r /\ prices[i].closed \notin {"committed", r}
CommitLeavesARow == \A r \in Request : request[r].stage = "commit" => LeavesARow(r)

\* while one holds the plan, nobody else holds or shares it
PlanIsHeldAlone ==
    \A r, s \in Request : HasPlan(r) /\ r # s => ~HasPlan(s) /\ ~SharesPlan(s)

\* a request that sets a price replaces what it read
ReplacesWhatItRead(r) ==
    /\ request[r].todo = {}
    /\ request[r].stage \in {"close", "closing", "open", "commit"}
    /\ request[r].stage \in {"close", "closing"} =>
          /\ \A i \in PriceId : r \notin {prices[i].opened, prices[i].closed}
          /\ request[r].previous = {i \in CurrentFor(r) : prices[i].slot = request[r].slot}
    /\ request[r].stage = "closing" => request[r].targets = request[r].previous
SetReplacesWhatItRead == \A r \in Request : HasPlan(r) => ReplacesWhatItRead(r)

\* what a transaction will mark approved it has opened a row for
DoneIsOpened ==
    \A r \in Request : \A p \in request[r].done :
        \E i \in PriceId : prices[i].opened = r /\ prices[i].from = p

PricesInv ==
    /\ PricesShape /\ WorkIsThere /\ OneHolder /\ ClosesWhatItSees /\ IdleHoldsNothing
    /\ CommitLeavesARow /\ PlanIsHeldAlone /\ SetReplacesWhatItRead /\ DoneIsOpened
    /\ PricedOnce /\ ReplacedIsReported /\ ApprovedIsPublished

----------------------------------------------------------------------------
LEMMA PricesInitInv == PricesInit => PricesInv
  <1> SUFFICES ASSUME PricesInit PROVE PricesInv
    OBVIOUS
  <1> USE PricesAssumption DEF PricesAssumption
  <1>1. /\ \A i \in PriceId : prices[i] = NoPrice
        /\ \A p \in Proposals : proposals[p] = NoProposal
        /\ \A r \in Request : request[r] = NoTransaction
    BY DEF PricesInit
  <1>2. NoTransaction \in Transaction
    BY DEF NoTransaction, Transaction
  <1>3. PricesShape
    BY <1>2 DEF PricesInit, PricesShape
  <1>4. WorkIsThere
    BY <1>1 DEF WorkIsThere, AtWork, NoTransaction
  <1>5. OneHolder /\ ClosesWhatItSees /\ IdleHoldsNothing
    BY <1>1 DEF OneHolder, ClosesWhatItSees, IdleHoldsNothing, NoPrice, NoTransaction
  <1>6. CommitLeavesARow /\ PlanIsHeldAlone /\ SetReplacesWhatItRead /\ DoneIsOpened
    BY <1>1 DEF CommitLeavesARow, PlanIsHeldAlone, SetReplacesWhatItRead, DoneIsOpened,
                HasPlan, NoTransaction
  <1>7. PricedOnce
    BY <1>1 DEF PricedOnce, CurrentFor, NoPrice
  <1>8. ReplacedIsReported /\ ApprovedIsPublished
    BY <1>1 DEF ReplacedIsReported, ApprovedIsPublished, NoTransaction, NoProposal
  <1> QED BY <1>3, <1>4, <1>5, <1>6, <1>7, <1>8 DEF PricesInv

\* what a transaction may turn into while the rows stand still
Continues(r, t) ==
    /\ t \in Transaction /\ t.stage \notin {"none", "commit"}
    /\ t.todo \cup t.done \subseteq Proposed /\ t.done \subseteq request[r].done
    /\ t.stage \in {"close", "closing", "open"} =>
          /\ t.slot \in Slots /\ t.figure \in Figures \cup {"quote"}
          /\ t.from \in Proposed \cup {"staff"}
    /\ \A i \in t.targets : prices[i].opened \in {"committed", r}
    /\ t.kind = "set" =>
          /\ PlanFree \/ HasPlan(r)
          /\ t.todo = {} /\ t.stage \in {"close", "closing"}
          /\ \A i \in PriceId : r \notin {prices[i].opened, prices[i].closed}
          /\ t.previous = {i \in CurrentFor(r) : prices[i].slot = t.slot}
          /\ t.stage = "closing" => t.targets = t.previous

LEMMA ContinuingKeeps ==
    ASSUME PricesInv, NEW r \in Request, NEW t, Continues(r, t),
           request' = [request EXCEPT ![r] = t], UNCHANGED <<prices, proposals>>
    PROVE  PricesInv'
  <1>1. /\ request'[r] = t /\ \A s \in Request \ {r} : request'[s] = request[s]
        /\ \A s \in Request : CurrentFor(s)' = CurrentFor(s) /\ SharesPlan(s)' = SharesPlan(s)
        /\ Proposed' = Proposed
    BY DEF PricesInv, PricesShape, CurrentFor, SharesPlan, Proposed
  <1>2. PricesShape'
    BY DEF PricesInv, PricesShape, Continues
  <1>3. WorkIsThere'
    BY <1>1 DEF PricesInv, WorkIsThere, AtWork, Continues
  <1>4. OneHolder'
    BY DEF PricesInv, OneHolder, HoldersReplace
  <1>5. ClosesWhatItSees'
    BY <1>1 DEF PricesInv, ClosesWhatItSees, Continues
  <1>6. CommitLeavesARow' /\ IdleHoldsNothing'
    BY <1>1 DEF PricesInv, CommitLeavesARow, LeavesARow, IdleHoldsNothing, NoTransaction,
                Continues
  <1>7. PlanIsHeldAlone'
    BY <1>1 DEF PricesInv, PlanIsHeldAlone, HasPlan, PlanFree, Continues
  <1>8. SetReplacesWhatItRead'
    <2> SUFFICES ASSUME NEW s \in Request, HasPlan(s)' PROVE ReplacesWhatItRead(s)'
      BY DEF SetReplacesWhatItRead
    <2>1. CASE s = r
      BY <1>1, <2>1 DEF HasPlan, ReplacesWhatItRead, Continues
    <2>2. CASE s # r
      BY <1>1, <2>2 DEF PricesInv, SetReplacesWhatItRead, HasPlan, ReplacesWhatItRead
    <2> QED BY <2>1, <2>2
  <1>9. DoneIsOpened'
    BY <1>1 DEF PricesInv, DoneIsOpened, Continues
  <1>10. PricedOnce' /\ ApprovedIsPublished'
    BY DEF PricesInv, PricedOnce, CurrentFor, ApprovedIsPublished
  <1>11. ReplacedIsReported'
    BY <1>1 DEF PricesInv, ReplacedIsReported, Continues
  <1> QED BY <1>2, <1>3, <1>4, <1>5, <1>6, <1>7, <1>8, <1>9, <1>10, <1>11 DEF PricesInv

LEMMA LockPlanKeeps ==
    ASSUME PricesInv, NEW r \in Request, NEW slot \in Slots, NEW figure \in Figures,
           LockPlan(r, slot, figure)
    PROVE  PricesInv'
  <1> DEFINE current == {i \in CurrentFor(r) : prices[i].slot = slot}
  <1> DEFINE t == [NoTransaction EXCEPT !.kind = "set", !.stage = "close", !.slot = slot,
                       !.figure = figure, !.from = "staff", !.previous = current]
  <1>1. /\ request' = [request EXCEPT ![r] = t] /\ UNCHANGED <<prices, proposals>> /\ PlanFree
    BY DEF LockPlan
  <1>2. /\ t \in Transaction /\ t.kind = "set" /\ t.stage = "close" /\ t.slot = slot
        /\ t.figure = figure /\ t.from = "staff" /\ t.previous = current
        /\ t.todo = {} /\ t.done = {} /\ t.targets = {}
    BY DEF NoTransaction, Transaction, CurrentFor
  <1> HIDE DEF t
  <1>3. \A i \in PriceId : r \notin {prices[i].opened, prices[i].closed}
    BY DEF LockPlan, PricesInv, IdleHoldsNothing
  <1>4. Continues(r, t)
    BY <1>1, <1>2, <1>3 DEF Continues
  <1> QED BY <1>1, <1>4, ContinuingKeeps

LEMMA ReadProposalsKeeps ==
    ASSUME PricesInv, NEW r \in Request, NEW chosen \in SUBSET Proposals,
           ReadProposals(r, chosen)
    PROVE  PricesInv'
  <1> DEFINE pending == {p \in chosen : proposals[p].status = "pending"}
  <1> DEFINE t == [NoTransaction EXCEPT !.kind = "approve", !.stage = "next", !.todo = pending]
  <1>1. request' = [request EXCEPT ![r] = t] /\ UNCHANGED <<prices, proposals>>
    BY DEF ReadProposals
  <1>2. pending \subseteq Proposed
    BY DEF Proposed, NoProposal
  <1>3. /\ t \in Transaction /\ t.kind = "approve" /\ t.stage = "next"
        /\ t.todo = pending /\ t.done = {} /\ t.targets = {}
    BY DEF NoTransaction, Transaction
  <1> HIDE DEF t
  <1>4. Continues(r, t)
    BY <1>2, <1>3 DEF Continues
  <1> QED BY <1>1, <1>4, ContinuingKeeps

LEMMA TakeProposalKeeps ==
    ASSUME PricesInv, NEW r \in Request, TakeProposal(r)
    PROVE  PricesInv'
  <1>1. PICK p \in request[r].todo :
            request' = [request EXCEPT ![r].stage = "close", ![r].from = p,
                            ![r].slot = proposals[p].slot, ![r].figure = proposals[p].figure]
    BY DEF TakeProposal
  <1>2. UNCHANGED <<prices, proposals>> /\ request[r].stage = "next"
    BY DEF TakeProposal
  <1> DEFINE t == [request[r] EXCEPT !.stage = "close", !.from = p,
                       !.slot = proposals[p].slot, !.figure = proposals[p].figure]
  <1>3. request' = [request EXCEPT ![r] = t]
    BY <1>1 DEF PricesInv, PricesShape
  <1>4. /\ p \in Proposed /\ proposals[p] \in ProposalRow
        /\ request[r] \in Transaction /\ request[r].todo \cup request[r].done \subseteq Proposed
    BY DEF PricesInv, PricesShape, WorkIsThere, Proposed
  <1>5. proposals[p].slot \in Slots /\ proposals[p].figure \in Figures \cup {"quote"}
    BY <1>4, PricesAssumption DEF ProposalRow, PricesAssumption
  <1>6. /\ t \in Transaction /\ t.stage = "close" /\ t.from = p /\ t.slot = proposals[p].slot
        /\ t.figure = proposals[p].figure /\ t.kind = request[r].kind
        /\ t.todo = request[r].todo /\ t.done = request[r].done
        /\ t.targets = request[r].targets
    BY <1>4, <1>5 DEF Transaction, Proposed
  <1> HIDE DEF t
  <1>7. request[r].kind # "set"
    BY <1>2 DEF PricesInv, SetReplacesWhatItRead, HasPlan, ReplacesWhatItRead
  <1>8. \A i \in t.targets : prices[i].opened \in {"committed", r}
    BY <1>6 DEF PricesInv, ClosesWhatItSees
  <1>9. Continues(r, t)
    BY <1>4, <1>5, <1>6, <1>7, <1>8 DEF Continues
  <1> QED BY <1>2, <1>3, <1>9, ContinuingKeeps

LEMMA StartClosingKeeps ==
    ASSUME PricesInv, NEW r \in Request, StartClosing(r)
    PROVE  PricesInv'
  <1> DEFINE seen == {i \in CurrentFor(r) : HasPlan(r) => prices[i].slot = request[r].slot}
  <1> DEFINE t == [request[r] EXCEPT !.stage = "closing", !.targets = seen]
  <1>1. /\ request[r] \in Transaction /\ request[r].stage = "close"
        /\ UNCHANGED <<prices, proposals>>
    BY DEF StartClosing, PricesInv, PricesShape
  <1>2. request' = [request EXCEPT ![r] = t]
    BY DEF StartClosing, PricesInv, PricesShape
  <1>3. /\ t \in Transaction /\ t.stage = "closing" /\ t.targets = seen
        /\ t.kind = request[r].kind /\ t.slot = request[r].slot /\ t.figure = request[r].figure
        /\ t.from = request[r].from /\ t.todo = request[r].todo /\ t.done = request[r].done
        /\ t.previous = request[r].previous
    BY <1>1 DEF Transaction, CurrentFor
  <1> HIDE DEF t
  <1>4. /\ request[r].slot \in Slots /\ request[r].figure \in Figures \cup {"quote"}
        /\ request[r].from \in Proposed \cup {"staff"}
        /\ request[r].todo \cup request[r].done \subseteq Proposed
    BY <1>1 DEF PricesInv, WorkIsThere, AtWork
  <1>5. \A i \in seen : prices[i].opened \in {"committed", r}
    BY DEF CurrentFor
  <1>6. HasPlan(r) => /\ ReplacesWhatItRead(r) /\ seen = request[r].previous
    BY <1>1 DEF PricesInv, SetReplacesWhatItRead, ReplacesWhatItRead
  <1>7. Continues(r, t)
    BY <1>1, <1>3, <1>4, <1>5, <1>6 DEF Continues, HasPlan, ReplacesWhatItRead
  <1> QED BY <1>1, <1>2, <1>7, ContinuingKeeps

\* a request whose rows are closed by nobody else closes them
LEMMA FinishClosingKeeps ==
    ASSUME PricesInv, NEW r \in Request, FinishClosing(r)
    PROVE  PricesInv'
  <1> USE PricesAssumption DEF PricesAssumption
  <1> DEFINE t == [request[r] EXCEPT !.stage = "open", !.targets = {}]
  <1>1. /\ request[r] \in Transaction /\ request[r].stage = "closing" /\ WaitsFor(r) = {}
        /\ UNCHANGED proposals
    BY DEF FinishClosing, PricesInv, PricesShape
  <1>2. request' = [request EXCEPT ![r] = t]
    BY DEF FinishClosing, PricesInv, PricesShape
  <1>3. /\ t \in Transaction /\ t.stage = "open" /\ t.targets = {}
        /\ t.kind = request[r].kind /\ t.slot = request[r].slot /\ t.figure = request[r].figure
        /\ t.from = request[r].from /\ t.todo = request[r].todo /\ t.done = request[r].done
        /\ t.previous = request[r].previous
    BY <1>1 DEF Transaction
  <1> HIDE DEF t
  <1>4. request'[r] = t /\ \A s \in Request \ {r} : request'[s] = request[s]
    BY <1>2 DEF PricesInv, PricesShape
  <1>5. \A i \in PriceId :
            prices'[i] = IF i \in request[r].targets /\ prices[i].closed = "none"
                         THEN [prices[i] EXCEPT !.closed = r] ELSE prices[i]
    BY DEF FinishClosing
  <1>6. \A i \in PriceId : i \in request[r].targets => prices[i] \in PriceRow
    <2> SUFFICES ASSUME NEW i \in PriceId, i \in request[r].targets PROVE prices[i] \in PriceRow
      OBVIOUS
    <2>1. prices[i].opened \in {"committed", r}
      BY DEF PricesInv, ClosesWhatItSees
    <2>2. prices[i] # NoPrice
      BY <2>1 DEF NoPrice
    <2> QED BY <2>2 DEF PricesInv, PricesShape
  <1>7. \A i \in PriceId :
            /\ prices'[i] \in PriceRow \cup {NoPrice}
            /\ prices'[i].slot = prices[i].slot /\ prices'[i].from = prices[i].from
            /\ prices'[i].opened = prices[i].opened
            /\ \/ prices'[i].closed = prices[i].closed
               \/ i \in request[r].targets /\ prices'[i].closed = r
            /\ prices[i].closed # "none" => prices'[i].closed = prices[i].closed
            /\ i \in request[r].targets /\ prices[i].closed = "none" => prices'[i].closed = r
    <2> SUFFICES ASSUME NEW i \in PriceId
                 PROVE  /\ prices'[i] \in PriceRow \cup {NoPrice}
                        /\ prices'[i].slot = prices[i].slot /\ prices'[i].from = prices[i].from
                        /\ prices'[i].opened = prices[i].opened
                        /\ \/ prices'[i].closed = prices[i].closed
                           \/ i \in request[r].targets /\ prices'[i].closed = r
                        /\ prices[i].closed # "none" => prices'[i].closed = prices[i].closed
                        /\ i \in request[r].targets /\ prices[i].closed = "none" =>
                              prices'[i].closed = r
      OBVIOUS
    <2>1. CASE i \in request[r].targets /\ prices[i].closed = "none"
      <3>1. prices[i] \in PriceRow /\ prices'[i] = [prices[i] EXCEPT !.closed = r]
        BY <1>5, <1>6, <2>1
      <3> QED BY <2>1, <3>1 DEF PriceRow
    <2>2. CASE ~(i \in request[r].targets /\ prices[i].closed = "none")
      <3>1. prices'[i] = prices[i]
        BY <1>5, <2>2
      <3> QED BY <2>2, <3>1 DEF PricesInv, PricesShape
    <2> QED BY <2>1, <2>2
  <1>8. PricesShape'
    <2>1. prices' \in [PriceId -> PriceRow \cup {NoPrice}]
      BY <1>7 DEF FinishClosing
    <2> QED BY <2>1, <1>1, <1>2, <1>3 DEF PricesInv, PricesShape
  <1>9. WorkIsThere'
    BY <1>1, <1>3, <1>4 DEF PricesInv, WorkIsThere, AtWork, Proposed
  <1>10. OneHolder'
    <2> SUFFICES ASSUME NEW i \in PriceId, NEW j \in PriceId, i # j,
                        (prices[i].slot = prices[j].slot)',
                        ("none" \notin {prices[i].opened, prices[j].opened})',
                        ("committed" \notin {prices[i].closed, prices[j].closed})'
                 PROVE  HoldersReplace(i, j)'
      BY DEF OneHolder
    <2>1. HoldersReplace(i, j)
      BY <1>7 DEF PricesInv, OneHolder
    <2> QED BY <2>1, <1>7 DEF HoldersReplace
  <1>11. ClosesWhatItSees'
    <2>1. \A s \in Request : request'[s].targets \subseteq request[s].targets \cap PriceId
      BY <1>3, <1>4 DEF PricesInv, PricesShape, Transaction
    <2>2. \A i \in PriceId :
             \/ prices'[i].closed = prices[i].closed
             \/ i \in request[r].targets /\ prices'[i].closed = r
      BY <1>7
    <2>3. \A i \in PriceId : prices'[i].opened = prices[i].opened
      BY <1>7
    <2> QED BY <2>1, <2>2, <2>3 DEF PricesInv, ClosesWhatItSees
  <1>21. IdleHoldsNothing'
    BY <1>3, <1>4, <1>7 DEF PricesInv, IdleHoldsNothing, NoTransaction
  <1>12. CommitLeavesARow'
    <2> SUFFICES ASSUME NEW s \in Request, request'[s].stage = "commit" PROVE LeavesARow(s)'
      BY DEF CommitLeavesARow
    <2>1. s # r /\ LeavesARow(s)
      BY <1>3, <1>4 DEF PricesInv, CommitLeavesARow
    <2>2. PICK i \in PriceId : prices[i].opened = s /\ prices[i].closed \notin {"committed", s}
      BY <2>1 DEF LeavesARow
    <2>3. prices'[i].opened = s /\ prices'[i].closed \notin {"committed", s}
      BY <1>7, <2>1, <2>2
    <2> QED BY <2>3 DEF LeavesARow
  <1>13. \A s \in Request : SharesPlan(s)' = SharesPlan(s) /\ HasPlan(s)' = HasPlan(s)
    BY <1>3, <1>4, <1>7 DEF SharesPlan, HasPlan
  <1>14. PlanIsHeldAlone'
    BY <1>13 DEF PricesInv, PlanIsHeldAlone
  <1>15. HasPlan(r) => {i \in PriceId : prices'[i].closed = r} = request[r].previous
    <2> SUFFICES ASSUME HasPlan(r)
                 PROVE  {i \in PriceId : prices'[i].closed = r} = request[r].previous
      OBVIOUS
    <2>1. ReplacesWhatItRead(r)
      BY DEF PricesInv, SetReplacesWhatItRead
    <2>2. /\ request[r].targets = request[r].previous
          /\ request[r].previous = {i \in CurrentFor(r) : prices[i].slot = request[r].slot}
          /\ \A i \in PriceId : prices[i].closed # r
      BY <1>1, <2>1 DEF ReplacesWhatItRead
    <2>3. \A i \in request[r].targets : prices[i].closed = "none"
      <3> SUFFICES ASSUME NEW i \in request[r].targets PROVE prices[i].closed = "none"
        OBVIOUS
      <3>1. i \in PriceId /\ prices[i] \in PriceRow
        BY <1>1, <1>6 DEF Transaction
      <3>2. prices[i].closed \notin {"committed", r}
        BY <2>2 DEF CurrentFor
      <3>3. \A s \in Request \ {r} : prices[i].closed # s
        BY <1>1 DEF WaitsFor
      <3> QED BY <3>1, <3>2, <3>3 DEF PriceRow
    <2>4. request[r].targets \subseteq PriceId
      BY <1>1 DEF Transaction
    <2> QED BY <1>7, <2>2, <2>3, <2>4
  <1>16. SetReplacesWhatItRead'
    <2> SUFFICES ASSUME NEW s \in Request, HasPlan(s)' PROVE ReplacesWhatItRead(s)'
      BY DEF SetReplacesWhatItRead
    <2>1. HasPlan(s) /\ ReplacesWhatItRead(s)
      BY <1>13 DEF PricesInv, SetReplacesWhatItRead
    <2>2. CASE s = r
      BY <1>3, <1>4, <2>1, <2>2 DEF ReplacesWhatItRead
    <2>3. CASE s # r
      <3>1. request'[s] = request[s]
        BY <1>4, <2>3
      <3>2. /\ CurrentFor(s)' = CurrentFor(s)
            /\ \A i \in PriceId : /\ (prices'[i].opened = s) <=> (prices[i].opened = s)
                                  /\ (prices'[i].closed = s) <=> (prices[i].closed = s)
        BY <1>7, <2>3 DEF CurrentFor
      <3>3. \A i \in CurrentFor(s) : prices'[i].slot = prices[i].slot
        BY <1>7 DEF CurrentFor
      <3> QED BY <2>1, <3>1, <3>2, <3>3 DEF ReplacesWhatItRead
    <2> QED BY <2>2, <2>3
  <1>17. DoneIsOpened'
    BY <1>3, <1>4, <1>7 DEF PricesInv, DoneIsOpened
  <1>18. PricedOnce'
    <2>1. CurrentFor("committed")' = CurrentFor("committed")
      BY <1>7 DEF CurrentFor
    <2>2. \A i \in PriceId : prices'[i].slot = prices[i].slot /\ prices'[i].opened = prices[i].opened
      BY <1>7
    <2> QED BY <2>1, <2>2 DEF PricesInv, PricedOnce, CurrentFor
  <1>19. ApprovedIsPublished'
    BY <1>1, <1>7 DEF PricesInv, ApprovedIsPublished
  <1>20. ReplacedIsReported'
    <2> SUFFICES ASSUME NEW s \in Request, request'[s].kind = "set",
                        request'[s].stage \in {"open", "commit"}
                 PROVE  {i \in PriceId : prices'[i].closed = s} = request'[s].previous
      BY DEF ReplacedIsReported
    <2>1. CASE s = r
      BY <1>3, <1>4, <1>15, <2>1 DEF HasPlan
    <2>2. CASE s # r
      <3>1. {i \in PriceId : prices'[i].closed = s} = {i \in PriceId : prices[i].closed = s}
        BY <1>7, <2>2
      <3> QED BY <1>4, <2>2, <3>1 DEF PricesInv, ReplacedIsReported
    <2> QED BY <2>1, <2>2
  <1> QED BY <1>8, <1>9, <1>10, <1>11, <1>12, <1>14, <1>16, <1>17, <1>18, <1>19, <1>20,
             <1>21 DEF PricesInv

\* the new row takes its slot from those it closed
LEMMA OpenPriceKeeps ==
    ASSUME PricesInv, NEW r \in Request, OpenPrice(r)
    PROVE  PricesInv'
  <1> USE PricesAssumption DEF PricesAssumption
  <1> DEFINE n == NewId
             left == request[r].todo \ {request[r].from}
             done == (request[r].done \cup {request[r].from}) \cap Proposals
             row == [slot |-> request[r].slot, figure |-> request[r].figure,
                     from |-> request[r].from, opened |-> r, closed |-> "none"]
             t == [request[r] EXCEPT !.todo = left, !.done = done,
                       !.stage = IF left = {} THEN "commit" ELSE "next"]
  <1>1. /\ request[r] \in Transaction /\ request[r].stage = "open" /\ WaitsFor(r) = {}
        /\ request[r].figure # "quote" /\ Claimants(r, request[r].slot) = {}
        /\ UNCHANGED proposals
    BY DEF OpenPrice, PricesInv, PricesShape
  <1>2. n \in PriceId /\ prices[n] = NoPrice
    BY DEF OpenPrice, NewId, FreeIds
  <1>3. prices' = [prices EXCEPT ![n] = row] /\ request' = [request EXCEPT ![r] = t]
    BY DEF OpenPrice, NextProposal, PricesInv, PricesShape
  <1>4. /\ request[r].slot \in Slots /\ request[r].figure \in Figures
        /\ request[r].from \in Proposed \cup {"staff"}
        /\ request[r].todo \cup request[r].done \subseteq Proposed
    BY <1>1 DEF PricesInv, WorkIsThere, AtWork
  <1>5. /\ row \in PriceRow /\ row.slot = request[r].slot /\ row.from = request[r].from
        /\ row.opened = r /\ row.closed = "none"
    BY <1>4 DEF PriceRow, Proposed
  <1>6. /\ t \in Transaction /\ t.todo = left /\ t.done = done
        /\ t.stage \in {"commit", "next"} /\ (left = {} => t.stage = "commit")
        /\ t.kind = request[r].kind /\ t.slot = request[r].slot
        /\ t.previous = request[r].previous /\ t.targets = request[r].targets
    BY <1>1 DEF Transaction
  <1>7. left \cup done \subseteq Proposed
    BY <1>4
  <1>8. \A p \in done : p \in request[r].done \/ p = row.from
    BY <1>5
  <1> HIDE DEF n, row, t
  <1>9. /\ prices'[n] = row /\ \A i \in PriceId \ {n} : prices'[i] = prices[i]
        /\ request'[r] = t /\ \A s \in Request \ {r} : request'[s] = request[s]
    BY <1>2, <1>3 DEF PricesInv, PricesShape
  <1>10. /\ prices[n].opened = "none" /\ prices[n].closed = "none" /\ prices[n].slot = "none"
    BY <1>2 DEF NoPrice
  <1>11. \A s \in Request \ {r} : ~HasPlan(s)
    BY <1>1 DEF WaitsFor
  <1>12. PricesShape'
    BY <1>1, <1>2, <1>3, <1>5, <1>6 DEF PricesInv, PricesShape
  <1>13. WorkIsThere'
    <2> SUFFICES ASSUME NEW s \in Request
                 PROVE  /\ (request[s].todo \cup request[s].done \subseteq Proposed)'
                        /\ AtWork(s)' => /\ (request[s].slot \in Slots)'
                                         /\ (request[s].figure \in Figures \cup {"quote"})'
                                         /\ (request[s].from \in Proposed \cup {"staff"})'
      BY DEF WorkIsThere
    <2>1. Proposed' = Proposed
      BY <1>1 DEF Proposed
    <2>2. CASE s = r
      BY <1>6, <1>7, <1>9, <2>1, <2>2 DEF AtWork
    <2>3. CASE s # r
      BY <1>9, <2>1, <2>3 DEF PricesInv, WorkIsThere, AtWork
    <2> QED BY <2>2, <2>3
  \* the slot's other holders are those the transaction itself has closed
  <1>14. OneHolder'
    <2>1. \A i \in PriceId : /\ prices[i].opened # "none" /\ prices[i].slot = row.slot
                             /\ prices[i].closed # "committed"
                             => prices[i].closed = r
      BY <1>1, <1>5 DEF Claimants
    <2> SUFFICES ASSUME NEW i \in PriceId, NEW j \in PriceId, i # j,
                        prices'[i].slot = prices'[j].slot,
                        "none" \notin {prices'[i].opened, prices'[j].opened},
                        "committed" \notin {prices'[i].closed, prices'[j].closed}
                 PROVE  \E s \in Request : \/ prices'[i].closed = s /\ prices'[j].opened = s
                                           \/ prices'[j].closed = s /\ prices'[i].opened = s
      BY DEF OneHolder, HoldersReplace
    <2>2. CASE i = n
      BY <1>5, <1>9, <2>1, <2>2
    <2>3. CASE j = n
      BY <1>5, <1>9, <2>1, <2>3
    <2>4. CASE i # n /\ j # n
      BY <1>9, <2>4 DEF PricesInv, OneHolder, HoldersReplace
    <2> QED BY <2>2, <2>3, <2>4
  <1>15. ClosesWhatItSees'
    <2>1. \A s \in Request : request'[s].targets = request[s].targets
      BY <1>6, <1>9
    <2>2. \A i \in PriceId : prices'[i].closed \in Request =>
                                prices'[i].opened \in {"committed", prices'[i].closed}
      BY <1>5, <1>9 DEF PricesInv, ClosesWhatItSees
    <2>3. \A s \in Request : \A i \in request[s].targets : i # n /\ i \in PriceId
      BY <1>10 DEF PricesInv, ClosesWhatItSees, PricesShape, Transaction
    <2>4. \A s \in Request : \A i \in request'[s].targets : prices'[i].opened \in {"committed", s}
      BY <1>9, <2>1, <2>3 DEF PricesInv, ClosesWhatItSees
    <2> QED BY <2>2, <2>4 DEF ClosesWhatItSees
  <1>16. IdleHoldsNothing'
    BY <1>5, <1>6, <1>9 DEF PricesInv, IdleHoldsNothing, NoTransaction
  <1>17. CommitLeavesARow'
    <2> SUFFICES ASSUME NEW s \in Request, request'[s].stage = "commit"
                 PROVE  \E i \in PriceId : prices'[i].opened = s
                                           /\ prices'[i].closed \notin {"committed", s}
      BY DEF CommitLeavesARow, LeavesARow
    <2>1. CASE s = r
      BY <1>2, <1>5, <1>9, <2>1
    <2>2. CASE s # r
      <3>1. PICK i \in PriceId : prices[i].opened = s /\ prices[i].closed \notin {"committed", s}
        BY <1>9, <2>2 DEF PricesInv, CommitLeavesARow, LeavesARow
      <3>2. i # n
        BY <1>10, <3>1
      <3> QED BY <1>9, <3>1, <3>2
    <2> QED BY <2>1, <2>2
  <1>18. PlanIsHeldAlone'
    <2>1. \A s \in Request : HasPlan(s)' = HasPlan(s)
      BY <1>6, <1>9 DEF HasPlan
    <2>2. \A s \in Request \ {r} : SharesPlan(s)' => SharesPlan(s)
      BY <1>5, <1>9 DEF SharesPlan
    <2> QED BY <1>11, <2>1, <2>2 DEF PricesInv, PlanIsHeldAlone
  <1>19. \A s \in Request : {i \in PriceId : prices'[i].closed = s}
                            = {i \in PriceId : prices[i].closed = s}
    BY <1>5, <1>9, <1>10
  <1>20. SetReplacesWhatItRead'
    <2> SUFFICES ASSUME NEW s \in Request, HasPlan(s)' PROVE ReplacesWhatItRead(s)'
      BY DEF SetReplacesWhatItRead
    <2>1. s = r /\ HasPlan(r)
      BY <1>6, <1>9, <1>11 DEF HasPlan
    <2>2. request[r].todo = {}
      BY <2>1 DEF PricesInv, SetReplacesWhatItRead, ReplacesWhatItRead
    <2> QED BY <1>6, <1>9, <2>1, <2>2 DEF ReplacesWhatItRead
  <1>21. DoneIsOpened'
    <2> SUFFICES ASSUME NEW s \in Request, NEW p \in request'[s].done
                 PROVE  \E i \in PriceId : prices'[i].opened = s /\ prices'[i].from = p
      BY DEF DoneIsOpened
    <2>1. CASE p \in request[s].done
      <3>1. PICK i \in PriceId : prices[i].opened = s /\ prices[i].from = p
        BY <2>1 DEF PricesInv, DoneIsOpened
      <3>2. i # n
        BY <1>10, <3>1
      <3> QED BY <1>9, <3>1, <3>2
    <2>2. CASE p \notin request[s].done
      <3>1. s = r /\ p = row.from
        BY <1>6, <1>8, <1>9, <2>2
      <3> QED BY <1>2, <1>5, <1>9, <3>1
    <2> QED BY <2>1, <2>2
  <1>22. PricedOnce'
    <2>1. CurrentFor("committed")' = CurrentFor("committed")
      BY <1>5, <1>9, <1>10 DEF CurrentFor
    <2>2. \A i \in CurrentFor("committed") : i # n
      BY <1>10 DEF CurrentFor
    <2>3. \A i \in PriceId : prices'[i].opened = "committed" => prices[i].opened = "committed"
      BY <1>5, <1>9
    <2> QED BY <1>9, <2>1, <2>2, <2>3 DEF PricesInv, PricedOnce, CurrentFor
  <1>23. ReplacedIsReported'
    <2> SUFFICES ASSUME NEW s \in Request, request'[s].kind = "set",
                        request'[s].stage \in {"open", "commit"}
                 PROVE  {i \in PriceId : prices'[i].closed = s} = request'[s].previous
      BY DEF ReplacedIsReported
    <2>1. s = r
      BY <1>9, <1>11 DEF HasPlan
    <2> QED BY <1>1, <1>6, <1>9, <1>19, <2>1 DEF PricesInv, ReplacedIsReported
  <1>24. ApprovedIsPublished'
    <2> SUFFICES ASSUME NEW p \in Proposals, proposals[p].status = "approved"
                 PROVE  \E i \in PriceId : prices'[i].opened = "committed" /\ prices'[i].from = p
      BY <1>1 DEF ApprovedIsPublished
    <2>1. PICK i \in PriceId : prices[i].opened = "committed" /\ prices[i].from = p
      BY DEF PricesInv, ApprovedIsPublished
    <2>2. i # n
      BY <1>10, <2>1
    <2> QED BY <1>9, <2>1, <2>2
  <1> QED BY <1>12, <1>13, <1>14, <1>15, <1>16, <1>17, <1>18, <1>20, <1>21, <1>22, <1>23,
             <1>24 DEF PricesInv

\* a transaction that ends is forgotten: as if it had not been, or for good
LEMMA EndedTransaction ==
    ASSUME PricesInv, NEW r \in Request, request' = [request EXCEPT ![r] = NoTransaction]
    PROVE  /\ request' \in [Request -> Transaction]
           /\ request'[r] = NoTransaction /\ \A s \in Request \ {r} : request'[s] = request[s]
           /\ NoTransaction.kind = "none" /\ NoTransaction.stage = "none"
           /\ NoTransaction.todo = {} /\ NoTransaction.done = {} /\ NoTransaction.targets = {}
  BY DEF PricesInv, PricesShape, NoTransaction, Transaction

LEMMA UndoneKeeps ==
    ASSUME PricesInv, NEW r \in Request, Undone(r)
    PROVE  PricesInv'
  <1> USE PricesAssumption DEF PricesAssumption
  <1>1. /\ request' \in [Request -> Transaction]
        /\ request'[r] = NoTransaction /\ \A s \in Request \ {r} : request'[s] = request[s]
        /\ NoTransaction.kind = "none" /\ NoTransaction.stage = "none"
        /\ NoTransaction.todo = {} /\ NoTransaction.done = {} /\ NoTransaction.targets = {}
        /\ UNCHANGED proposals
    BY EndedTransaction DEF Undone
  <1>2. \A i \in PriceId : prices[i].opened = r => prices'[i] = NoPrice
    BY DEF Undone
  <1>3. \A i \in PriceId : prices[i].opened # r =>
            /\ prices'[i] \in PriceRow \cup {NoPrice}
            /\ prices'[i].slot = prices[i].slot /\ prices'[i].from = prices[i].from
            /\ prices'[i].opened = prices[i].opened
            /\ prices[i].closed = r => prices'[i].closed = "none"
            /\ prices[i].closed # r => prices'[i].closed = prices[i].closed
    <2> SUFFICES ASSUME NEW i \in PriceId, prices[i].opened # r
                 PROVE  /\ prices'[i] \in PriceRow \cup {NoPrice}
                        /\ prices'[i].slot = prices[i].slot /\ prices'[i].from = prices[i].from
                        /\ prices'[i].opened = prices[i].opened
                        /\ prices[i].closed = r => prices'[i].closed = "none"
                        /\ prices[i].closed # r => prices'[i].closed = prices[i].closed
      OBVIOUS
    <2>1. prices[i] \in PriceRow \cup {NoPrice}
      BY DEF PricesInv, PricesShape
    <2>2. CASE prices[i].closed = r
      <3>1. prices'[i] = [prices[i] EXCEPT !.closed = "none"] /\ prices[i] # NoPrice
        BY <2>2 DEF Undone, NoPrice
      <3> QED BY <2>1, <2>2, <3>1 DEF PriceRow
    <2>3. CASE prices[i].closed # r
      <3>1. prices'[i] = prices[i]
        BY <2>3 DEF Undone
      <3> QED BY <2>1, <2>3, <3>1
    <2> QED BY <2>2, <2>3
  <1>4. NoPrice.opened = "none" /\ NoPrice.closed = "none"
    BY DEF NoPrice
  \* a row that is left was there, and had been opened by somebody else
  <1>5. \A i \in PriceId : prices'[i].opened # "none" =>
            /\ prices[i].opened # r /\ prices'[i].opened = prices[i].opened
    BY <1>2, <1>3, <1>4
  <1>6. PricesShape'
    <2>1. prices' \in [PriceId -> PriceRow \cup {NoPrice}]
      BY <1>2, <1>3 DEF Undone
    <2> QED BY <1>1, <2>1 DEF PricesInv, PricesShape
  <1>7. WorkIsThere'
    <2>1. Proposed' = Proposed
      BY <1>1 DEF Proposed
    <2> QED BY <1>1, <2>1 DEF PricesInv, WorkIsThere, AtWork
  <1>8. OneHolder'
    <2> SUFFICES ASSUME NEW i \in PriceId, NEW j \in PriceId, i # j,
                        prices'[i].slot = prices'[j].slot,
                        "none" \notin {prices'[i].opened, prices'[j].opened},
                        "committed" \notin {prices'[i].closed, prices'[j].closed}
                 PROVE  \E s \in Request : \/ prices'[i].closed = s /\ prices'[j].opened = s
                                           \/ prices'[j].closed = s /\ prices'[i].opened = s
      BY DEF OneHolder, HoldersReplace
    <2>1. /\ prices[i].opened # r /\ prices[j].opened # r
          /\ prices[i].opened # "none" /\ prices[j].opened # "none"
      BY <1>5
    <2>2. prices[i].slot = prices[j].slot
          /\ "committed" \notin {prices[i].closed, prices[j].closed}
      BY <1>3, <2>1
    <2>3. PICK s \in Request : \/ prices[i].closed = s /\ prices[j].opened = s
                               \/ prices[j].closed = s /\ prices[i].opened = s
      BY <2>1, <2>2 DEF PricesInv, OneHolder, HoldersReplace
    <2> QED BY <1>3, <2>1, <2>3
  <1>9. ClosesWhatItSees'
    <2>1. \A i \in PriceId : prices'[i].closed \in Request =>
                                prices'[i].opened \in {"committed", prices'[i].closed}
      BY <1>2, <1>3, <1>4 DEF PricesInv, ClosesWhatItSees
    <2>2. \A s \in Request \ {r} : \A i \in request[s].targets :
              i \in PriceId /\ prices[i].opened \in {"committed", s}
      BY DEF PricesInv, ClosesWhatItSees, PricesShape, Transaction
    <2>3. \A s \in Request : \A i \in request'[s].targets : prices'[i].opened \in {"committed", s}
      BY <1>1, <1>3, <2>2
    <2> QED BY <2>1, <2>3 DEF ClosesWhatItSees
  <1>10. IdleHoldsNothing'
    BY <1>1, <1>2, <1>3, <1>4 DEF PricesInv, IdleHoldsNothing
  <1>11. CommitLeavesARow'
    <2> SUFFICES ASSUME NEW s \in Request, request'[s].stage = "commit"
                 PROVE  \E i \in PriceId : prices'[i].opened = s
                                           /\ prices'[i].closed \notin {"committed", s}
      BY DEF CommitLeavesARow, LeavesARow
    <2>1. s # r
      BY <1>1
    <2>2. PICK i \in PriceId : prices[i].opened = s /\ prices[i].closed \notin {"committed", s}
      BY <1>1, <2>1 DEF PricesInv, CommitLeavesARow, LeavesARow
    <2> QED BY <1>3, <2>1, <2>2
  <1>12. \A s \in Request : /\ HasPlan(s)' => HasPlan(s) /\ s # r
                            /\ SharesPlan(s)' => SharesPlan(s)
    BY <1>1, <1>5 DEF HasPlan, SharesPlan
  <1>13. PlanIsHeldAlone'
    BY <1>12 DEF PricesInv, PlanIsHeldAlone
  \* while a request holds the plan, what is undone had opened no row
  <1>14. \A s \in Request : HasPlan(s)' =>
            \A i \in PriceId : /\ prices'[i].slot = prices[i].slot
                               /\ (prices'[i].opened = s) <=> (prices[i].opened = s)
                               /\ (prices'[i].closed = s) <=> (prices[i].closed = s)
                               /\ (i \in CurrentFor(s)') <=> (i \in CurrentFor(s))
    <2> SUFFICES ASSUME NEW s \in Request, HasPlan(s)', NEW i \in PriceId
                 PROVE  /\ prices'[i].slot = prices[i].slot
                        /\ (prices'[i].opened = s) <=> (prices[i].opened = s)
                        /\ (prices'[i].closed = s) <=> (prices[i].closed = s)
                        /\ (i \in CurrentFor(s)') <=> (i \in CurrentFor(s))
      OBVIOUS
    <2>1. s # r /\ ~SharesPlan(r)
      BY <1>12 DEF PricesInv, PlanIsHeldAlone
    <2>2. prices[i].opened # r
      BY <2>1 DEF SharesPlan
    <2>3. /\ prices'[i].slot = prices[i].slot /\ prices'[i].opened = prices[i].opened
          /\ prices[i].closed = r => prices'[i].closed = "none"
          /\ prices[i].closed # r => prices'[i].closed = prices[i].closed
      BY <1>3, <2>2
    <2> QED BY <2>1, <2>3 DEF CurrentFor
  <1>15. SetReplacesWhatItRead'
    <2> SUFFICES ASSUME NEW s \in Request, HasPlan(s)' PROVE ReplacesWhatItRead(s)'
      BY DEF SetReplacesWhatItRead
    <2>1. request'[s] = request[s] /\ ReplacesWhatItRead(s)
      BY <1>1, <1>12 DEF PricesInv, SetReplacesWhatItRead
    <2>2. {i \in CurrentFor(s) : prices[i].slot = request[s].slot}'
          = {i \in CurrentFor(s) : prices[i].slot = request[s].slot}
      BY <1>14, <2>1 DEF CurrentFor
    <2> QED BY <1>14, <2>1, <2>2 DEF ReplacesWhatItRead
  <1>16. DoneIsOpened'
    <2> SUFFICES ASSUME NEW s \in Request, NEW p \in request'[s].done
                 PROVE  \E i \in PriceId : prices'[i].opened = s /\ prices'[i].from = p
      BY DEF DoneIsOpened
    <2>1. s # r
      BY <1>1
    <2>2. PICK i \in PriceId : prices[i].opened = s /\ prices[i].from = p
      BY <1>1, <2>1 DEF PricesInv, DoneIsOpened
    <2> QED BY <1>3, <2>1, <2>2
  \* no committed row is touched, but for one the transaction was to close
  <1>17. PricedOnce'
    <2>1. CurrentFor("committed")' = CurrentFor("committed")
      <3> SUFFICES ASSUME NEW i \in PriceId
                   PROVE  (i \in CurrentFor("committed")') <=> (i \in CurrentFor("committed"))
        BY DEF CurrentFor
      <3>1. CASE prices[i].opened = r
        BY <1>2, <1>4, <3>1 DEF CurrentFor
      <3>2. CASE prices[i].opened # r
        BY <1>3, <3>2 DEF CurrentFor
      <3> QED BY <3>1, <3>2
    <2>2. \A i \in PriceId : prices[i].opened = "committed" =>
              prices'[i].slot = prices[i].slot
      BY <1>3
    <2>3. \A i \in PriceId : prices'[i].opened = "committed" => prices[i].opened = "committed"
      BY <1>5
    <2> QED BY <2>1, <2>2, <2>3 DEF PricesInv, PricedOnce, CurrentFor
  <1>18. ReplacedIsReported'
    <2> SUFFICES ASSUME NEW s \in Request, request'[s].kind = "set",
                        request'[s].stage \in {"open", "commit"}
                 PROVE  {i \in PriceId : prices'[i].closed = s} = request'[s].previous
      BY DEF ReplacedIsReported
    <2>1. HasPlan(s)' /\ request'[s] = request[s]
      BY <1>1 DEF HasPlan
    <2> QED BY <1>14, <2>1 DEF PricesInv, ReplacedIsReported
  <1>19. ApprovedIsPublished'
    <2> SUFFICES ASSUME NEW p \in Proposals, proposals[p].status = "approved"
                 PROVE  \E i \in PriceId : prices'[i].opened = "committed" /\ prices'[i].from = p
      BY <1>1 DEF ApprovedIsPublished
    <2>1. PICK i \in PriceId : prices[i].opened = "committed" /\ prices[i].from = p
      BY DEF PricesInv, ApprovedIsPublished
    <2> QED BY <1>3, <2>1
  <1> QED BY <1>6, <1>7, <1>8, <1>9, <1>10, <1>11, <1>13, <1>15, <1>16, <1>17, <1>18, <1>19
          DEF PricesInv

\* who commits has opened a row, so nobody else holds the plan meanwhile
LEMMA CommitKeeps ==
    ASSUME PricesInv, NEW r \in Request, Commit(r)
    PROVE  PricesInv'
  <1> USE PricesAssumption DEF PricesAssumption
  <1>1. /\ request' \in [Request -> Transaction]
        /\ request'[r] = NoTransaction /\ \A s \in Request \ {r} : request'[s] = request[s]
        /\ NoTransaction.kind = "none" /\ NoTransaction.stage = "none"
        /\ NoTransaction.todo = {} /\ NoTransaction.done = {} /\ NoTransaction.targets = {}
        /\ request[r].stage = "commit"
    BY EndedTransaction DEF Commit
  <1>2. PICK own \in PriceId :
            prices[own].opened = r /\ prices[own].closed \notin {"committed", r}
    BY <1>1 DEF PricesInv, CommitLeavesARow, LeavesARow
  <1>3. \A s \in Request : HasPlan(s)' => s = r
    BY <1>1, <1>2 DEF PricesInv, PlanIsHeldAlone, HasPlan, SharesPlan
  <1>4. \A s \in Request : ~HasPlan(s)'
    BY <1>1, <1>3 DEF HasPlan
  <1>5. \A i \in PriceId :
            /\ prices'[i] \in PriceRow \cup {NoPrice}
            /\ prices'[i].slot = prices[i].slot /\ prices'[i].from = prices[i].from
            /\ prices[i].opened = r => prices'[i].opened = "committed"
            /\ prices[i].opened # r => prices'[i].opened = prices[i].opened
            /\ prices[i].closed = r => prices'[i].closed = "committed"
            /\ prices[i].closed # r => prices'[i].closed = prices[i].closed
    <2> SUFFICES ASSUME NEW i \in PriceId
                 PROVE  /\ prices'[i] \in PriceRow \cup {NoPrice}
                        /\ prices'[i].slot = prices[i].slot /\ prices'[i].from = prices[i].from
                        /\ prices[i].opened = r => prices'[i].opened = "committed"
                        /\ prices[i].opened # r => prices'[i].opened = prices[i].opened
                        /\ prices[i].closed = r => prices'[i].closed = "committed"
                        /\ prices[i].closed # r => prices'[i].closed = prices[i].closed
      OBVIOUS
    <2> DEFINE opened == IF prices[i].opened = r THEN "committed" ELSE prices[i].opened
               closed == IF prices[i].closed = r THEN "committed" ELSE prices[i].closed
    <2>1. prices'[i] = [prices[i] EXCEPT !.opened = opened, !.closed = closed]
      BY DEF Commit
    <2>2. CASE prices[i] = NoPrice
      <3>1. opened = prices[i].opened /\ closed = prices[i].closed
        BY <2>2 DEF NoPrice
      <3>2. prices'[i] = NoPrice
        BY <2>1, <2>2, <3>1 DEF NoPrice
      <3> QED BY <2>2, <3>2 DEF NoPrice
    <2>3. CASE prices[i] \in PriceRow
      <3>1. opened \in Request \cup {"committed"} /\ closed \in Request \cup {"committed", "none"}
        BY <2>3 DEF PriceRow
      <3> HIDE DEF opened, closed
      <3>2. /\ prices'[i] \in PriceRow
            /\ prices'[i].slot = prices[i].slot /\ prices'[i].from = prices[i].from
            /\ prices'[i].opened = opened /\ prices'[i].closed = closed
        BY <2>1, <2>3, <3>1 DEF PriceRow
      <3> QED BY <3>2 DEF opened, closed
    <2> QED BY <2>2, <2>3 DEF PricesInv, PricesShape
  <1>6. \A p \in Proposals :
            /\ proposals'[p] \in ProposalRow \cup {NoProposal}
            /\ p \in Proposed => proposals'[p] # NoProposal
            /\ proposals'[p].status = "approved" =>
                  p \in request[r].done \/ proposals[p].status = "approved"
    <2> SUFFICES ASSUME NEW p \in Proposals
                 PROVE  /\ proposals'[p] \in ProposalRow \cup {NoProposal}
                        /\ p \in Proposed => proposals'[p] # NoProposal
                        /\ proposals'[p].status = "approved" =>
                              p \in request[r].done \/ proposals[p].status = "approved"
      OBVIOUS
    <2>1. CASE p \in request[r].done /\ proposals[p].status # "withdrawn"
      <3>1. proposals'[p] = [proposals[p] EXCEPT !.status = "approved"]
        BY <2>1 DEF Commit
      <3>2. proposals[p] \in ProposalRow
        BY <2>1 DEF PricesInv, PricesShape, WorkIsThere, Proposed
      <3>3. proposals'[p] \in ProposalRow /\ proposals'[p].status = "approved"
        BY <3>1, <3>2 DEF ProposalRow
      <3> QED BY <2>1, <3>3 DEF NoProposal
    <2>2. CASE ~(p \in request[r].done /\ proposals[p].status # "withdrawn")
      <3>1. proposals'[p] = proposals[p]
        BY <2>2 DEF Commit
      <3> QED BY <3>1 DEF PricesInv, PricesShape, Proposed
    <2> QED BY <2>1, <2>2
  <1>7. NoPrice.opened = "none" /\ NoPrice.closed = "none"
    BY DEF NoPrice
  <1>8. PricesShape'
    <2>1. /\ prices' \in [PriceId -> PriceRow \cup {NoPrice}]
          /\ proposals' \in [Proposals -> ProposalRow \cup {NoProposal}]
      BY <1>5, <1>6 DEF Commit
    <2> QED BY <1>1, <2>1 DEF PricesShape
  <1>9. WorkIsThere'
    <2>1. Proposed \subseteq Proposed'
      BY <1>6 DEF Proposed
    <2> QED BY <1>1, <2>1 DEF PricesInv, WorkIsThere, AtWork
  <1>10. OneHolder'
    <2> SUFFICES ASSUME NEW i \in PriceId, NEW j \in PriceId, i # j,
                        prices'[i].slot = prices'[j].slot,
                        "none" \notin {prices'[i].opened, prices'[j].opened},
                        "committed" \notin {prices'[i].closed, prices'[j].closed}
                 PROVE  \E s \in Request : \/ prices'[i].closed = s /\ prices'[j].opened = s
                                           \/ prices'[j].closed = s /\ prices'[i].opened = s
      BY DEF OneHolder, HoldersReplace
    <2>1. /\ prices[i].closed # r /\ prices[j].closed # r
          /\ "committed" \notin {prices[i].closed, prices[j].closed}
      BY <1>5
    <2>2. prices[i].slot = prices[j].slot /\ "none" \notin {prices[i].opened, prices[j].opened}
      BY <1>5
    <2>3. PICK s \in Request : \/ prices[i].closed = s /\ prices[j].opened = s
                               \/ prices[j].closed = s /\ prices[i].opened = s
      BY <2>1, <2>2 DEF PricesInv, OneHolder, HoldersReplace
    <2>4. s # r
      BY <2>1, <2>3
    <2> QED BY <1>5, <2>3, <2>4
  <1>11. ClosesWhatItSees'
    <2>1. \A i \in PriceId : prices'[i].closed \in Request =>
                                prices'[i].opened \in {"committed", prices'[i].closed}
      BY <1>5 DEF PricesInv, ClosesWhatItSees
    <2>2. \A s \in Request \ {r} : \A i \in request[s].targets :
              i \in PriceId /\ prices[i].opened \in {"committed", s}
      BY DEF PricesInv, ClosesWhatItSees, PricesShape, Transaction
    <2>3. \A s \in Request : \A i \in request'[s].targets : prices'[i].opened \in {"committed", s}
      BY <1>1, <1>5, <2>2
    <2> QED BY <2>1, <2>3 DEF ClosesWhatItSees
  <1>12. \A i \in PriceId, s \in Request : prices'[i].opened = s => prices[i].opened = s /\ s # r
    BY <1>5
  <1>13. \A i \in PriceId, s \in Request : prices'[i].closed = s => prices[i].closed = s /\ s # r
    BY <1>5
  <1>14. IdleHoldsNothing'
    BY <1>1, <1>12, <1>13 DEF PricesInv, IdleHoldsNothing
  <1>15. CommitLeavesARow'
    <2> SUFFICES ASSUME NEW s \in Request, request'[s].stage = "commit"
                 PROVE  \E i \in PriceId : prices'[i].opened = s
                                           /\ prices'[i].closed \notin {"committed", s}
      BY DEF CommitLeavesARow, LeavesARow
    <2>1. s # r
      BY <1>1
    <2>2. PICK i \in PriceId : prices[i].opened = s /\ prices[i].closed \notin {"committed", s}
      BY <1>1, <2>1 DEF PricesInv, CommitLeavesARow, LeavesARow
    \* what the transaction closed it had opened itself, or found committed
    <2>3. prices[i].closed # r
      BY <2>1, <2>2 DEF PricesInv, ClosesWhatItSees
    <2> QED BY <1>5, <2>1, <2>2, <2>3
  <1>16. PlanIsHeldAlone' /\ SetReplacesWhatItRead' /\ ReplacedIsReported'
    BY <1>4 DEF PlanIsHeldAlone, SetReplacesWhatItRead, ReplacedIsReported, HasPlan
  <1>17. DoneIsOpened'
    <2> SUFFICES ASSUME NEW s \in Request, NEW p \in request'[s].done
                 PROVE  \E i \in PriceId : prices'[i].opened = s /\ prices'[i].from = p
      BY DEF DoneIsOpened
    <2>1. s # r
      BY <1>1
    <2>2. PICK i \in PriceId : prices[i].opened = s /\ prices[i].from = p
      BY <1>1, <2>1 DEF PricesInv, DoneIsOpened
    <2> QED BY <1>5, <2>1, <2>2
  <1>18. PricedOnce'
    <2>1. \A i, j \in CurrentFor("committed")' : prices'[i].slot = prices'[j].slot => i = j
      BY <1>10 DEF OneHolder, HoldersReplace, CurrentFor
    <2>2. own \in CurrentFor("committed")'
      BY <1>2, <1>5 DEF CurrentFor
    <2> QED BY <2>1, <2>2 DEF PricedOnce, CurrentFor
  <1>19. ApprovedIsPublished'
    <2> SUFFICES ASSUME NEW p \in Proposals, proposals'[p].status = "approved"
                 PROVE  \E i \in PriceId : prices'[i].opened = "committed" /\ prices'[i].from = p
      BY DEF ApprovedIsPublished
    <2>1. PICK i \in PriceId : prices[i].opened \in {"committed", r} /\ prices[i].from = p
      BY <1>6 DEF PricesInv, ApprovedIsPublished, DoneIsOpened
    <2> QED BY <1>5, <2>1
  <1> QED BY <1>8, <1>9, <1>10, <1>11, <1>14, <1>15, <1>16, <1>17, <1>18, <1>19 DEF PricesInv

\* owners and editors write proposals only, and approve none
LEMMA ProposalsKeep ==
    ASSUME PricesInv, UNCHANGED <<prices, request>>,
           proposals' \in [Proposals -> ProposalRow \cup {NoProposal}],
           \A p \in Proposals : /\ p \in Proposed => proposals'[p] # NoProposal
                                /\ proposals'[p].status = "approved" =>
                                      proposals[p].status = "approved"
    PROVE  PricesInv'
  <1>1. PricesShape'
    BY DEF PricesInv, PricesShape
  <1>2. WorkIsThere'
    <2>1. Proposed \subseteq Proposed'
      BY DEF Proposed
    <2> QED BY <2>1 DEF PricesInv, WorkIsThere, AtWork
  <1>3. OneHolder' /\ ClosesWhatItSees' /\ IdleHoldsNothing' /\ CommitLeavesARow'
    BY DEF PricesInv, OneHolder, HoldersReplace, ClosesWhatItSees, IdleHoldsNothing,
           CommitLeavesARow, LeavesARow
  <1>4. PlanIsHeldAlone' /\ SetReplacesWhatItRead' /\ DoneIsOpened'
    BY DEF PricesInv, PlanIsHeldAlone, HasPlan, SharesPlan, SetReplacesWhatItRead,
           ReplacesWhatItRead, CurrentFor, DoneIsOpened
  <1>5. PricedOnce' /\ ReplacedIsReported' /\ ApprovedIsPublished'
    BY DEF PricesInv, PricedOnce, CurrentFor, ReplacedIsReported, ApprovedIsPublished
  <1> QED BY <1>1, <1>2, <1>3, <1>4, <1>5 DEF PricesInv

LEMMA ProposingKeeps ==
    ASSUME PricesInv, NEW p \in Proposals,
           \/ \E slot \in BaseSlots, figure \in Figures \cup {"quote"} : Propose(p, slot, figure)
           \/ Withdraw(p) \/ Reject(p)
    PROVE  PricesInv'
  <1>1. CASE \E slot \in BaseSlots, figure \in Figures \cup {"quote"} : Propose(p, slot, figure)
    <2>1. PICK slot \in BaseSlots, figure \in Figures \cup {"quote"} : Propose(p, slot, figure)
      BY <1>1
    <2> DEFINE row == [slot |-> slot, figure |-> figure, status |-> "pending"]
    <2>2. row \in ProposalRow /\ row.status = "pending"
      BY DEF ProposalRow
    <2>3. row # NoProposal
      BY <2>2 DEF NoProposal
    <2>4. proposals' = [proposals EXCEPT ![p] = row] /\ UNCHANGED <<prices, request>>
      BY <2>1 DEF Propose
    <2> HIDE DEF row
    <2> QED BY <2>2, <2>3, <2>4, ProposalsKeep DEF PricesInv, PricesShape, Proposed
  <1>2. ASSUME NEW status \in {"withdrawn", "rejected"}, proposals[p].status # "none",
               proposals' = [proposals EXCEPT ![p].status = status],
               UNCHANGED <<prices, request>>
        PROVE  PricesInv'
    <2> DEFINE row == [proposals[p] EXCEPT !.status = status]
    <2>1. proposals[p] \in ProposalRow
      BY <1>2 DEF PricesInv, PricesShape, NoProposal
    <2>2. row \in ProposalRow /\ row.status = status
      BY <2>1 DEF ProposalRow
    <2>3. row # NoProposal
      BY <2>2 DEF NoProposal
    <2>4. proposals' = [proposals EXCEPT ![p] = row]
      BY <1>2 DEF PricesInv, PricesShape
    <2> HIDE DEF row
    <2> QED BY <1>2, <2>2, <2>3, <2>4, ProposalsKeep DEF PricesInv, PricesShape, Proposed
  <1>3. CASE Withdraw(p)
    BY <1>2, <1>3 DEF Withdraw
  <1>4. CASE Reject(p)
    BY <1>2, <1>4 DEF Reject
  <1> QED BY <1>1, <1>3, <1>4

LEMMA PricesNextInv == PricesInv /\ [PricesNext]_priceVars => PricesInv'
  <1> SUFFICES ASSUME PricesInv, [PricesNext]_priceVars PROVE PricesInv'
    OBVIOUS
  <1>1. ASSUME NEW r \in Request, NEW slot \in Slots, NEW figure \in Figures,
               LockPlan(r, slot, figure)
        PROVE  PricesInv'
    BY <1>1, LockPlanKeeps
  <1>2. ASSUME NEW r \in Request, NEW chosen \in SUBSET Proposals, ReadProposals(r, chosen)
        PROVE  PricesInv'
    BY <1>2, ReadProposalsKeeps
  <1>3. ASSUME NEW r \in Request, TransactionSteps(r) PROVE PricesInv'
    BY <1>3, TakeProposalKeeps, StartClosingKeeps, FinishClosingKeeps, OpenPriceKeeps,
       UndoneKeeps, CommitKeeps DEF TransactionSteps, Refused
  <1>4. ASSUME NEW r \in Request, RollBack(r) PROVE PricesInv'
    BY <1>4, UndoneKeeps DEF RollBack
  <1>5. CASE BreakDeadlock
    BY <1>5, UndoneKeeps DEF BreakDeadlock
  <1>6. ASSUME NEW p \in Proposals,
               \/ \E slot \in BaseSlots, figure \in Figures \cup {"quote"} :
                     Propose(p, slot, figure)
               \/ Withdraw(p) \/ Reject(p)
        PROVE  PricesInv'
    BY <1>6, ProposingKeeps
  <1>7. CASE UNCHANGED priceVars
    <2>1. \A p \in Proposals : p \in Proposed => proposals'[p] # NoProposal
      BY <1>7 DEF priceVars, Proposed
    <2> QED BY <1>7, <2>1, ProposalsKeep DEF priceVars, PricesInv, PricesShape
  <1> QED BY <1>1, <1>2, <1>3, <1>4, <1>5, <1>6, <1>7 DEF PricesNext

----------------------------------------------------------------------------
\* ListingRows

\* column values, and lists of facets, of some of a listing's attributes
Datum == Values \cup SUBSET Facets
Changes == {c \in UNION {[D -> Datum] : D \in SUBSET Attributes} : Holds(c)}
RevisionRow == [origin : {"owner", "staff"}, changes : Changes, base : Changes,
                status : {"submitted", "approved", "rejected"}]
Writing == [kind : {"none", "edit", "add", "remove", "propose", "apply"}, changes : Changes,
            before : Changes, facet : Facets \cup {"none"}, revision : Nat]

RowsShape ==
    /\ history \in Histories
    /\ listing \in Changes /\ DOMAIN listing = Attributes
    /\ revisions \in Seq(RevisionRow)
    /\ \A n \in DOMAIN revisions : DOMAIN revisions[n].changes = DOMAIN revisions[n].base
    /\ writing \in [Writer -> Writing]
    /\ \A r \in Writer :
          /\ writing[r].revision \in 0..Len(revisions)
          /\ writing[r] # NoWriting => writing[r].kind # "none"
          /\ writing[r].kind \in {"add", "remove"} =>
                writing[r].facet \in Facets /\ DOMAIN writing[r].before = {"facet_slugs"}
          /\ writing[r].kind = "edit" => DOMAIN writing[r].before \subseteq Fields
          /\ writing[r].kind \in {"edit", "propose"} =>
                DOMAIN writing[r].before = DOMAIN writing[r].changes

\* what the open requests will record has room
RoomIsLeft == Len(revisions) + Cardinality(Recording) <= history.made

\* what waits for review, or is being applied, was proposed by an owner
OwnersWait == \A n \in DOMAIN revisions : revisions[n].status = "submitted" =>
                                             revisions[n].origin = "owner"
AppliesAProposal(r) ==
    LET n == writing[r].revision IN
    /\ n \in DOMAIN revisions /\ revisions[n].origin = "owner"
    /\ writing[r].changes = revisions[n].changes
ApplyingAProposal == \A r \in Writer : writing[r].kind = "apply" => AppliesAProposal(r)

\* nothing changed since the request read it
StillAsRead(r) == \A f \in DOMAIN writing[r].before : writing[r].before[f] = listing[f]
EditIsLocked ==
    /\ \A r \in Writer : writing[r].kind = "edit" => StillAsRead(r)
    /\ \A r, s \in Writer : writing[r].kind = "edit" /\ writing[s].kind = "edit" => r = s

\* a request that has the listing to itself
HasItAlone(r) ==
    /\ \A s \in Writer : writing[s] # NoWriting => s = r
    /\ StillAsRead(r)
    /\ writing[r].kind = "apply" =>
          LET n == writing[r].revision IN
          revisions[n].status # "approved" /\ Conflicting(n) = {}
AloneIsUndisturbed ==
    history.atOnce = 1 => \A r \in Writer : writing[r] # NoWriting => HasItAlone(r)

RowsInv ==
    /\ RowsShape /\ RoomIsLeft /\ OwnersWait /\ ApplyingAProposal /\ EditIsLocked
    /\ AloneIsUndisturbed

----------------------------------------------------------------------------
LEMMA NothingChanges == Nothing \in Changes /\ DOMAIN Nothing = {}
  BY DEF Nothing, Changes, Holds

LEMMA SnapshotChanges ==
    ASSUME NEW l \in Changes, NEW fs \in SUBSET DOMAIN l
    PROVE  /\ Snapshot(l, fs) \in Changes /\ DOMAIN Snapshot(l, fs) = fs
           /\ \A f \in fs : Snapshot(l, fs)[f] = l[f]
  BY DEF Snapshot, Changes, Holds, Held, Datum

LEMMA WithChanges ==
    ASSUME NEW l \in Changes, DOMAIN l = Attributes, NEW c \in Changes
    PROVE  With(l, c) \in Changes /\ DOMAIN With(l, c) = Attributes
  BY DEF With, Changes, Holds, Held, Datum

LEMMA ListChanges ==
    ASSUME NEW s \in SUBSET Facets, NEW c, c = [f \in {"facet_slugs"} |-> s]
    PROVE  c \in Changes /\ DOMAIN c = {"facet_slugs"} /\ c["facet_slugs"] = s
  BY DEF Attributes, Changes, Holds, Held, Datum

LEMMA FieldChanges ==
    ASSUME NEW c \in OneField
    PROVE  c \in Changes /\ DOMAIN c \subseteq Fields
  <1>1. PICK g \in Fields, v \in Values : c = [f \in {g} |-> v]
    BY DEF OneField
  <1>2. g # "facet_slugs" /\ {g} \in SUBSET Attributes /\ DOMAIN c = {g} /\ c[g] = v
    BY <1>1, RowsAssumption DEF RowsAssumption, Attributes
  <1>3. c \in UNION {[D -> Datum] : D \in SUBSET Attributes}
    BY <1>1, <1>2 DEF Datum
  <1>4. Holds(c)
    BY <1>2 DEF Holds, Held
  <1> QED BY <1>2, <1>3, <1>4 DEF Changes

LEMMA NoWritingIsWriting == NoWriting \in Writing
  BY NothingChanges DEF NoWriting, Writing

LEMMA RecordingCounts == /\ IsFiniteSet(Recording) /\ Cardinality(Recording) \in Nat
                         /\ IsFiniteSet(Recording') /\ Cardinality(Recording') \in Nat
  BY RowsAssumption, FS_Subset, FS_CardinalityType DEF RowsAssumption, Recording

----------------------------------------------------------------------------
LEMMA RowsInitInv == RowsInit => RowsInv
  <1> SUFFICES ASSUME RowsInit PROVE RowsInv
    OBVIOUS
  <1>1. \A r \in Writer : writing[r] = NoWriting
    BY DEF RowsInit
  <1>2. listing \in Changes /\ DOMAIN listing = Attributes
    <2>1. PICK v \in Values :
              listing = [f \in Attributes |-> IF f = "facet_slugs" THEN Required ELSE v]
      BY DEF RowsInit
    <2>2. Required \in SUBSET Facets
      BY RowsAssumption DEF RowsAssumption
    <2>3. \A f \in Attributes : listing[f] \in Held(f)
      BY <2>1, <2>2 DEF Held
    <2>4. listing \in [Attributes -> Datum]
      BY <2>1, <2>2 DEF Datum
    <2>5. DOMAIN listing = Attributes /\ Attributes \in SUBSET Attributes
      BY <2>1
    <2>6. listing \in UNION {[D -> Datum] : D \in SUBSET Attributes}
      BY <2>4, <2>5
    <2> QED BY <2>3, <2>5, <2>6 DEF Changes, Holds
  <1>3. revisions = <<>> /\ Len(revisions) = 0 /\ DOMAIN revisions = {}
    BY DEF RowsInit
  <1>4. NoWriting.kind = "none" /\ NoWriting.revision = 0
    BY DEF NoWriting
  <1>5. RowsShape
    BY <1>1, <1>2, <1>3, <1>4, NoWritingIsWriting DEF RowsInit, RowsShape
  <1>6. RoomIsLeft
    <2>1. Recording = {}
      BY <1>1, <1>4 DEF Recording
    <2> QED BY <1>3, <2>1, FS_EmptySet, RowsAssumption DEF RoomIsLeft, RowsInit, RowsAssumption
  <1>7. OwnersWait /\ ApplyingAProposal /\ EditIsLocked /\ AloneIsUndisturbed
    BY <1>1, <1>3, <1>4 DEF OwnersWait, ApplyingAProposal, EditIsLocked, AloneIsUndisturbed
  <1> QED BY <1>5, <1>6, <1>7 DEF RowsInv

\* with one request at a time, the one that begins finds the listing free
LEMMA BeginsAlone ==
    ASSUME RowsInv, NEW r \in Writer, NEW as, Begins(r, as), history.atOnce = 1
    PROVE  \A s \in Writer : writing[s] = NoWriting
  <1> DEFINE open == {s \in Writer : writing[s] # NoWriting}
  <1>1. IsFiniteSet(open)
    BY RowsAssumption, FS_Subset DEF RowsAssumption
  <1>2. Cardinality(open) \in Nat /\ Cardinality(open) < 1
    BY <1>1, FS_CardinalityType DEF Begins
  <1>3. open = {}
    BY <1>1, <1>2, FS_EmptySet
  <1> QED BY <1>3

\* what a request that begins has read
Reads(as) ==
    /\ as \in Writing /\ as.kind # "none" /\ as.revision \in 0..Len(revisions)
    /\ \A f \in DOMAIN as.before : as.before[f] = listing[f]
    /\ as.kind \in {"edit", "add", "remove", "propose"} => Room
    /\ as.kind \in {"add", "remove"} => as.facet \in Facets /\ DOMAIN as.before = {"facet_slugs"}
    /\ as.kind = "edit" => ~Locked /\ DOMAIN as.before \subseteq Fields
    /\ as.kind \in {"edit", "propose"} => DOMAIN as.before = DOMAIN as.changes
    /\ as.kind = "apply" =>
          LET n == as.revision IN
          /\ n \in DOMAIN revisions /\ as.changes = revisions[n].changes
          /\ revisions[n].status = "submitted" /\ Conflicting(n) = {}

LEMMA BeginningKeeps ==
    ASSUME RowsInv, NEW r \in Writer, NEW as, Reads(as), Begins(r, as),
           UNCHANGED <<history, listing, revisions>>
    PROVE  RowsInv'
  <1>1. /\ writing[r] = NoWriting
        /\ writing'[r] = as /\ \A s \in Writer \ {r} : writing'[s] = writing[s]
    BY DEF Begins, RowsInv, RowsShape
  <1>2. NoWriting.kind = "none"
    BY DEF NoWriting
  <1>3. RowsShape'
    <2>1. writing' \in [Writer -> Writing]
      BY DEF Begins, RowsInv, RowsShape, Reads
    <2>2. \A s \in Writer :
              /\ writing'[s].revision \in 0..Len(revisions)
              /\ writing'[s] # NoWriting => writing'[s].kind # "none"
              /\ writing'[s].kind \in {"add", "remove"} =>
                    writing'[s].facet \in Facets /\ DOMAIN writing'[s].before = {"facet_slugs"}
              /\ writing'[s].kind = "edit" => DOMAIN writing'[s].before \subseteq Fields
              /\ writing'[s].kind \in {"edit", "propose"} =>
                    DOMAIN writing'[s].before = DOMAIN writing'[s].changes
      <3> SUFFICES ASSUME NEW s \in Writer
                   PROVE  /\ writing'[s].revision \in 0..Len(revisions)
                          /\ writing'[s] # NoWriting => writing'[s].kind # "none"
                          /\ writing'[s].kind \in {"add", "remove"} =>
                                /\ writing'[s].facet \in Facets
                                /\ DOMAIN writing'[s].before = {"facet_slugs"}
                          /\ writing'[s].kind = "edit" => DOMAIN writing'[s].before \subseteq Fields
                          /\ writing'[s].kind \in {"edit", "propose"} =>
                                DOMAIN writing'[s].before = DOMAIN writing'[s].changes
        OBVIOUS
      <3>1. CASE s = r
        BY <1>1, <3>1 DEF Reads
      <3>2. CASE s # r
        BY <1>1, <3>2 DEF RowsInv, RowsShape
      <3> QED BY <3>1, <3>2
    <2> QED BY <2>1, <2>2 DEF RowsInv, RowsShape
  <1>4. RoomIsLeft'
    <2>1. CASE as.kind \in {"edit", "add", "remove", "propose"}
      <3>1. Recording' = Recording \cup {r} /\ r \notin Recording
        BY <1>1, <1>2, <2>1 DEF Recording
      <3>2. Cardinality(Recording') = Cardinality(Recording) + 1
        BY <3>1, RecordingCounts, FS_AddElement
      <3>3. Len(revisions) \in Nat /\ history.made \in Nat
        BY RowsAssumption DEF RowsInv, RowsShape, RowsAssumption
      <3>4. Len(revisions) + Cardinality(Recording) < history.made
        BY <2>1 DEF Reads, Room
      <3>5. Len(revisions) + (Cardinality(Recording) + 1) <= history.made
        BY <3>3, <3>4, RecordingCounts
      <3> QED BY <3>2, <3>5 DEF RoomIsLeft
    <2>2. CASE as.kind \notin {"edit", "add", "remove", "propose"}
      <3>1. Recording' = Recording
        BY <1>1, <1>2, <2>2 DEF Recording
      <3> QED BY <3>1 DEF RowsInv, RoomIsLeft
    <2> QED BY <2>1, <2>2
  <1>5. OwnersWait'
    BY DEF RowsInv, OwnersWait
  <1>6. ApplyingAProposal'
    <2> SUFFICES ASSUME NEW s \in Writer, writing'[s].kind = "apply" PROVE AppliesAProposal(s)'
      BY DEF ApplyingAProposal
    <2>1. CASE s = r
      BY <1>1, <2>1 DEF Reads, RowsInv, OwnersWait, AppliesAProposal
    <2>2. CASE s # r
      BY <1>1, <2>2 DEF RowsInv, ApplyingAProposal, AppliesAProposal
    <2> QED BY <2>1, <2>2
  <1>7. StillAsRead(r)'
    BY <1>1 DEF Reads, StillAsRead
  <1>8. EditIsLocked'
    <2>1. \A s \in Writer : writing'[s].kind = "edit" => StillAsRead(s)'
      <3>1. \A s \in Writer \ {r} : writing'[s].kind = "edit" => StillAsRead(s)'
        BY <1>1 DEF RowsInv, EditIsLocked, StillAsRead
      <3> QED BY <1>7, <3>1
    <2>2. as.kind = "edit" => \A s \in Writer : writing[s].kind # "edit"
      BY DEF Reads, Locked
    <2>3. \A s, u \in Writer : writing'[s].kind = "edit" /\ writing'[u].kind = "edit" => s = u
      BY <1>1, <2>2 DEF RowsInv, EditIsLocked
    <2> QED BY <2>1, <2>3 DEF EditIsLocked
  <1>9. AloneIsUndisturbed'
    <2> SUFFICES ASSUME history.atOnce = 1, NEW s \in Writer, writing'[s] # NoWriting
                 PROVE  HasItAlone(s)'
      BY DEF AloneIsUndisturbed
    <2>1. s = r /\ \A u \in Writer : writing'[u] # NoWriting => u = r
      BY <1>1, BeginsAlone
    <2>2. as.kind = "apply" => LET n == as.revision IN
              revisions[n].status # "approved" /\ Conflicting(n)' = {}
      BY DEF Reads, Conflicting
    <2> QED BY <1>1, <1>7, <2>1, <2>2 DEF HasItAlone
  <1> QED BY <1>3, <1>4, <1>5, <1>6, <1>8, <1>9 DEF RowsInv

\* what is in the trail stays there, but for the status
TrailStands ==
    /\ revisions' \in Seq(RevisionRow) /\ Len(revisions) <= Len(revisions')
    /\ \A n \in DOMAIN revisions : /\ revisions'[n].origin = revisions[n].origin
                                   /\ revisions'[n].changes = revisions[n].changes
                                   /\ revisions'[n].base = revisions[n].base
    /\ \A n \in DOMAIN revisions' :
          DOMAIN revisions'[n].changes = DOMAIN revisions'[n].base

\* a request that is still open has missed nothing it would mind
StaysUndisturbed(s) ==
    /\ UNCHANGED listing \/ (writing[s].kind # "edit" /\ history.atOnce # 1)
    /\ history.atOnce = 1 /\ writing[s].kind = "apply" =>
          revisions'[writing[s].revision].status # "approved"

LEMMA EndingKeeps ==
    ASSUME RowsInv, UNCHANGED history, listing' \in Changes, DOMAIN listing' = Attributes,
           TrailStands, OwnersWait', RoomIsLeft', writing' \in [Writer -> Writing],
           \A s \in Writer : \/ writing'[s] = NoWriting
                             \/ writing'[s] = writing[s] /\ StaysUndisturbed(s)
    PROVE  RowsInv'
  <1>1. Len(revisions) \in Nat /\ Len(revisions') \in Nat /\ DOMAIN revisions = 1..Len(revisions)
        /\ DOMAIN revisions' = 1..Len(revisions')
    BY DEF RowsInv, RowsShape, TrailStands
  <1>2. NoWriting.kind = "none" /\ NoWriting.revision = 0
    BY DEF NoWriting
  <1>3. \A s \in Writer : writing'[s].kind # "none" =>
            writing'[s] = writing[s] /\ StaysUndisturbed(s) /\ writing[s] # NoWriting
    BY <1>2
  <1>4. RowsShape'
    <2>1. \A s \in Writer :
              /\ writing'[s].revision \in 0..Len(revisions')
              /\ writing'[s] # NoWriting => writing'[s].kind # "none"
              /\ writing'[s].kind \in {"add", "remove"} =>
                    writing'[s].facet \in Facets /\ DOMAIN writing'[s].before = {"facet_slugs"}
              /\ writing'[s].kind = "edit" => DOMAIN writing'[s].before \subseteq Fields
              /\ writing'[s].kind \in {"edit", "propose"} =>
                    DOMAIN writing'[s].before = DOMAIN writing'[s].changes
      <3> SUFFICES ASSUME NEW s \in Writer
                   PROVE  /\ writing'[s].revision \in 0..Len(revisions')
                          /\ writing'[s] # NoWriting => writing'[s].kind # "none"
                          /\ writing'[s].kind \in {"add", "remove"} =>
                                /\ writing'[s].facet \in Facets
                                /\ DOMAIN writing'[s].before = {"facet_slugs"}
                          /\ writing'[s].kind = "edit" => DOMAIN writing'[s].before \subseteq Fields
                          /\ writing'[s].kind \in {"edit", "propose"} =>
                                DOMAIN writing'[s].before = DOMAIN writing'[s].changes
        OBVIOUS
      <3>1. CASE writing'[s] = NoWriting
        BY <1>1, <1>2, <3>1
      <3>2. CASE writing'[s] = writing[s]
        <4>1. writing[s].revision \in 0..Len(revisions')
          BY <1>1 DEF RowsInv, RowsShape, TrailStands
        <4> QED BY <3>2, <4>1 DEF RowsInv, RowsShape
      <3> QED BY <3>1, <3>2
    <2> QED BY <2>1 DEF RowsInv, RowsShape, TrailStands
  <1>5. ApplyingAProposal'
    <2> SUFFICES ASSUME NEW s \in Writer, writing'[s].kind = "apply" PROVE AppliesAProposal(s)'
      BY DEF ApplyingAProposal
    <2>1. writing'[s] = writing[s] /\ AppliesAProposal(s)
      BY <1>3 DEF RowsInv, ApplyingAProposal
    <2>2. writing[s].revision \in DOMAIN revisions /\ writing[s].revision \in DOMAIN revisions'
      BY <1>1, <2>1 DEF AppliesAProposal, TrailStands
    <2> QED BY <2>1, <2>2 DEF AppliesAProposal, TrailStands
  <1>6. EditIsLocked'
    <2>1. \A s \in Writer : writing'[s].kind = "edit" => StillAsRead(s)'
      BY <1>3 DEF RowsInv, EditIsLocked, StillAsRead, StaysUndisturbed
    <2>2. \A s, u \in Writer : writing'[s].kind = "edit" /\ writing'[u].kind = "edit" => s = u
      BY <1>3 DEF RowsInv, EditIsLocked
    <2> QED BY <2>1, <2>2 DEF EditIsLocked
  <1>7. AloneIsUndisturbed'
    <2> SUFFICES ASSUME history.atOnce = 1, NEW s \in Writer, writing'[s] # NoWriting
                 PROVE  HasItAlone(s)'
      BY DEF AloneIsUndisturbed
    <2>1. writing'[s] = writing[s] /\ StaysUndisturbed(s) /\ HasItAlone(s) /\ UNCHANGED listing
      BY DEF RowsInv, AloneIsUndisturbed, StaysUndisturbed
    <2>2. \A u \in Writer : writing'[u] # NoWriting => u = s
      BY <2>1 DEF HasItAlone
    <2>3. StillAsRead(s)'
      BY <2>1 DEF HasItAlone, StillAsRead
    <2>4. (writing[s].kind = "apply" =>
              LET n == writing[s].revision IN
              revisions[n].status # "approved" /\ Conflicting(n) = {})'
      <3> SUFFICES ASSUME writing[s].kind = "apply", NEW n, n = writing[s].revision
                   PROVE  revisions'[n].status # "approved" /\ Conflicting(n)' = {}
        BY <2>1
      <3>1. n \in DOMAIN revisions
        BY DEF RowsInv, ApplyingAProposal, AppliesAProposal
      <3>2. Conflicting(n) = {} /\ revisions'[n].status # "approved"
        BY <2>1 DEF HasItAlone, StaysUndisturbed
      <3> QED BY <2>1, <3>1, <3>2 DEF Conflicting, TrailStands
    <2> QED BY <2>2, <2>3, <2>4 DEF HasItAlone
  <1> QED BY <1>4, <1>5, <1>6, <1>7 DEF RowsInv

----------------------------------------------------------------------------
\* a request that ends, and the room it leaves
LEMMA EndsLeavesRoom ==
    ASSUME RowsInv, NEW r \in Writer, Ends(r)
    PROVE  /\ writing' \in [Writer -> Writing] /\ writing'[r] = NoWriting
           /\ \A s \in Writer \ {r} : writing'[s] = writing[s]
           /\ Cardinality(Recording') <= Cardinality(Recording)
           /\ r \in Recording => Cardinality(Recording') = Cardinality(Recording) - 1
  <1>1. /\ writing' \in [Writer -> Writing] /\ writing'[r] = NoWriting
        /\ \A s \in Writer \ {r} : writing'[s] = writing[s]
    BY NoWritingIsWriting DEF RowsInv, RowsShape, Ends
  <1>2. Recording' = Recording \ {r}
    BY <1>1 DEF Recording, NoWriting
  <1>3. CASE r \in Recording
    BY <1>1, <1>2, <1>3, RecordingCounts, FS_RemoveElement
  <1>4. CASE r \notin Recording
    <2>1. Recording' = Recording
      BY <1>2, <1>4
    <2> QED BY <1>1, <1>4, <2>1, RecordingCounts
  <1> QED BY <1>3, <1>4

LEMMA SameTrailStands == RowsInv /\ UNCHANGED revisions => TrailStands /\ OwnersWait'
  BY DEF RowsInv, RowsShape, TrailStands, OwnersWait

LEMMA LongerTrailStands ==
    ASSUME RowsInv, NEW rev \in RevisionRow, revisions' = Append(revisions, rev),
           DOMAIN rev.changes = DOMAIN rev.base,
           rev.status = "submitted" => rev.origin = "owner"
    PROVE  /\ TrailStands /\ OwnersWait'
           /\ Len(revisions) \in Nat /\ Len(revisions') = Len(revisions) + 1
           /\ revisions'[Len(revisions) + 1] = rev
           /\ DOMAIN revisions = 1..Len(revisions)
           /\ DOMAIN revisions' = DOMAIN revisions \cup {Len(revisions) + 1}
           /\ \A n \in DOMAIN revisions : revisions'[n] = revisions[n]
  <1>1. revisions \in Seq(RevisionRow)
    BY DEF RowsInv, RowsShape
  <1>2. /\ revisions' \in Seq(RevisionRow) /\ Len(revisions) \in Nat
        /\ Len(revisions') = Len(revisions) + 1
        /\ revisions'[Len(revisions) + 1] = rev
        /\ \A n \in 1..Len(revisions) : revisions'[n] = revisions[n]
        /\ DOMAIN revisions = 1..Len(revisions) /\ DOMAIN revisions' = 1..Len(revisions')
    BY <1>1
  <1>3. DOMAIN revisions' = DOMAIN revisions \cup {Len(revisions) + 1}
    BY <1>2
  <1>4. TrailStands
    BY <1>2, <1>3 DEF TrailStands, RowsInv, RowsShape
  <1>5. OwnersWait'
    BY <1>2, <1>3 DEF OwnersWait, RowsInv
  <1> QED BY <1>2, <1>3, <1>4, <1>5

\* a step that records nothing as applied and leaves the listing alone
LEMMA QuietStepTells ==
    ASSUME UNCHANGED listing,
           \A n \in DOMAIN revisions' : revisions'[n].status = "approved" =>
               n \in DOMAIN revisions /\ revisions[n].status = "approved"
    PROVE  TrailTellsTheStep
  <1>1. Applied = {}
    BY DEF Applied
  <1> QED BY <1>1 DEF TrailTellsTheStep

LEMMA EndingAlone ==
    ASSUME RowsInv, NEW r \in Writer, Ends(r), UNCHANGED <<history, listing, revisions>>
    PROVE  RowsInv' /\ TrailTellsTheStep
  <1>1. /\ writing' \in [Writer -> Writing] /\ writing'[r] = NoWriting
        /\ \A s \in Writer \ {r} : writing'[s] = writing[s]
        /\ Cardinality(Recording') <= Cardinality(Recording)
    BY EndsLeavesRoom
  <1>2. RoomIsLeft'
    <2>1. Len(revisions) \in Nat /\ history.made \in Nat
      BY RowsAssumption DEF RowsInv, RowsShape, RowsAssumption
    <2>2. Len(revisions) + Cardinality(Recording) <= history.made
      BY DEF RowsInv, RoomIsLeft
    <2> QED BY <1>1, <2>1, <2>2, RecordingCounts DEF RoomIsLeft
  <1>3. \A s \in Writer \ {r} : writing[s] = NoWriting \/ StaysUndisturbed(s)
    BY DEF RowsInv, AloneIsUndisturbed, HasItAlone, StaysUndisturbed
  <1>4. RowsInv'
    BY <1>1, <1>2, <1>3, EndingKeeps, SameTrailStands DEF RowsInv, RowsShape
  <1> QED BY <1>4, QuietStepTells

\* a request that has the listing's row, or finds it unlocked, and writes
LEMMA UndisturbedByWrite ==
    ASSUME RowsInv, NEW r \in Writer, writing[r].kind = "edit" \/ ~Locked,
           writing[r].kind # "none", NEW s \in Writer \ {r}
    PROVE  /\ writing[s].kind # "edit"
           /\ history.atOnce = 1 => writing[s] = NoWriting
  <1>1. writing[r] # NoWriting
    BY DEF NoWriting
  <1>2. writing[s].kind # "edit"
    BY DEF RowsInv, EditIsLocked, Locked
  <1>3. history.atOnce = 1 => writing[s] = NoWriting
    BY <1>1 DEF RowsInv, AloneIsUndisturbed, HasItAlone
  <1> QED BY <1>2, <1>3

\* a staff request commits what it records
LEMMA RecordingTells ==
    ASSUME RowsInv, NEW r \in Writer, writing[r].kind \in {"edit", "add", "remove"},
           writing[r].kind = "edit" \/ ~Locked, Ends(r), UNCHANGED history,
           NEW now \in Changes, DOMAIN now = DOMAIN writing[r].before,
           listing' = With(listing, now),
           revisions' = Append(revisions,
                            Revision("staff", now, writing[r].before, "approved"))
    PROVE  RowsInv' /\ TrailTellsTheStep
  <1> DEFINE rev == Revision("staff", now, writing[r].before, "approved")
             N == Len(revisions) + 1
  <1>1. writing[r] \in Writing /\ listing \in Changes /\ DOMAIN listing = Attributes
    BY DEF RowsInv, RowsShape
  <1>2. /\ rev \in RevisionRow /\ rev.changes = now /\ rev.base = writing[r].before
        /\ rev.status = "approved" /\ rev.origin = "staff"
    BY <1>1 DEF Revision, RevisionRow, Writing
  <1> HIDE DEF rev
  <1>3. /\ TrailStands /\ OwnersWait'
        /\ Len(revisions) \in Nat /\ Len(revisions') = N
        /\ revisions'[N] = rev
        /\ DOMAIN revisions = 1..Len(revisions)
        /\ DOMAIN revisions' = DOMAIN revisions \cup {N}
        /\ \A n \in DOMAIN revisions : revisions'[n] = revisions[n]
    BY <1>2, LongerTrailStands DEF rev
  <1>4. /\ writing' \in [Writer -> Writing] /\ writing'[r] = NoWriting
        /\ \A s \in Writer \ {r} : writing'[s] = writing[s]
        /\ r \in Recording => Cardinality(Recording') = Cardinality(Recording) - 1
    BY EndsLeavesRoom
  <1>5. RoomIsLeft'
    <2>1. r \in Recording
      BY DEF Recording
    <2>2. Len(revisions) + Cardinality(Recording) <= history.made /\ history.made \in Nat
      BY RowsAssumption DEF RowsInv, RoomIsLeft, RowsShape, RowsAssumption
    <2>3. N + (Cardinality(Recording) - 1) <= history.made
      BY <1>3, <2>2, RecordingCounts
    <2> QED BY <1>3, <1>4, <2>1, <2>3 DEF RoomIsLeft
  <1>6. \A s \in Writer \ {r} : writing[s] = NoWriting \/ StaysUndisturbed(s)
    BY UndisturbedByWrite DEF StaysUndisturbed
  <1>7. listing' \in Changes /\ DOMAIN listing' = Attributes
    BY <1>1, WithChanges
  <1>8. RowsInv'
    BY <1>3, <1>4, <1>5, <1>6, <1>7, EndingKeeps
  <1>9. Applied = {N}
    BY <1>2, <1>3 DEF Applied
  <1>10. StillAsRead(r) => TellsTheStep(N)
    BY <1>2, <1>3 DEF StillAsRead, TellsTheStep
  <1>11. DOMAIN now \subseteq Fields => writing[r].kind = "edit"
    BY RowsAssumption DEF RowsInv, RowsShape, RowsAssumption
  <1>12. writing[r].kind = "edit" \/ history.atOnce = 1 => StillAsRead(r)
    BY DEF RowsInv, EditIsLocked, AloneIsUndisturbed, HasItAlone, NoWriting
  <1>13. TrailTellsTheStep
    BY <1>2, <1>3, <1>9, <1>10, <1>11, <1>12 DEF TrailTellsTheStep
  <1> QED BY <1>8, <1>13

LEMMA CommitEditTells ==
    ASSUME RowsInv, NEW r \in Writer, CommitEdit(r), UNCHANGED history
    PROVE  RowsInv' /\ TrailTellsTheStep
  <1>1. /\ writing[r].kind = "edit" /\ Ends(r)
        /\ listing' = With(listing, writing[r].changes)
        /\ revisions' = Append(revisions,
               Revision("staff", writing[r].changes, writing[r].before, "approved"))
    BY DEF CommitEdit
  <1>2. /\ writing[r].changes \in Changes
        /\ DOMAIN writing[r].changes = DOMAIN writing[r].before
    BY <1>1 DEF RowsInv, RowsShape, Writing
  <1>3. RowsInv' /\ TrailTellsTheStep
    BY <1>1, <1>2, RecordingTells
  <1> QED BY <1>3

\* adding and removing a facet value write the list as it is now
LEMMA FacetsBecomeTells ==
    ASSUME RowsInv, NEW r \in Writer, NEW now \in SUBSET Facets, FacetsBecome(r, now),
           writing[r].kind \in {"add", "remove"}, ~Locked, UNCHANGED history
    PROVE  RowsInv' /\ TrailTellsTheStep /\ listing'["facet_slugs"] = now
  <1> DEFINE list == [f \in {"facet_slugs"} |-> now]
  <1>1. list \in Changes /\ DOMAIN list = {"facet_slugs"} /\ list["facet_slugs"] = now
    BY ListChanges
  <1>2. DOMAIN writing[r].before = {"facet_slugs"} /\ DOMAIN listing = Attributes
    BY DEF RowsInv, RowsShape
  <1>3. /\ listing' = [listing EXCEPT !["facet_slugs"] = now] /\ Ends(r)
        /\ revisions' = Append(revisions,
               Revision("staff", list, writing[r].before, "approved"))
    BY DEF FacetsBecome
  <1>4. listing' = With(listing, list)
    BY <1>1, <1>2, <1>3 DEF With
  <1> HIDE DEF list
  <1>5. RowsInv' /\ TrailTellsTheStep
    BY <1>1, <1>2, <1>3, <1>4, RecordingTells
  <1>6. listing'["facet_slugs"] = now
    BY <1>2, <1>3 DEF Attributes
  <1> QED BY <1>5, <1>6

LEMMA FacetsAreFacets == RowsInv => listing["facet_slugs"] \in SUBSET Facets
  BY DEF RowsInv, RowsShape, Changes, Holds, Held, Attributes

LEMMA CommitAddFacetTells ==
    ASSUME RowsInv, NEW r \in Writer, CommitAddFacet(r), UNCHANGED history
    PROVE  RowsInv' /\ TrailTellsTheStep
  <1>1. /\ writing[r].kind = "add" /\ ~Locked
        /\ FacetsBecome(r, listing["facet_slugs"] \cup {writing[r].facet})
    BY DEF CommitAddFacet
  <1>2. listing["facet_slugs"] \cup {writing[r].facet} \in SUBSET Facets
    BY <1>1, FacetsAreFacets DEF RowsInv, RowsShape
  <1>3. RowsInv' /\ TrailTellsTheStep
    BY <1>1, <1>2, FacetsBecomeTells
  <1> QED BY <1>3

LEMMA CommitRemoveFacetTells ==
    ASSUME RowsInv, NEW r \in Writer, CommitRemoveFacet(r), UNCHANGED history
    PROVE  RowsInv' /\ TrailTellsTheStep
  <1> DEFINE now == listing["facet_slugs"] \ {writing[r].facet}
  <1>1. writing[r].kind = "remove" /\ ~Locked /\ FacetsBecome(r, now)
    BY DEF CommitRemoveFacet
  <1>2. now \in SUBSET Facets
    BY FacetsAreFacets
  <1>3. RowsInv' /\ TrailTellsTheStep /\ listing'["facet_slugs"] = now
    BY <1>1, <1>2, FacetsBecomeTells
  <1> QED BY <1>3

\* a proposal is applied over what it was based on, if nobody else writes
LEMMA CommitApplyTells ==
    ASSUME RowsInv, NEW r \in Writer, CommitApply(r), UNCHANGED history
    PROVE  RowsInv' /\ TrailTellsTheStep
  <1> DEFINE n == writing[r].revision
  <1>1. /\ writing[r].kind = "apply" /\ ~Locked /\ Ends(r)
        /\ listing' = With(With(listing, writing[r].before), writing[r].changes)
        /\ revisions' = [revisions EXCEPT ![n].status = "approved"]
    BY DEF CommitApply
  <1>2. /\ n \in DOMAIN revisions /\ revisions[n].origin = "owner"
        /\ writing[r].changes = revisions[n].changes
    BY <1>1 DEF RowsInv, ApplyingAProposal, AppliesAProposal
  <1>3. /\ writing[r].before \in Changes /\ writing[r].changes \in Changes
        /\ listing \in Changes /\ DOMAIN listing = Attributes
        /\ revisions \in Seq(RevisionRow) /\ revisions[n] \in RevisionRow
    BY <1>2 DEF RowsInv, RowsShape, Writing
  <1> DEFINE row == [revisions[n] EXCEPT !.status = "approved"]
  <1>4. /\ row \in RevisionRow /\ row.origin = "owner" /\ row.status = "approved"
        /\ row.changes = revisions[n].changes /\ row.base = revisions[n].base
    BY <1>2, <1>3 DEF RevisionRow
  <1>5. revisions' = [revisions EXCEPT ![n] = row]
    BY <1>1, <1>3
  <1> HIDE DEF row
  <1>6. /\ revisions' \in Seq(RevisionRow) /\ Len(revisions') = Len(revisions)
        /\ DOMAIN revisions' = DOMAIN revisions /\ revisions'[n] = row
        /\ \A m \in DOMAIN revisions \ {n} : revisions'[m] = revisions[m]
        /\ Len(revisions) \in Nat
    BY <1>2, <1>3, <1>4, <1>5
  <1>7. TrailStands /\ OwnersWait'
    <2>1. \A m \in DOMAIN revisions :
              /\ revisions'[m].origin = revisions[m].origin
              /\ revisions'[m].changes = revisions[m].changes
              /\ revisions'[m].base = revisions[m].base
              /\ revisions'[m].status = "submitted" => revisions[m].status = "submitted"
      BY <1>2, <1>4, <1>6
    <2>2. TrailStands
      BY <1>6, <2>1 DEF RowsInv, RowsShape, TrailStands
    <2>3. OwnersWait'
      BY <1>6, <2>1 DEF RowsInv, OwnersWait
    <2> QED BY <2>2, <2>3
  <1>8. listing' \in Changes /\ DOMAIN listing' = Attributes
    BY <1>1, <1>3, WithChanges
  <1>9. /\ writing' \in [Writer -> Writing] /\ writing'[r] = NoWriting
        /\ \A s \in Writer \ {r} : writing'[s] = writing[s]
        /\ Cardinality(Recording') <= Cardinality(Recording)
    BY <1>1, EndsLeavesRoom
  <1>10. RoomIsLeft'
    <2>1. history.made \in Nat /\ Len(revisions) + Cardinality(Recording) <= history.made
      BY RowsAssumption DEF RowsInv, RowsShape, RowsAssumption, RoomIsLeft
    <2> QED BY <1>6, <1>9, <2>1, RecordingCounts DEF RoomIsLeft
  <1>11. \A s \in Writer \ {r} : writing[s] = NoWriting \/ StaysUndisturbed(s)
    BY <1>1, UndisturbedByWrite DEF StaysUndisturbed
  <1>12. RowsInv'
    BY <1>7, <1>8, <1>9, <1>10, <1>11, EndingKeeps
  <1>13. Applied \subseteq {n}
    BY <1>6 DEF Applied
  <1>14. TrailTellsTheStep
    <2>1. history.atOnce = 1 => TellsTheStep(n) /\ n \in Applied
      <3> SUFFICES ASSUME history.atOnce = 1 PROVE TellsTheStep(n) /\ n \in Applied
        OBVIOUS
      <3>1. HasItAlone(r)
        BY <1>1 DEF RowsInv, AloneIsUndisturbed, NoWriting
      <3>2. revisions[n].status # "approved" /\ Conflicting(n) = {}
        BY <1>1, <3>1 DEF HasItAlone
      <3>3. n \in Applied
        BY <1>2, <1>4, <1>6, <3>2 DEF Applied
      <3>4. \A f \in DOMAIN revisions'[n].base : revisions'[n].base[f] = listing[f]
        BY <1>4, <1>6, <3>2 DEF Conflicting
      <3>5. With(listing, writing[r].before) = listing
        <4>1. \A f \in DOMAIN writing[r].before : writing[r].before[f] = listing[f]
          BY <3>1 DEF HasItAlone, StillAsRead
        <4>2. listing = [f \in Attributes |-> listing[f]]
          BY <1>3 DEF Changes
        <4> QED BY <4>1, <4>2 DEF With
      <3> QED BY <1>1, <1>2, <1>4, <1>6, <3>3, <3>4, <3>5 DEF TellsTheStep
    <2>2. \A m \in Applied : revisions'[m].origin # "staff"
      BY <1>4, <1>6, <1>13
    <2> QED BY <1>13, <2>1, <2>2 DEF TrailTellsTheStep
  <1> QED BY <1>12, <1>14

----------------------------------------------------------------------------
\* requests that begin: each has just read what it will go by
LEMMA BeginTells ==
    ASSUME RowsInv, NEW r \in Writer, NEW as, Reads(as), Begins(r, as),
           UNCHANGED <<history, listing, revisions>>
    PROVE  RowsInv' /\ TrailTellsTheStep
  BY BeginningKeeps, QuietStepTells

LEMMA BeginEditTells ==
    ASSUME RowsInv, NEW r \in Writer, NEW values \in OneField, BeginEdit(r, values),
           UNCHANGED history
    PROVE  RowsInv' /\ TrailTellsTheStep
  <1> DEFINE applied == {f \in DOMAIN values : values[f] # listing[f]}
             as == [NoWriting EXCEPT !.kind = "edit", !.changes = Snapshot(values, applied),
                                     !.before = Snapshot(listing, applied)]
  <1>1. Begins(r, as) /\ UNCHANGED <<listing, revisions>> /\ ~Locked /\ Room
    BY DEF BeginEdit
  <1>2. /\ values \in Changes /\ applied \subseteq DOMAIN values /\ applied \subseteq Fields
        /\ listing \in Changes /\ applied \subseteq DOMAIN listing
    BY FieldChanges DEF RowsInv, RowsShape, Attributes
  <1> HIDE DEF applied
  <1>3. /\ Snapshot(values, applied) \in Changes /\ DOMAIN Snapshot(values, applied) = applied
        /\ Snapshot(listing, applied) \in Changes /\ DOMAIN Snapshot(listing, applied) = applied
        /\ \A f \in applied : Snapshot(listing, applied)[f] = listing[f]
    BY <1>2, SnapshotChanges
  <1>4. /\ as \in Writing /\ as.kind = "edit" /\ as.revision = 0
        /\ as.changes = Snapshot(values, applied) /\ as.before = Snapshot(listing, applied)
    BY <1>3 DEF NoWriting, Writing
  <1> HIDE DEF as
  <1>5. Len(revisions) \in Nat
    BY DEF RowsInv, RowsShape
  <1>6. \A f \in DOMAIN as.before : as.before[f] = listing[f]
    BY <1>3, <1>4
  <1>7. DOMAIN as.before \subseteq Fields /\ DOMAIN as.before = DOMAIN as.changes
    BY <1>2, <1>3, <1>4
  <1>8. as.revision \in 0..Len(revisions)
    BY <1>4, <1>5
  <1>9. Reads(as)
    BY <1>1, <1>4, <1>6, <1>7, <1>8 DEF Reads
  <1> QED BY <1>1, <1>9, BeginTells

LEMMA ReadsFacetsTells ==
    ASSUME RowsInv, NEW r \in Writer, NEW op \in {"add", "remove"}, NEW value \in Facets,
           ReadsFacets(r, op, value), UNCHANGED history
    PROVE  RowsInv' /\ TrailTellsTheStep
  <1> DEFINE before == Snapshot(listing, {"facet_slugs"})
             as == [NoWriting EXCEPT !.kind = op, !.facet = value, !.before = before]
  <1>1. Begins(r, as) /\ UNCHANGED <<listing, revisions>> /\ Room
    BY DEF ReadsFacets
  <1>2. listing \in Changes /\ {"facet_slugs"} \in SUBSET DOMAIN listing
    BY DEF RowsInv, RowsShape, Attributes
  <1>3. /\ before \in Changes /\ DOMAIN before = {"facet_slugs"}
        /\ \A f \in {"facet_slugs"} : before[f] = listing[f]
    BY <1>2, SnapshotChanges
  <1> HIDE DEF before
  <1>4. /\ as \in Writing /\ as.kind = op /\ as.revision = 0 /\ as.facet = value
        /\ as.before = before
    BY <1>3, NothingChanges DEF NoWriting, Writing
  <1> HIDE DEF as
  <1>5. Len(revisions) \in Nat
    BY DEF RowsInv, RowsShape
  <1>6. \A f \in DOMAIN as.before : as.before[f] = listing[f]
    BY <1>3, <1>4
  <1>7. DOMAIN as.before = {"facet_slugs"}
    BY <1>3, <1>4
  <1>8. as.revision \in 0..Len(revisions)
    BY <1>4, <1>5
  <1>9. Reads(as)
    BY <1>1, <1>4, <1>6, <1>7, <1>8 DEF Reads
  <1> QED BY <1>1, <1>9, BeginTells

LEMMA BeginApplyTells ==
    ASSUME RowsInv, NEW r \in Writer, NEW n \in DOMAIN revisions, BeginApply(r, n),
           UNCHANGED history
    PROVE  RowsInv' /\ TrailTellsTheStep
  <1> DEFINE before == Snapshot(listing, Fields)
             as == [NoWriting EXCEPT !.kind = "apply", !.revision = n,
                        !.changes = revisions[n].changes, !.before = before]
  <1>1. /\ Begins(r, as) /\ UNCHANGED <<listing, revisions>>
        /\ revisions[n].status = "submitted" /\ Conflicting(n) = {}
    BY DEF BeginApply
  <1>2. /\ listing \in Changes /\ Fields \in SUBSET DOMAIN listing
        /\ revisions[n] \in RevisionRow /\ n \in 0..Len(revisions) /\ n \in Nat
    BY DEF RowsInv, RowsShape, Attributes
  <1>3. /\ before \in Changes /\ DOMAIN before = Fields
        /\ \A f \in Fields : before[f] = listing[f]
    BY <1>2, SnapshotChanges
  <1> HIDE DEF before
  <1>4. /\ as \in Writing /\ as.kind = "apply" /\ as.revision = n
        /\ as.changes = revisions[n].changes /\ as.before = before
    BY <1>2, <1>3, NothingChanges DEF NoWriting, Writing, RevisionRow
  <1> HIDE DEF as
  <1>5. Reads(as)
    BY <1>1, <1>2, <1>3, <1>4 DEF Reads
  <1> QED BY <1>1, <1>5, BeginTells

LEMMA BeginProposeTells ==
    ASSUME RowsInv, NEW r \in Writer, NEW changes \in OneField \cup OneList,
           BeginPropose(r, changes), UNCHANGED history
    PROVE  RowsInv' /\ TrailTellsTheStep
  <1> DEFINE before == Snapshot(listing, DOMAIN changes)
             as == [NoWriting EXCEPT !.kind = "propose", !.changes = changes, !.before = before]
  <1>1. Begins(r, as) /\ UNCHANGED <<listing, revisions>> /\ Room
    BY DEF BeginPropose
  <1>2. changes \in Changes
    BY FieldChanges, ListChanges DEF OneList
  <1>3. DOMAIN changes \in SUBSET DOMAIN listing /\ listing \in Changes
    BY <1>2 DEF RowsInv, RowsShape, Changes, Holds
  <1>4. /\ before \in Changes /\ DOMAIN before = DOMAIN changes
        /\ \A f \in DOMAIN changes : before[f] = listing[f]
    BY <1>3, SnapshotChanges
  <1> HIDE DEF before
  <1>5. /\ as \in Writing /\ as.kind = "propose" /\ as.revision = 0
        /\ as.changes = changes /\ as.before = before
    BY <1>2, <1>4 DEF NoWriting, Writing
  <1> HIDE DEF as
  <1>6. Len(revisions) \in Nat
    BY DEF RowsInv, RowsShape
  <1>7. \A f \in DOMAIN as.before : as.before[f] = listing[f]
    BY <1>4, <1>5
  <1>8. DOMAIN as.before = DOMAIN as.changes
    BY <1>4, <1>5
  <1>9. as.revision \in 0..Len(revisions)
    BY <1>5, <1>6
  <1>10. Reads(as)
    BY <1>1, <1>5, <1>7, <1>8, <1>9 DEF Reads
  <1> QED BY <1>1, <1>10, BeginTells

\* owners and editors write the trail only, and apply nothing
LEMMA CommitProposeTells ==
    ASSUME RowsInv, NEW r \in Writer, CommitPropose(r), UNCHANGED history
    PROVE  RowsInv' /\ TrailTellsTheStep
  <1> DEFINE rev == Revision("owner", writing[r].changes, writing[r].before, "submitted")
  <1>1. /\ writing[r].kind = "propose" /\ ~Locked /\ Ends(r) /\ UNCHANGED listing
        /\ revisions' = Append(revisions, rev)
    BY DEF CommitPropose
  <1>2. /\ writing[r] \in Writing
        /\ DOMAIN writing[r].before = DOMAIN writing[r].changes
    BY <1>1 DEF RowsInv, RowsShape
  <1>3. /\ rev \in RevisionRow /\ rev.changes = writing[r].changes /\ rev.origin = "owner"
        /\ rev.base = writing[r].before /\ rev.status = "submitted"
    BY <1>2 DEF Revision, RevisionRow, Writing
  <1> HIDE DEF rev
  <1>4. /\ TrailStands /\ OwnersWait'
        /\ Len(revisions) \in Nat /\ Len(revisions') = Len(revisions) + 1
        /\ revisions'[Len(revisions) + 1] = rev
        /\ DOMAIN revisions' = DOMAIN revisions \cup {Len(revisions) + 1}
        /\ \A n \in DOMAIN revisions : revisions'[n] = revisions[n]
    BY <1>1, <1>2, <1>3, LongerTrailStands
  <1>5. /\ writing' \in [Writer -> Writing] /\ writing'[r] = NoWriting
        /\ \A s \in Writer \ {r} : writing'[s] = writing[s]
        /\ r \in Recording => Cardinality(Recording') = Cardinality(Recording) - 1
    BY <1>1, EndsLeavesRoom
  <1>6. RoomIsLeft'
    <2>1. r \in Recording
      BY <1>1 DEF Recording
    <2>2. Len(revisions) + Cardinality(Recording) <= history.made /\ history.made \in Nat
      BY RowsAssumption DEF RowsInv, RoomIsLeft, RowsShape, RowsAssumption
    <2>3. (Len(revisions) + 1) + (Cardinality(Recording) - 1) <= history.made
      BY <1>4, <2>2, RecordingCounts
    <2> QED BY <1>4, <1>5, <2>1, <2>3 DEF RoomIsLeft
  <1>7. \A s \in Writer \ {r} : writing[s] = NoWriting \/ StaysUndisturbed(s)
    BY <1>1, UndisturbedByWrite DEF StaysUndisturbed
  <1>8. listing' \in Changes /\ DOMAIN listing' = Attributes
    BY <1>1 DEF RowsInv, RowsShape
  <1>9. RowsInv'
    BY <1>4, <1>5, <1>6, <1>7, <1>8, EndingKeeps
  <1>10. TrailTellsTheStep
    BY <1>1, <1>3, <1>4, QuietStepTells
  <1> QED BY <1>9, <1>10

LEMMA RejectRevisionTells ==
    ASSUME RowsInv, NEW n \in DOMAIN revisions, RejectRevision(n), UNCHANGED history
    PROVE  RowsInv' /\ TrailTellsTheStep
  <1> DEFINE row == [revisions[n] EXCEPT !.status = "rejected"]
  <1>1. revisions \in Seq(RevisionRow) /\ revisions[n] \in RevisionRow
    BY DEF RowsInv, RowsShape
  <1>2. /\ row \in RevisionRow /\ row.status = "rejected" /\ row.origin = revisions[n].origin
        /\ row.changes = revisions[n].changes /\ row.base = revisions[n].base
    BY <1>1 DEF RevisionRow
  <1>3. revisions' = [revisions EXCEPT ![n] = row] /\ UNCHANGED <<listing, writing>>
    BY <1>1 DEF RejectRevision
  <1> HIDE DEF row
  <1>4. /\ revisions' \in Seq(RevisionRow) /\ Len(revisions') = Len(revisions)
        /\ DOMAIN revisions' = DOMAIN revisions /\ revisions'[n] = row
        /\ \A m \in DOMAIN revisions \ {n} : revisions'[m] = revisions[m]
        /\ Len(revisions) \in Nat
    BY <1>1, <1>2, <1>3
  <1>5. \A m \in DOMAIN revisions :
            /\ revisions'[m].origin = revisions[m].origin
            /\ revisions'[m].changes = revisions[m].changes
            /\ revisions'[m].base = revisions[m].base
            /\ revisions'[m].status # "rejected" => revisions'[m].status = revisions[m].status
    BY <1>2, <1>4
  <1>6. TrailStands
    BY <1>4, <1>5 DEF RowsInv, RowsShape, TrailStands
  <1>7. OwnersWait'
    BY <1>4, <1>5 DEF RowsInv, OwnersWait
  <1>8. RoomIsLeft'
    BY <1>3, <1>4 DEF RowsInv, RoomIsLeft, Recording, RejectRevision
  <1>9. \A s \in Writer : \/ writing'[s] = NoWriting
                          \/ writing'[s] = writing[s] /\ StaysUndisturbed(s)
    <2> SUFFICES ASSUME NEW s \in Writer, writing[s] # NoWriting PROVE StaysUndisturbed(s)
      BY <1>3
    <2>1. writing[s].kind = "apply" => writing[s].revision \in DOMAIN revisions
      BY DEF RowsInv, ApplyingAProposal, AppliesAProposal
    <2> QED BY <1>3, <1>5, <2>1 DEF RowsInv, AloneIsUndisturbed, HasItAlone, StaysUndisturbed
  <1>10. RowsInv'
    BY <1>3, <1>6, <1>7, <1>8, <1>9, EndingKeeps DEF RowsInv, RowsShape
  <1>11. TrailTellsTheStep
    BY <1>3, <1>4, <1>5, QuietStepTells
  <1> QED BY <1>10, <1>11

LEMMA RowsNextTells ==
    RowsInv /\ [RowsNext]_rowVars => RowsInv' /\ TrailTellsTheStep
  <1> DEFINE Goal == RowsInv' /\ TrailTellsTheStep
  <1> SUFFICES ASSUME RowsInv, [RowsNext]_rowVars PROVE Goal
    OBVIOUS
  <1>1. CASE UNCHANGED rowVars
    <2>1. UNCHANGED <<history, listing, revisions, writing>>
      BY <1>1 DEF rowVars
    <2>2. RoomIsLeft'
      BY <2>1 DEF RowsInv, RoomIsLeft, Recording
    <2>3. \A s \in Writer : \/ writing'[s] = NoWriting
                            \/ writing'[s] = writing[s] /\ StaysUndisturbed(s)
      BY <2>1 DEF RowsInv, AloneIsUndisturbed, HasItAlone, StaysUndisturbed
    <2>4. RowsInv'
      BY <2>1, <2>2, <2>3, EndingKeeps, SameTrailStands DEF RowsInv, RowsShape
    <2> QED BY <2>1, <2>4, QuietStepTells
  <1>2. CASE RowsNext
    <2>1. UNCHANGED history
      BY <1>2 DEF RowsNext
    <2>2. ASSUME NEW r \in Writer, NEW values \in OneField, BeginEdit(r, values) PROVE Goal
      BY <2>1, <2>2, BeginEditTells
    <2>3. ASSUME NEW r \in Writer, CommitEdit(r) PROVE Goal
      BY <2>1, <2>3, CommitEditTells
    <2>4. ASSUME NEW r \in Writer, NEW value \in Facets, BeginAddFacet(r, value) PROVE Goal
      BY <2>1, <2>4, ReadsFacetsTells DEF BeginAddFacet
    <2>5. ASSUME NEW r \in Writer, NEW value \in Facets, BeginRemoveFacet(r, value) PROVE Goal
      BY <2>1, <2>5, ReadsFacetsTells DEF BeginRemoveFacet
    <2>6. ASSUME NEW r \in Writer, CommitAddFacet(r) PROVE Goal
      BY <2>1, <2>6, CommitAddFacetTells
    <2>7. ASSUME NEW r \in Writer, FacetTaken(r) \/ WritingEnds(r) PROVE Goal
      BY <2>1, <2>7, EndingAlone DEF FacetTaken, WritingEnds
    <2>8. ASSUME NEW r \in Writer, CommitRemoveFacet(r) PROVE Goal
      BY <2>1, <2>8, CommitRemoveFacetTells
    <2>9. ASSUME NEW r \in Writer, NEW n \in DOMAIN revisions, BeginApply(r, n) PROVE Goal
      BY <2>1, <2>9, BeginApplyTells
    <2>10. ASSUME NEW r \in Writer, CommitApply(r) PROVE Goal
      BY <2>1, <2>10, CommitApplyTells
    <2>11. ASSUME NEW r \in Writer, NEW changes \in OneField \cup OneList,
                  BeginPropose(r, changes)
           PROVE  Goal
      BY <2>1, <2>11, BeginProposeTells
    <2>13. ASSUME NEW r \in Writer, CommitPropose(r) PROVE Goal
      BY <2>1, <2>13, CommitProposeTells
    <2>12. ASSUME NEW n \in DOMAIN revisions, RejectRevision(n) PROVE Goal
      BY <2>1, <2>12, RejectRevisionTells
    <2> HIDE DEF Goal
    <2> QED BY <1>2, <2>2, <2>3, <2>4, <2>5, <2>6, <2>7, <2>8, <2>9, <2>10, <2>11, <2>12,
            <2>13 DEF RowsNext
  <1> QED BY <1>1, <1>2

----------------------------------------------------------------------------
\* CatalogRows: a history is about prices or about a listing

LEMMA CatalogSteps ==
    [CatalogNext]_catalogVars => [PricesNext]_priceVars /\ [RowsNext]_rowVars
  BY DEF CatalogNext, catalogVars

LEMMA CatalogStarts == CatalogInit => PricesInv /\ RowsInv
  BY PricesInitInv, RowsInitInv DEF CatalogInit

\* Rows have the types their columns and their code give them.
THEOREM CatalogTypeCorrect == CatalogSpec => []CatalogTypeOK
  <1>1. PricesInv => PricesTypeOK
    <2> SUFFICES ASSUME PricesInv PROVE PricesTypeOK
      OBVIOUS
    <2>1. \A i \in PriceId : prices[i] = NoPrice \/ prices[i] \in PriceRow
      BY DEF PricesInv, PricesShape
    <2>2. \A p \in Proposals : proposals[p] = NoProposal \/ proposals[p] \in ProposalRow
      BY DEF PricesInv, PricesShape
    <2>3. \A r \in Request :
              /\ request[r].stage \in {"none", "next", "close", "closing", "open", "commit"}
              /\ request[r].todo \cup request[r].done \subseteq Proposals
              /\ request[r].previous \cup request[r].targets \subseteq PriceId
      BY DEF PricesInv, PricesShape, Transaction
    <2> QED BY <2>1, <2>2, <2>3 DEF PricesTypeOK, PriceRow, ProposalRow
  <1>2. RowsInv => RowsTypeOK
    <2> SUFFICES ASSUME RowsInv PROVE RowsTypeOK
      OBVIOUS
    <2>1. \A c \in Changes : Holds(c)
      BY DEF Changes
    <2>2. Len(revisions) <= history.made
      <3>1. Len(revisions) \in Nat /\ history.made \in Nat
        BY RowsAssumption DEF RowsInv, RowsShape, RowsAssumption
      <3> QED BY <3>1, RecordingCounts DEF RowsInv, RoomIsLeft
    <2>3. \A n \in DOMAIN revisions :
              /\ revisions[n].origin \in {"owner", "staff"}
              /\ revisions[n].status \in {"submitted", "approved", "rejected"}
              /\ Holds(revisions[n].changes) /\ Holds(revisions[n].base)
              /\ DOMAIN revisions[n].changes = DOMAIN revisions[n].base
      <3>1. \A n \in DOMAIN revisions : revisions[n] \in RevisionRow
        BY DEF RowsInv, RowsShape
      <3> QED BY <2>1, <3>1 DEF RowsInv, RowsShape, RevisionRow
    <2>4. \A r \in Writer : /\ Holds(writing[r].changes) /\ Holds(writing[r].before)
                            /\ writing[r].revision \in 0..Len(revisions)
      BY <2>1 DEF RowsInv, RowsShape, Writing
    <2> QED BY <2>1, <2>2, <2>3, <2>4 DEF RowsInv, RowsShape, RowsTypeOK
  <1>3. PricesInv /\ RowsInv => CatalogTypeOK
    BY <1>1, <1>2 DEF CatalogTypeOK
  <1>4. PricesInv /\ RowsInv /\ [CatalogNext]_catalogVars => PricesInv' /\ RowsInv'
    BY CatalogSteps, PricesNextInv, RowsNextTells
  <1> QED BY <1>3, <1>4, CatalogStarts, PTL DEF CatalogSpec

\* A slot never shows two prices, and a plan that was priced stays priced
\* (uniq_current_plan_price, staff.py set_plan_price, admin.py approve_proposals).
THEOREM CatalogPricedOnce == CatalogSpec => []PricedOnce
  <1>1. PricesInv => PricedOnce
    BY DEF PricesInv
  <1> QED BY <1>1, CatalogStarts, CatalogSteps, PricesNextInv, PTL DEF CatalogSpec

\* What staff are told was replaced is what was closed, and what owners are told
\* was approved was published (staff.py:597-619, admin.py:924).
THEOREM CatalogSaidIsDone == CatalogSpec => []SaidIsDone
  <1>1. PricesInv => SaidIsDone
    BY DEF PricesInv, SaidIsDone
  <1> QED BY <1>1, CatalogStarts, CatalogSteps, PricesNextInv, PTL DEF CatalogSpec

\* Each revision recorded as applied tells the step that recorded it: an edit's
\* always, whatever runs beside it, and with one request at a time every one.
THEOREM CatalogTrailIsTheHistory == CatalogSpec => TrailIsTheHistory
  <1>1. RowsInv /\ [RowsNext]_rowVars => RowsInv' /\ TrailTellsTheStep
    BY RowsNextTells
  <1> QED BY <1>1, CatalogStarts, CatalogSteps, PTL DEF CatalogSpec, TrailIsTheHistory
=============================================================================
