----------------------------- MODULE CatalogRows -----------------------------
(* The rows of the catalog that several requests write at once: the prices of *)
(* a plan, and a listing with its revisions.  But for a date a new price       *)
(* stamps on the listing no request writes both, so a history is about one of *)
(* them and the other stands still.                                           *)
EXTENDS PlanPrices, ListingRows

VARIABLE rows

catalogVars == <<rows, priceVars, rowVars>>

CatalogInit ==
    /\ rows \in {"prices", "listing"}
    /\ PricesInit /\ RowsInit
    /\ rows = "prices" => /\ history = CHOOSE h \in Histories : TRUE
                          /\ \A f \in Fields : listing[f] = CHOOSE v \in Values : TRUE

CatalogNext ==
    /\ UNCHANGED rows
    /\ IF rows = "prices"  THEN PricesNext ELSE UNCHANGED priceVars
    /\ IF rows = "listing" THEN RowsNext   ELSE UNCHANGED rowVars

CatalogFairness ==
    /\ \A r \in Request : SF_priceVars(rows = "prices" /\ TransactionSteps(r))
    /\ WF_priceVars(rows = "prices" /\ BreakDeadlock)

CatalogSpec == CatalogInit /\ [][CatalogNext]_catalogVars /\ CatalogFairness

CatalogTypeOK == PricesTypeOK /\ RowsTypeOK
=============================================================================
