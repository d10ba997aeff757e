---------------------------- MODULE DocumentCost ----------------------------
(* What a month of work costs on each published plan                          *)
(* (lib/catalog/document-cost.ts), and the calculator that shows it: the      *)
(* reader types a volume, picks up to MAX_TOOLS tools - kept in the URL, which *)
(* a click changes only some time later - and a currency, while the prices     *)
(* and the exchange rates are still being read.  Amounts are ten-thousandths,  *)
(* as in the code.                                                             *)
EXTENDS ApiClient, Integers, FiniteSets

CONSTANTS
    Catalog,     \* the published listings: slug -> its plans, in tier order
    Ecb,         \* the ECB rates the API serves, per one euro
    MAX,         \* largest volume a field takes
    DEFAULT_VOLUME, \* what both fields start with
    MAX_TOOLS,   \* tools compared at once
    Typed,       \* bound: what is typed in a field, <<>> when it is no number
    Urls         \* bound: comparisons a saved URL may name

VARIABLES
    slugs,       \* prop: the tools the URL names
    navigating,  \* the URL router.replace is on its way to, <<>> or <<it>>
    volume,      \* useState: both fields, <<>> when empty
    chosen,      \* useState: the display currency picked, or "default"
    queries      \* the query cache: how each read of the page stands

calcVars == <<slugs, navigating, volume, chosen, queries>>

Units == {"page", "document", "month", "year", "seat_month", "seat_year", "one_time", "api_call"}
SUBSCRIPTION == {"month", "year", "seat_month", "seat_year", "one_time"}
Price == [amount : Nat, currency : STRING, unit : Units, is_overage : BOOLEAN]
Limit == [kind : STRING, value : Nat, is_unlimited : BOOLEAN]
Plan == [code : STRING, prices : Seq(Price), limits : SUBSET Limit]

ASSUME CatalogAssumption ==
    /\ IsFiniteSet(DOMAIN Catalog)
    /\ \A s \in DOMAIN Catalog :
          /\ Catalog[s] \in Seq(Plan)
          /\ \A i, j \in DOMAIN Catalog[s] :   \* uniq_tool_plan_code
                Catalog[s][i].code = Catalog[s][j].code => i = j
    /\ \A c \in DOMAIN Ecb : Ecb[c] \in Nat \ {0}
    /\ MAX \in Nat \ {0} /\ DEFAULT_VOLUME \in 1..MAX /\ MAX_TOOLS \in Nat
    /\ Typed \subseteq Seq(Int) /\ Urls \subseteq Seq(STRING)

----------------------------------------------------------------------------
\* the first current price of a kind: the fee, or the rate past the allowance
Published(plan, overage) ==
    {i \in DOMAIN plan.prices : plan.prices[i].is_overage = overage}
HasBase(plan) == Published(plan, FALSE) # {}
BasePrice(plan) == plan.prices[Min(Published(plan, FALSE))]
MetersBy(plan, unit) ==
    /\ Published(plan, TRUE) # {}
    /\ plan.prices[Min(Published(plan, TRUE))].unit = unit
OverageAmount(plan) == plan.prices[Min(Published(plan, TRUE))].amount

\* the published caps of a kind; the smallest is the one that is hit
Caps(plan, kind) ==
    {limit.value : limit \in {l \in plan.limits : l.kind = kind /\ ~l.is_unlimited}}
Excess(used, caps) == IF caps = {} \/ used <= Min(caps) THEN 0 ELSE used - Min(caps)

Pages(in) == in.documents * in.pagesPerDocument
Used(in, unit) == IF unit = "page" THEN Pages(in) ELSE in.documents
Monthly(plan, unit) ==
    Caps(plan, IF unit = "page" THEN "pages_per_month" ELSE "documents_per_month")
Over(plan, in, unit) == Excess(Used(in, unit), Monthly(plan, unit))

\* A plan that cannot take the work: a document longer than it allows, or an
\* allowance that runs out with no rate published in its unit.
TooLong(plan, in) == Excess(in.pagesPerDocument, Caps(plan, "pages_per_document")) > 0
Unpriced(plan, in, unit) == Over(plan, in, unit) > 0 /\ ~MetersBy(plan, unit)
OverLimit(plan, in) == \/ TooLong(plan, in)
                       \/ \E unit \in {"document", "page"} : Unpriced(plan, in, unit)

\* the overage of the one unit the plan meters
Metered(plan, in) ==
    IF Over(plan, in, "document") > 0 THEN Over(plan, in, "document") * OverageAmount(plan)
    ELSE IF Over(plan, in, "page") > 0 THEN Over(plan, in, "page") * OverageAmount(plan)
    ELSE 0

\* the fee and, past the allowance, the overage on top of it
OverageInstead(plan, in) ==
    IF Metered(plan, in) > 0 THEN Metered(plan, in) ELSE BasePrice(plan).amount
FeeAndOverage(plan, in) == BasePrice(plan).amount + Metered(plan, in)

Unstated(kind) == [kind |-> kind, total |-> 0, currency |-> "none"]
Amount(plan, total) ==
    [kind |-> "amount", total |-> total, currency |-> BasePrice(plan).currency]

CostOf(plan, in) ==
    LET base == BasePrice(plan) IN
    IF ~HasBase(plan) THEN Unstated("not-comparable")
    ELSE IF OverLimit(plan, in) THEN Unstated("over-limit")
    ELSE IF base.unit \in SUBSCRIPTION
         THEN IF Monthly(plan, "document") \cup Monthly(plan, "page") = {}
              THEN Unstated("included")
              ELSE Amount(plan, FeeAndOverage(plan, in))
    ELSE IF base.unit \in {"page", "document"}
         THEN Amount(plan, base.amount * Used(in, base.unit))
    ELSE Unstated("not-comparable")

----------------------------------------------------------------------------
\* Math.round of n / d
Rounded(n, d) == (2 * n + d) \div (2 * d)

\* an amount in another currency, through the euro; a rate that is missing
\* leaves it as published
Convert(priced, to, rates) ==
    IF priced.currency # to /\ {priced.currency, to} \subseteq DOMAIN rates
    THEN [priced EXCEPT !.total = Rounded(@ * rates[to], rates[priced.currency]),
                        !.currency = to]
    ELSE priced

\* the rows with a figure for this month: a costed total, or a flat monthly fee
\* that covers it.  A row is [key, plan].
Candidates(rows, in, to, rates) ==
    {Convert([key |-> row.key, currency |-> BasePrice(row.plan).currency,
              total |-> IF CostOf(row.plan, in).kind = "amount" THEN CostOf(row.plan, in).total
                                                            ELSE BasePrice(row.plan).amount],
             to, rates) :
        row \in {r \in rows : \/ CostOf(r.plan, in).kind = "amount"
                              \/ /\ CostOf(r.plan, in).kind = "included"
                                 /\ BasePrice(r.plan).unit = "month"}}

AnyCurrencies(candidates) == TRUE
OneCurrency(candidates) == Cardinality({c.currency : c \in candidates}) <= 1

\* the rows named cheapest: all that tie, and none across currencies
CheapestRows(rows, in, to, rates) ==
    LET priced == Candidates(rows, in, to, rates) IN
    {c.key : c \in {d \in priced : OneCurrency(priced) /\ \A e \in priced : d.total <= e.total}}

\* a hub row: the first cheapest plan of the tool, in the published currency
PlanRows(slug) == {[key |-> <<slug, plan.code>>, plan |-> plan] : plan \in Range(Catalog[slug])}
CheapestCost(slug, in) ==
    LET best == {i \in DOMAIN Catalog[slug] :
                    <<slug, Catalog[slug][i].code>>
                        \in CheapestRows(PlanRows(slug), in, "published", <<>>)} IN
    IF best = {} THEN {} ELSE {Catalog[slug][Min(best)].code}

----------------------------------------------------------------------------
Tools == DOMAIN Catalog
ListTools == KeyWith("ListTools", <<>>, "page_size")
ListExchangeRates == Key("ListExchangeRates", <<>>)

\* what a sequence holds at some of its positions, in order
Picked(seq, positions) ==
    [n \in 1..Cardinality(positions) |->
        seq[CHOOSE p \in positions : Cardinality({q \in positions : q <= p}) = n]]

\* the comparison a URL means: each tool once, the first MAX_TOOLS
ToolSlugsRepeated(url) == url
ToolSlugs(url) ==
    LET first == {i \in DOMAIN url : \A j \in 1..i - 1 : url[j] # url[i]} IN
    Picked(url, {i \in first : Cardinality({j \in first : j < i}) < MAX_TOOLS})

CalcSlugs == (UNION {Range(url) : url \in Urls}) \cup Tools
CalcKeys == {ListTools, ListExchangeRates} \cup {GetTool(s) : s \in CalcSlugs}

CalcInit ==
    /\ slugs \in {ToolSlugs(url) : url \in Urls}
    /\ navigating = <<>>
    /\ volume = [documents |-> <<DEFAULT_VOLUME>>, pages |-> <<DEFAULT_VOLUME>>]
    /\ chosen = "default"
    /\ queries = [k \in CalcKeys |-> "pending"]

\* a mid-edit blank prices as one
VolumeInput(v) == [documents |-> IF v.documents = <<>> THEN 1 ELSE Head(v.documents),
                   pagesPerDocument |-> IF v.pages = <<>> THEN 1 ELSE Head(v.pages)]
Clamp(value) ==
    IF value = <<>> THEN <<>>
    ELSE <<IF Head(value) < 1 THEN 1 ELSE IF Head(value) > MAX THEN MAX ELSE Head(value)>>

\* the table: the plans of the tools that arrived, once none is on its way
Loading == \E s \in Range(slugs) : queries[GetTool(s)] = "pending"
Compared == {s \in Range(slugs) : queries[GetTool(s)] = "here"}
TableShown == queries[ListTools] = "here" /\ slugs # <<>> /\ ~Loading
Rows == UNION {PlanRows(s) : s \in Compared}

\* the display currency: the one picked, or what most rows publish in, dollars
\* winning a tie and then the row that comes first
RowCurrencies ==
    FoldSeq(LAMBDA s, acc : acc \o
               (IF s \in Compared
                THEN LET based == SelectSeq(Catalog[s], HasBase) IN
                     [i \in DOMAIN based |-> BasePrice(based[i]).currency]
                ELSE <<>>),
            <<>>, slugs)
MostUsed(currencies) ==
    LET uses(c) == {i \in DOMAIN currencies : currencies[i] = c}
        leads(c, d) ==
            \/ Cardinality(uses(c)) > Cardinality(uses(d))
            \/ /\ Cardinality(uses(c)) = Cardinality(uses(d))
               /\ c = "USD" \/ (d # "USD" /\ Min(uses(c)) <= Min(uses(d))) IN
    IF currencies = <<>> THEN "USD"
    ELSE CHOOSE c \in Range(currencies) : \A d \in Range(currencies) : leads(c, d)
Currency == IF chosen = "default" THEN MostUsed(RowCurrencies) ELSE chosen
Rates == IF queries[ListExchangeRates] = "here" THEN Ecb ELSE <<>>
Options == (Range(RowCurrencies) \cup {"USD", "EUR", "GBP"}) \cap DOMAIN Rates

\* what the table badges, and the total a row prints
Badged == CheapestRows(Rows, VolumeInput(volume), Currency, Rates)
Shown(row, v, currency) ==
    LET cost == CostOf(row.plan, VolumeInput(v)) IN
    IF cost.kind = "amount" THEN Convert(cost, currency, Rates) ELSE cost

----------------------------------------------------------------------------
TypeVolume ==
    /\ queries[ListTools] = "here"
    /\ \E value \in Typed : \/ volume' = [volume EXCEPT !.documents = Clamp(value)]
                            \/ volume' = [volume EXCEPT !.pages = Clamp(value)]
    /\ UNCHANGED <<slugs, navigating, chosen, queries>>

\* a click replaces the URL by the selection it was rendered with, changed; the
\* navigation lands later, and a second click before that starts from the same
PickTool(slug) ==
    /\ queries[ListTools] = "here"
    /\ slug \in Tools \ Range(slugs) /\ Len(slugs) < MAX_TOOLS
    /\ navigating' = <<Append(slugs, slug)>>
    /\ UNCHANGED <<slugs, volume, chosen, queries>>

RemoveTool(slug) ==
    /\ queries[ListTools] = "here"
    /\ slug \in Range(slugs) \cap Tools
    /\ navigating' = <<Picked(slugs, {i \in DOMAIN slugs : slugs[i] # slug})>>
    /\ UNCHANGED <<slugs, volume, chosen, queries>>

Navigate ==
    /\ navigating # <<>>
    /\ slugs' = ToolSlugs(Head(navigating))
    /\ navigating' = <<>>
    /\ UNCHANGED <<volume, chosen, queries>>

PickCurrency ==
    /\ TableShown /\ Cardinality(Options) >= 2
    /\ \E c \in Options : c # Currency /\ chosen' = c
    /\ UNCHANGED <<slugs, navigating, volume, queries>>

\* reads: the list, a detail per tool in the URL, the rates once the table is
\* up.  A tool that was delisted has no detail.
Wanted == {ListTools} \cup {GetTool(s) : s \in Range(slugs)}
          \cup (IF TableShown THEN {ListExchangeRates} ELSE {})
ReadArrives(key) ==
    /\ key \in Wanted /\ queries[key] # "here"
    /\ \/ /\ key \in {ListTools, ListExchangeRates} \cup {GetTool(s) : s \in Tools}
          /\ queries' = [queries EXCEPT ![key] = "here"]
       \/ queries[key] = "pending" /\ queries' = [queries EXCEPT ![key] = "failed"]
    /\ UNCHANGED <<slugs, navigating, volume, chosen>>

CalcNext ==
    \/ TypeVolume \/ Navigate \/ PickCurrency
    \/ \E slug \in Tools : PickTool(slug) \/ RemoveTool(slug)
    \/ \E key \in CalcKeys : ReadArrives(key)
CalcSpec == CalcInit /\ [][CalcNext]_calcVars

----------------------------------------------------------------------------
\* A comparison is a set of at most MAX_TOOLS tools, however the clicks overtake
\* the navigation.
CalcTypeOK ==
    /\ slugs \in Seq(CalcSlugs) /\ IsInjective(slugs) /\ Len(slugs) <= MAX_TOOLS
    /\ \A f \in {"documents", "pages"} : volume[f] = <<>> \/ Head(volume[f]) \in 1..MAX
    /\ chosen \in {"default"} \cup DOMAIN Ecb
    /\ queries \in [CalcKeys -> {"pending", "here", "failed"}]

\* More work never costs less: raising a field of the volume lowers no total the
\* table shows, and brings no plan back that could not take less - across the
\* allowances, the overage rates, the caps and the rounding of a converted total
\* (documentCost).
MoreWorkNeverCostsLess ==
    [][LET less == VolumeInput(volume)
           more == VolumeInput(volume')
           currency == Currency IN
       /\ volume' # volume
       /\ less.documents <= more.documents /\ less.pagesPerDocument <= more.pagesPerDocument
       => \A row \in Rows :
             LET was == Shown(row, volume, currency)
                 is == Shown(row, volume', currency) IN
             /\ was.kind = "over-limit" => is.kind = "over-limit"
             /\ is.kind = "amount" => was.kind = "amount" /\ was.total <= is.total]_calcVars

\* The row the table badges is the answer: no other total it prints is lower, a
\* printed total in another currency leaves no badge at all, and a tool's row in
\* the hub names no plan the table would not badge for that tool
\* (cheapestRows, cheapestCost: "can never name a different plan").
CheapestIsRanked ==
    TableShown =>
        LET badged == Badged
            currency == Currency
            in == VolumeInput(volume)
            totals == {[key |-> row.key, cost |-> Shown(row, volume, currency)] : row \in Rows} IN
        /\ \A mine, its \in {t \in totals : t.cost.kind = "amount"} :
              mine.key \in badged => /\ mine.cost.currency = its.cost.currency
                                     /\ mine.cost.total <= its.cost.total
        /\ Len(slugs) = 1 =>
              \A slug \in Compared : \A code \in CheapestCost(slug, in) : <<slug, code>> \in badged
=============================================================================
