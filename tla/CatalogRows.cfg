SPECIFICATION CatalogSpec
CONSTANTS
  Slots = {"usd", "over"}
  BaseSlots = {"usd"}
  Figures = {"f1", "f2"}
  Proposals = {"p1", "p2"}
  Request = {"r1", "r2"}
  MaxPrices = 3
  Fields = {"tagline", "summary"}
  Values = {1, 2}
  Facets = {"pdf", "image"}
  Required = {"pdf", "image"}
  Writer = {"w1", "w2"}
  Histories <- MCHistories
CHECK_DEADLOCK FALSE
INVARIANTS
  CatalogTypeOK
  SaidIsDone
  PricedOnce
PROPERTIES
  RequestsEnd
  TrailIsTheHistory
