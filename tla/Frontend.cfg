SPECIFICATION FrontendSpec
CONSTANTS
  Cases = {"c1"}
  MaxPicks = 2
  MaxLoops = 2
  MaxDrafts = 1
  Fields = {"tagline"}
  Values = {1, 2}
  Facets = {"f1", "f2"}
  Required = {"f1", "f2"}
  DetailFields = {"name"}
  Slug = "tool"
  StaffVisits <- MCStaffVisits
  MaxSaves = 2
  Accounts = {"a"}
  Strangers = {"s"}
  Pictures = {1, 2}
  ToolVisits <- MCToolVisits
  MaxComments = 3
  MaxWrites = 2
  Threads <- MCThreads
  CommentVisits <- MCCommentVisits
  OwnerFields = {"name", "tagline"}
  OwnerValues = {1, 2}
  ShotIds = {1, 2}
  MaxHeld = 2
  OwnerVisits <- MCOwnerVisits
  Submissions = {"s1"}
  KeyIds = {1, 2}
  AccountVisits <- MCAccountVisits
  Addresses = {"a", "b"}
  Deactivated = {"b"}
  MaxMails = 2
  MaxChecks = 2
  ConsentTabs = {1, 2}
  MaxAnswers = 3
  TOPICS = {"a", "b"}
  LinkIds = {1, 2}
  NewsTabs = {1, 2}
  NewsVisits <- MCNewsVisits
  Catalog <- MCCatalog
  Ecb <- MCEcb
  MAX = 4
  DEFAULT_VOLUME = 4
  MAX_TOOLS = 2
  Typed <- MCTyped
  Urls <- MCUrls
  AccessTTL = 3
  RefreshTTL = 3
  EXPIRY_SKEW = 2
  MaxDelay = 1
  Readings = {1, 2}
  MaxTime = 3
  MaxPairs = 3
CHECK_DEADLOCK FALSE
INVARIANTS
  FrontendTypeOK
  DoneRowWasStored
  ShotsOnTheirOwnRun
  SwapNotRefused
  PagesAreCurrent
  TreeHoldsEveryComment
  NoRequestExpires
  RefreshRaceKeepsSession
  ConfirmedByItsOwner
  UnsubscribedStays
  ShownIsSo
  CheapestIsRanked
PROPERTIES
  ButtonsComeBack
  UploadedShotIsListed
  ScoringShownSettles
  MoreWorkNeverCostsLess
