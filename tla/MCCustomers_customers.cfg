SPECIFICATION CustomersSpec
CONSTANTS
  org = org
  standard = standard
  pro = pro
  x1 = x1
  x2 = x2
  w1 = w1
  w2 = w2
  w3 = w3
  NoPlan = NoPlan
  NoWorker = NoWorker
  NoPayment = NoPayment
  Org = {org}
  Plan = {standard, pro}
  Payment = {x1, x2}
  Worker = {w1, w2}
  AdminWorker = {}
  AnswersLost = FALSE
  Period <- MCPeriod
  Quota <- MCQuota
  TrialQuota = 1
  TrialDays = 1
  ExtraDays = 1
  MaxTime = 2
  MaxEnd = 3
  Users = {u1}
  AuthCalls = {c1, c2}
  MaxAttempts = 1
  CodeLife = 1
  ResendCooldown = 1
  ChallengeLife = 1
  RefreshLife = 0
  LinkLife = 0
  MaxClock = 1
  MaxChallenges = 2
  MaxTokens = 2
  MaxLinks = 2
  MaxCodes = 2
  Admins = {p1, p2}
  Clients = {d1}
  NoClient = NoClient
  Readers = {p1}
  PageSize = 1
  MaxJournal = 3
  Viewers <- MCViewers
  Standings = {"TRIAL", "STANDARD", "LOCKED"}
  MaxChanges = 1
  s1 = s1
  s2 = s2
  f1 = f1
  f2 = f2
  Skus = {s1, s2}
  Blank = Blank
  Bad = Bad
  Files = {f1, f2}
  Content <- MCContent
  NoFile = NoFile
  MaxRows = 4
  ShopCalls = {h1}
  MaxProducts = 2
  MaxImports = 2
SYMMETRY Symmetry
INVARIANTS
  TypeOK
  ExpiredTrialIsOver
  QuotaHolds
  TriesBounded
  OneSessionPerChallenge
  LoginClosesEarlier
  LiveSessionsFollowPassword
  ScreenShowsOwnWork
  PagesAgreeWithGuards
  JournalTellsState
  AccessIsJournaled
  PagesMissNothing
  ImportAccounted
  NothingUnmapped
PROPERTIES
  ActivationIsPaid
  ActiveStaysActive
CHECK_DEADLOCK FALSE
