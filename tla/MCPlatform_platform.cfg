SPECIFICATION PlatformSpec
CONSTANTS
  org = org
  standard = standard
  pro = pro
  x1 = x1
  x2 = x2
  w1 = w1
  w2 = w2
  w3 = w3
  NoPlan = NoPlan
  NoWorker = NoWorker
  NoPayment = NoPayment
  Org = {org}
  Plan = {standard}
  Payment = {x1}
  Worker = {w1, w2}
  AdminWorker = {w1}
  AnswersLost = TRUE
  Period <- MCPeriod
  Quota <- MCQuota
  TrialQuota = 1
  TrialDays = 1
  ExtraDays = 1
  MaxTime = 2
  MaxEnd = 3
  c1 = c1
  c2 = c2
  Users = {u1}
  AuthCalls = {c1, c2}
  MaxAttempts = 1
  CodeLife = 1
  ResendCooldown = 1
  ChallengeLife = 1
  RefreshLife = 0
  LinkLife = 0
  MaxClock = 1
  MaxChallenges = 2
  MaxTokens = 2
  MaxLinks = 2
  MaxCodes = 2
  QueryRetries = 1
  Firms = {k1}
  Nobody = Nobody
  OnboardingSteps <- MCSteps
INVARIANTS
  StoredTokenLives
  RoutingTypeOK
  PaidCustomerEnters
PROPERTIES
  AwaitingUntilPaid
  PaidIsActivated
  RequestsEnd
  RedirectsSettle
CHECK_DEADLOCK FALSE
