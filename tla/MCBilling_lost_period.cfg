SPECIFICATION Spec
CONSTANTS
  org = org
  standard = standard
  pro = pro
  x1 = x1
  x2 = x2
  w1 = w1
  w2 = w2
  w3 = w3
  NoPlan = NoPlan
  NoWorker = NoWorker
  NoPayment = NoPayment
  Org = {org}
  Plan = {standard}
  Payment = {x1, x2}
  Worker = {w1, w2}
  AdminWorker = {}
  AnswersLost = FALSE
  Period <- MCPeriod
  Quota <- MCQuota
  TrialQuota = 1
  TrialDays = 1
  ExtraDays = 1
  MaxTime = 1
  MaxEnd = 3
SYMMETRY Symmetry
PROPERTIES
  PaidPeriodKept
CHECK_DEADLOCK FALSE
