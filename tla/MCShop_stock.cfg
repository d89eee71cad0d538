SPECIFICATION ShopSpec
CONSTANTS
  p1 = p1
  p2 = p2
  t1 = t1
  t2 = t2
  t3 = t3
  o1 = o1
  orgA = orgA
  orgB = orgB
  NoTx = NoTx
  NoOrder = NoOrder
  Product = {p1, p2}
  Org = {orgA, orgB}
  OrderId = {o1}
  Request = {t1, t2, t3}
  Owner <- MCOwner
  InitialStock <- MCInitialStock
  Input <- StockInput
  OrderInput <- NoOrders
  Price = {1}
  MaxInt = 4
  a1 = a1
  a2 = a2
  k1 = k1
  k2 = k2
  Companies = {k1, k2}
  Emails = {e1, e2}
  AccountCalls = {a1, a2}
  SeatLimits = {2}
  Unlimited = Unlimited
  MaxRetries = 1
  InviteLife = 1
  MaxDay = 2
  MaxInvites = 2
  m1 = m1
  m2 = m2
  m3 = m3
  w1 = w1
  w2 = w2
  Tools = {g1, g2}
  MaxIterations = 2
  MaxChat = 2
  Quota = 2
  Batch <- MCBatch
  Texts = {m1, m3}
  Workers = {w1, w2}
  MaxDeliveries = 2
  MaxShown = 4
INVARIANTS
  TypeOK
  LedgerReplays
  FirstMovementShowsInitialStock
  TenantIsolation
  FoundedByOne
  OneUserPerInvite
  AnswersFollowQuestions
  RepliedOnce
PROPERTIES
  ImplementsLedger
  EveryCallEnds
  ExchangesEnd
  SeatsRespected
  InvitationAnswered
