SPECIFICATION Spec
CONSTANTS
  p1 = p1
  p2 = p2
  t1 = t1
  t2 = t2
  t3 = t3
  o1 = o1
  orgA = orgA
  orgB = orgB
  NoTx = NoTx
  NoOrder = NoOrder
  Product = {p1, p2}
  Org = {orgA, orgB}
  OrderId = {o1}
  Request = {t1, t2}
  Owner <- MCOwner
  InitialStock <- MCInitialStock
  Input <- PurchaseInput
  OrderInput <- OrderedItems
  Price = {1, 2}
  MaxInt = 6
SYMMETRY Symmetry
INVARIANTS
  CancelledTouchesNoStock
