------------------------- MODULE InventoryProofs -------------------------
(* What holds of Inventory for every set of products, organizations, orders  *)
(* and calls.  TypeOK alone is not inductive: that an item exists at the      *)
(* cursor of a call depends on the order it receives, hence Cursor.           *)
EXTENDS Inventory, Rows

(* Calls work on existing items; an order that exists has items.             *)
Cursor ==
    /\ \A o \in OrderId : orders[o].status # "absent" => orders[o].items # <<>>
    /\ \A t \in Request :
          /\ req[t].pc \in {"idle", "check"} => req[t].idx = 1
          /\ req[t].pc = "check" => req[t].input.op \in {"receive", "cancel"}
          /\ req[t].pc \in {"read", "write"} => /\ req[t].idx <= Len(Items(t))
                                                /\ req[t].input.op # "cancel"
          /\ /\ req[t].input.op \in {"receive", "cancel"}
             /\ req[t].pc \in {"read", "write", "finish"}
             => orders[req[t].input.order].status # "absent"

TypeInv == TypeOK /\ Cursor

-----------------------------------------------------------------------------
(* The input of a call, and the items it works through                       *)

\* The input of a call is one of Input, so its items are items of products.
LEMMA InputFacts ==
    ASSUME NEW in \in Input
    PROVE  /\ in \in InputType
           /\ in.op \in Op /\ in.org \in Org /\ in.items \in Seq(Item)
           /\ in.op \in {"receive", "cancel"} => in.order \in OrderId
           /\ in.op \notin {"receive", "cancel"} => in.items # <<>>
  BY InventoryAssumption DEF InputType

\* What a request in progress works through is a sequence of items.
LEMMA ItemsType ==
    ASSUME TypeOK, NEW t \in Request
    PROVE  Items(t) \in Seq(Item)
<1>1. req[t].input \in Input
  BY DEF TypeOK
<1>2. CASE req[t].input.op = "receive"
  <2>1. req[t].input.order \in OrderId
    BY <1>1, <1>2, InputFacts
  <2> QED
    BY <1>2, <2>1 DEF Items, TypeOK, Order
<1>3. CASE req[t].input.op # "receive"
  BY <1>1, <1>3, InputFacts DEF Items
<1> QED
  BY <1>2, <1>3

\* The item a request in progress stands at is one of them.
LEMMA CurType ==
    ASSUME TypeInv, NEW t \in Request, req[t].pc \in {"read", "write"}
    PROVE  /\ Cur(t) \in Item
           /\ Cur(t).product \in Product
           /\ Cur(t).quantity \in 0..MaxInt
           /\ Cur(t).unitCost \in Price
<1>1. Items(t) \in Seq(Item)
  BY ItemsType DEF TypeInv
<1>2. req[t].idx \in 1..Len(Items(t))
  BY <1>1 DEF TypeInv, TypeOK, Cursor
<1>3. Cur(t) \in Item
  BY <1>1, <1>2 DEF Cur
<1> QED
  BY <1>3 DEF Item

-----------------------------------------------------------------------------
(* Type correctness                                                          *)

\* The initial state is well typed and its cursors are in range.
LEMMA TypeInit == Init => TypeInv
<1> SUFFICES ASSUME Init PROVE TypeInv
  OBVIOUS
<1>1. /\ (CHOOSE in \in Input : TRUE) \in Input
      /\ (CHOOSE org \in Org : TRUE) \in Org
  BY InventoryAssumption
<1>2. rows \in [Product -> Row]
  <2>1. PICK price \in Price :
          rows = [p \in Product |-> [stock |-> InitialStock[p],
                                     purchasePrice |-> price, salePrice |-> price,
                                     movements |-> <<>>]]
    BY DEF Init
  <2> QED
    BY <2>1, InventoryAssumption DEF Row
<1>3. TypeOK
  BY <1>1, <1>2, InventoryAssumption DEF Init, TypeOK, Order, OrderStatus, PC
<1>4. Cursor
  BY <1>1 DEF Init, Cursor
<1> QED
  BY <1>3, <1>4 DEF TypeInv

\* One locked update of product p keeps locks and working copies well typed.
LEMMA WriteType ==
    ASSUME TypeOK, NEW t \in Request, NEW p \in Product,
           NEW stock \in 0..MaxInt, NEW cost \in Price, NEW m \in Movement,
           Write(t, p, stock, cost, m)
    PROVE  draft' \in [Product -> Row] /\ lock' \in [Product -> Request \cup {NoTx}]
<1>1. draft[p].movements \in Seq(Movement) /\ draft[p].salePrice \in Price
  BY DEF TypeOK, Row
<1>2. Append(draft[p].movements, m) \in Seq(Movement)
  BY <1>1
<1>3. [stock |-> stock, purchasePrice |-> cost, salePrice |-> draft[p].salePrice,
       movements |-> Append(draft[p].movements, m)] \in Row
  BY <1>1, <1>2 DEF Row
<1> QED
  BY <1>3 DEF TypeOK, Write

\* No step of any call disturbs the types or moves a cursor out of range.
LEMMA TypeNext == TypeInv /\ [Next]_vars => TypeInv'
<1> SUFFICES ASSUME TypeInv, [Next]_vars PROVE TypeInv'
  OBVIOUS
<1> USE DEF TypeInv
<1> DEFINE ReqType == [pc : PC, input : Input, idx : Nat \ {0},
                       seen : 0..MaxInt, lines : Seq(SaleLine)]
<1>a. \A t \in Request : req[t] \in ReqType
  BY DEF TypeOK
<1>0. MaxInt \in Nat
  BY InventoryAssumption
<1>1. ASSUME NEW t \in Request, Submit(t) PROVE TypeInv'
  <2>1. PICK in \in Input :
          req' = [req EXCEPT ![t].pc = FirstStep(in.op), ![t].input = in]
    BY <1>1 DEF Submit
  <2>2. /\ in.op \in Op /\ in.items \in Seq(Item)
        /\ in.op \notin {"receive", "cancel"} => in.items # <<>>
    BY InputFacts
  <2>3. /\ FirstStep(in.op) \in PC
        /\ FirstStep(in.op) = "check" <=> in.op \in {"receive", "cancel"}
        /\ FirstStep(in.op) # "idle"
    BY <2>2 DEF FirstStep, Op, PC
  <2>a. [req[t] EXCEPT !.pc = FirstStep(in.op), !.input = in] \in ReqType
    BY <1>a, <2>3
  <2>4. TypeOK'
    BY <1>1, <2>1, <2>a DEF Submit, TypeOK
  <2>5. Cursor'
    BY <1>1, <2>1, <2>2, <2>3 DEF Submit, TypeOK, Cursor, Items
  <2> QED
    BY <2>4, <2>5
<1>2. ASSUME NEW t \in Request, CheckOrder(t) PROVE TypeInv'
  <2>1. req[t].input.op \in {"receive", "cancel"} /\ req[t].idx = 1
    BY <1>2 DEF CheckOrder, Cursor
  <2>2. orders[req[t].input.order].status = "PENDING"
    BY <1>2 DEF CheckOrder, OrderOpen
  <2>3. TypeOK'
    BY ZenonT(40), <1>2 DEF CheckOrder, Goto, TypeOK, PC
  <2>4. req[t].input.op = "receive" => Items(t) # <<>> /\ Items(t) \in Seq(Item)
    BY <2>2, ItemsType, InputFacts DEF Items, Cursor, TypeOK
  <2>5. Cursor'
    BY <1>2, <2>1, <2>2, <2>4 DEF CheckOrder, Goto, TypeOK, Cursor, Items
  <2> QED
    BY <2>3, <2>5
<1>3. ASSUME NEW t \in Request, ReadProduct(t) PROVE TypeInv'
  <2>1. Cur(t).product \in Product
    BY <1>3, CurType DEF ReadProduct
  <2>2. Visible(t, Cur(t).product).stock \in 0..MaxInt
    BY <2>1 DEF Visible, TypeOK, Row
  <2>3. req' \in [Request -> ReqType]
    BY ZenonT(40), <1>3, <2>2 DEF ReadProduct, TypeOK, PC
  <2>4. Cursor'
    BY <1>3 DEF ReadProduct, TypeOK, Cursor, Items
  <2> QED
    BY <1>3, <2>3, <2>4 DEF ReadProduct, TypeOK
<1> DEFINE Advance(t) ==
      /\ req'[t].idx = req[t].idx + 1
      /\ req'[t].input = req[t].input
      /\ req'[t].pc \in {"read", "write", "finish"}
      /\ req'[t].pc # "finish" => req[t].idx # Len(Items(t))
      /\ \A u \in Request \ {t} : req'[u] = req[u]
<1>4. ASSUME NEW t \in Request, req[t].pc = "write", Advance(t),
             UNCHANGED orders
      PROVE  Cursor'
  <2>1. Items(t) \in Seq(Item) /\ req[t].idx \in 1..Len(Items(t))
    BY <1>4, ItemsType DEF TypeOK, Cursor
  <2>2. \A u \in Request : Items(u)' = Items(u)
    BY <1>4 DEF Items
  <2>3. req'[t].pc # "finish" => req'[t].idx <= Len(Items(t)')
    BY <1>4, <2>1, <2>2
  <2> QED
    BY <1>4, <2>2, <2>3 DEF Cursor
<1>5. ASSUME NEW t \in Request, Increment(t) PROVE TypeInv'
  <2> DEFINE p == Cur(t).product
             q == Cur(t).quantity
             cost == IF req[t].input.op = "receive" THEN Cur(t).unitCost
                                                    ELSE draft[p].purchasePrice
             m == [type |-> "IN", quantity |-> q,
                   previousQuantity |-> req[t].seen,
                   newQuantity |-> draft[p].stock + q, by |-> t]
  <2>1. p \in Product /\ q \in 0..MaxInt /\ Cur(t).unitCost \in Price
    BY <1>5, CurType DEF Increment
  <2>2. draft[p].stock \in 0..MaxInt /\ draft[p].purchasePrice \in Price
    BY <2>1 DEF TypeOK, Row
  <2>3. draft[p].stock + q \in 0..MaxInt /\ cost \in Price
    BY <1>0, <1>5, <2>1, <2>2 DEF Increment
  <2>4. m \in Movement
    BY <1>0, <2>1, <2>3 DEF Movement, MovementType, TypeOK
  <2>5. Write(t, p, draft[p].stock + q, cost, m)
    BY <1>5 DEF Increment
  <2>6. draft' \in [Product -> Row] /\ lock' \in [Product -> Request \cup {NoTx}]
    <3> HIDE DEF p, q, cost, m
    <3> QED
      BY <2>1, <2>3, <2>4, <2>5, WriteType
  <2>7. req' \in [Request -> ReqType] /\ Advance(t)
    BY <1>5 DEF Increment, AfterItem, TypeOK, PC
  <2>8. req[t].pc = "write" /\ UNCHANGED <<rows, orders, sales>>
    BY <1>5 DEF Increment
  <2>9. Cursor'
    BY <1>4, <2>7, <2>8
  <2> QED
    BY <2>6, <2>7, <2>8, <2>9 DEF TypeOK
<1>6. ASSUME NEW t \in Request, Decrement(t) PROVE TypeInv'
  <2> DEFINE p == Cur(t).product
             q == Cur(t).quantity
             m == [type |-> "OUT", quantity |-> q,
                   previousQuantity |-> draft[p].stock,
                   newQuantity |-> draft[p].stock - q, by |-> t]
             line == [product |-> p, quantity |-> q,
                      unitPrice |-> draft[p].salePrice,
                      unitCost |-> draft[p].purchasePrice]
  <2>1. p \in Product /\ q \in 0..MaxInt
    BY <1>6, CurType DEF Decrement
  <2>2. /\ draft[p].stock \in 0..MaxInt
        /\ draft[p].purchasePrice \in Price /\ draft[p].salePrice \in Price
    BY <2>1 DEF TypeOK, Row
  <2>3. draft[p].stock - q \in 0..MaxInt
    BY <1>0, <1>6, <2>1, <2>2 DEF Decrement
  <2>4. m \in Movement /\ line \in SaleLine
    BY <1>0, <2>1, <2>2, <2>3 DEF Movement, MovementType, SaleLine
  <2>5. Write(t, p, draft[p].stock - q, draft[p].purchasePrice, m)
    BY <1>6 DEF Decrement
  <2>6. draft' \in [Product -> Row] /\ lock' \in [Product -> Request \cup {NoTx}]
    <3> HIDE DEF p, q, m
    <3> QED
      BY <2>1, <2>2, <2>3, <2>4, <2>5, WriteType
  <2>7. req' \in [Request -> ReqType] /\ Advance(t)
    <3>1. Append(req[t].lines, line) \in Seq(SaleLine)
      BY <2>4 DEF TypeOK
    <3>2. req' = [req EXCEPT ![t].pc = AfterItem(t, "write"), ![t].idx = @ + 1,
                             ![t].lines = Append(@, line)]
      BY <1>6 DEF Decrement
    <3>3. AfterItem(t, "write") \in {"write", "finish"}
      BY DEF AfterItem
    <3> HIDE DEF line
    <3>a. req[t].idx + 1 \in Nat \ {0} /\ AfterItem(t, "write") \in PC
      BY <1>a, <3>3 DEF PC
    <3>4. [req[t] EXCEPT !.pc = AfterItem(t, "write"), !.idx = @ + 1,
                         !.lines = Append(@, line)] \in ReqType
      BY <1>a, <3>1, <3>a
    <3>5. req' \in [Request -> ReqType]
      BY <3>2, <3>4 DEF TypeOK
    <3>6. Advance(t)
      BY <3>2, <3>3 DEF AfterItem, TypeOK
    <3> QED
      BY <3>5, <3>6
  <2>8. req[t].pc = "write" /\ UNCHANGED <<rows, orders, sales>>
    BY <1>6 DEF Decrement
  <2>9. Cursor'
    BY <1>4, <2>7, <2>8
  <2> QED
    BY <2>6, <2>7, <2>8, <2>9 DEF TypeOK
<1>7. ASSUME NEW t \in Request, Adjust(t) PROVE TypeInv'
  <2> DEFINE p == Cur(t).product
             q == Cur(t).quantity
             m == [type |-> "ADJUSTMENT", quantity |-> q - req[t].seen,
                   previousQuantity |-> req[t].seen, newQuantity |-> q, by |-> t]
  <2>1. p \in Product /\ q \in 0..MaxInt
    BY <1>7, CurType DEF Adjust
  <2>2. draft[p].purchasePrice \in Price
    BY <2>1 DEF TypeOK, Row
  <2>3. m \in Movement
    BY <1>0, <2>1 DEF Movement, MovementType, TypeOK
  <2>4. Write(t, p, q, draft[p].purchasePrice, m)
    BY <1>7 DEF Adjust
  <2>5. draft' \in [Product -> Row] /\ lock' \in [Product -> Request \cup {NoTx}]
    <3> HIDE DEF p, q, m
    <3> QED
      BY <2>1, <2>2, <2>3, <2>4, WriteType
  <2>6. req' \in [Request -> ReqType] /\ Advance(t)
    <3>1. req' = [req EXCEPT ![t].pc = AfterItem(t, "read"), ![t].idx = @ + 1]
      BY <1>7 DEF Adjust
    <3>2. req[t].idx + 1 \in Nat \ {0} /\ AfterItem(t, "read") \in {"read", "finish"}
      BY <1>a DEF AfterItem
    <3>3. [req[t] EXCEPT !.pc = AfterItem(t, "read"), !.idx = @ + 1] \in ReqType
      BY <1>a, <3>2 DEF PC
    <3>4. req' \in [Request -> ReqType]
      BY <3>1, <3>3 DEF TypeOK
    <3>5. Advance(t)
      BY <3>1, <3>2 DEF AfterItem, TypeOK
    <3> QED
      BY <3>4, <3>5
  <2>7. req[t].pc = "write" /\ UNCHANGED <<rows, orders, sales>>
    BY <1>7 DEF Adjust
  <2>8. Cursor'
    BY <1>4, <2>6, <2>7
  <2> QED
    BY <2>5, <2>6, <2>7, <2>8 DEF TypeOK
<1>8. ASSUME NEW t \in Request, Finish(t) PROVE TypeInv'
  <2>1. rows' \in [Product -> Row] /\ lock' \in [Product -> Request \cup {NoTx}]
    BY <1>8 DEF Finish, Visible, TypeOK
  <2>2. req' \in [Request -> ReqType] /\ sales' \in [Request -> Seq(SaleLine)]
    BY <1>8 DEF Finish, Goto, TypeOK, PC
  <2>3. /\ orders' \in [OrderId -> Order]
        /\ \A o \in OrderId : /\ orders'[o].items = orders[o].items
                              /\ orders[o].status # "absent" => orders'[o].status # "absent"
                              /\ orders'[o].status # "absent" => orders'[o].items # <<>>
    <3> DEFINE in == req[t].input
    <3>1. CASE in.op \in {"receive", "cancel"}
      <4>1. in.order \in OrderId /\ orders[in.order].status # "absent"
        BY <1>8, <3>1, InputFacts DEF Finish, Cursor, TypeOK
      <4>2. FinalStatus[in.op] \in {"RECEIVED", "CANCELLED"}
        BY <3>1 DEF FinalStatus
      <4>3. orders' = [orders EXCEPT ![in.order].status = FinalStatus[in.op]]
        BY <1>8, <3>1 DEF Finish
      <4> HIDE DEF in
      <4> QED
        BY ZenonT(40), <4>1, <4>2, <4>3 DEF TypeOK, Order, OrderStatus, Cursor
    <3>2. CASE in.op \notin {"receive", "cancel"}
      BY <1>8, <3>2 DEF Finish, TypeOK, Cursor
    <3> QED
      BY <3>1, <3>2
  <2>4. Cursor'
    <3>1. req' = [req EXCEPT ![t].pc = "done"]
      BY <1>8 DEF Finish, Goto
    <3> QED
      BY ZenonT(40), <2>3, <3>1, InputFacts DEF TypeOK, Cursor, Items
  <2> QED
    BY <1>8, <2>1, <2>2, <2>3, <2>4 DEF Finish, TypeOK
<1>9. ASSUME NEW t \in Request, Rollback(t) PROVE TypeInv'
  <2>1. TypeOK'
    BY <1>9 DEF Rollback, Goto, TypeOK, PC
  <2>2. Cursor'
    BY <1>9 DEF Rollback, Goto, TypeOK, Cursor, Items
  <2> QED
    BY <2>1, <2>2
<1>10. ASSUME NEW o \in OrderId, CreateOrder(o) PROVE TypeInv'
  <2>1. PICK in \in OrderInput :
          orders' = [orders EXCEPT ![o] = [status |-> "PENDING", org |-> in.org,
                                           items |-> in.items]]
    BY <1>10 DEF CreateOrder
  <2>2. in.org \in Org /\ in.items \in Seq(Item) /\ in.items # <<>>
    BY InventoryAssumption
  <2>3. TypeOK'
    BY <1>10, <2>1, <2>2 DEF CreateOrder, TypeOK, Order, OrderStatus
  <2>4. Cursor'
    BY <1>10, <2>1, <2>2, InputFacts DEF CreateOrder, TypeOK, Cursor, Items
  <2> QED
    BY <2>3, <2>4
<1>11. ASSUME NEW p \in Product, UpdatePrices(p) PROVE TypeInv'
  <2>1. TypeOK'
    <3>1. PICK cost \in Price, price \in Price :
            LET row == [rows[p] EXCEPT !.purchasePrice = cost, !.salePrice = price]
            IN  rows' = [rows EXCEPT ![p] = row] /\ draft' = [draft EXCEPT ![p] = row]
      BY <1>11 DEF UpdatePrices
    <3>2. [rows[p] EXCEPT !.purchasePrice = cost, !.salePrice = price] \in Row
      BY ZenonT(40) DEF TypeOK, Row
    <3> QED
      BY <1>11, <3>1, <3>2 DEF UpdatePrices, TypeOK
  <2>2. Cursor'
    BY <1>11 DEF UpdatePrices, Cursor, Items
  <2> QED
    BY <2>1, <2>2
<1>12. CASE UNCHANGED vars
  BY <1>12 DEF vars, TypeOK, Cursor, Items
<1> QED
  BY <1>1, <1>2, <1>3, <1>5, <1>6, <1>7, <1>8, <1>9, <1>10, <1>11, <1>12
     DEF Next, Step, Refuse, Abort

(* Every reachable state is well typed: in particular no stock is negative or *)
(* beyond the INTEGER column, whatever calls run concurrently.                *)
THEOREM TypeCorrect == Spec => []TypeOK
<1>1. Spec => []TypeInv
  BY TypeInit, TypeNext, PTL DEF Spec
<1>2. TypeInv => TypeOK
  BY DEF TypeInv
<1> QED
  BY <1>1, <1>2, PTL

-----------------------------------------------------------------------------
(* The ledger                                                                *)

\* Committed rows and working copies alike replay from the initial stock: a
\* transaction always adds to the latest version of the row it has locked.
LedgerInv == \A p \in Product : Replays(p, rows[p]) /\ Replays(p, draft[p])

\* A movement that documents the stock it was made at prolongs a replay.
LEMMA AppendReplays ==
    ASSUME NEW p \in Product, NEW row \in Row, Replays(p, row),
           NEW m \in Movement, Documents(m, row.stock),
           NEW new, new.movements = Append(row.movements, m),
           new.stock = m.newQuantity
    PROVE  Replays(p, new)
<1> DEFINE n == Len(row.movements)
<1>1. row.movements \in Seq(Movement) /\ n \in Nat
  BY DEF Row
<1>2. /\ Len(new.movements) = n + 1
      /\ new.movements[n + 1] = m
      /\ \A i \in 1..n : new.movements[i] = row.movements[i]
  BY <1>1
<1>3. \A i \in 1..n + 1 : Before(p, new.movements, i) = Before(p, row.movements, i)
  BY <1>1, <1>2 DEF Before
<1>4. Before(p, row.movements, n + 1) = row.stock
  BY DEF Replays
<1>5. ASSUME NEW i \in 1..Len(new.movements)
      PROVE  Documents(new.movements[i], Before(p, new.movements, i))
  <2>1. CASE i = n + 1
    BY <1>2, <1>3, <1>4, <2>1
  <2>2. CASE i \in 1..n
    BY <1>2, <1>3, <2>2 DEF Replays
  <2> QED
    BY <1>1, <1>2, <2>1, <2>2
<1>6. new.stock = Before(p, new.movements, Len(new.movements) + 1)
  BY <1>1, <1>2 DEF Before
<1> QED
  BY <1>5, <1>6 DEF Replays

\* Changing the prices of a row does not change what it replays.
LEMMA SameMovements ==
    ASSUME NEW p \in Product, NEW row, NEW new, Replays(p, row),
           new.movements = row.movements, new.stock = row.stock
    PROVE  Replays(p, new)
  BY DEF Replays

\* One locked update that documents itself keeps every replay.
LEMMA WriteReplays ==
    ASSUME TypeOK, LedgerInv, NEW t \in Request, NEW p \in Product,
           NEW stock, NEW cost, NEW m \in Movement, Write(t, p, stock, cost, m),
           Documents(m, draft[p].stock), m.newQuantity = stock, UNCHANGED rows
    PROVE  LedgerInv'
<1> DEFINE new == [stock |-> stock, purchasePrice |-> cost,
                   salePrice |-> draft[p].salePrice,
                   movements |-> Append(draft[p].movements, m)]
<1>1. draft' = [draft EXCEPT ![p] = new]
  BY DEF Write, TypeOK
<1>2. draft[p] \in Row /\ Replays(p, draft[p])
  BY DEF TypeOK, LedgerInv
<1>3. new.movements = Append(draft[p].movements, m) /\ new.stock = m.newQuantity
  OBVIOUS
<1>4. Replays(p, new)
  <2> HIDE DEF new
  <2> QED
    BY <1>2, <1>3, AppendReplays
<1>5. \A r \in Product : draft'[r] = IF r = p THEN new ELSE draft[r]
  BY <1>1 DEF TypeOK
<1> HIDE DEF new
<1>6. \A r \in Product : Replays(r, rows[r])' /\ Replays(r, draft[r])'
  BY <1>4, <1>5 DEF LedgerInv, Replays, Before
<1> QED
  BY <1>6 DEF LedgerInv

\* Without movements the stock is the initial one.
LEMMA LedgerInit == Init => LedgerInv
<1> SUFFICES ASSUME Init, NEW p \in Product
             PROVE  Replays(p, rows[p]) /\ Replays(p, draft[p])
  BY DEF LedgerInv
<1>1. rows[p].movements = <<>> /\ rows[p].stock = InitialStock[p] /\ draft = rows
  BY DEF Init
<1> QED
  BY <1>1 DEF Replays, Before

\* No step of any call breaks a replay, committed or not.
LEMMA LedgerNext == TypeInv /\ LedgerInv /\ [Next]_vars => LedgerInv'
<1> SUFFICES ASSUME TypeInv, LedgerInv, [Next]_vars PROVE LedgerInv'
  OBVIOUS
<1>0. MaxInt \in Nat /\ TypeOK
  BY InventoryAssumption DEF TypeInv
<1>1. CASE UNCHANGED <<rows, draft>>
  BY <1>1 DEF LedgerInv, Replays, Before
<1>2. ASSUME NEW t \in Request, Increment(t) PROVE LedgerInv'
  <2> DEFINE p == Cur(t).product
             q == Cur(t).quantity
             s == draft[p].stock
             m == [type |-> "IN", quantity |-> q, previousQuantity |-> req[t].seen,
                   newQuantity |-> s + q, by |-> t]
  <2>1. p \in Product /\ q \in 0..MaxInt
    BY <1>2, CurType DEF Increment
  <2>2. s \in 0..MaxInt /\ s + q \in 0..MaxInt
    <3>1. s \in 0..MaxInt
      BY <1>0, <2>1 DEF TypeOK, Row
    <3>2. s + q <= MaxInt
      BY <1>2 DEF Increment
    <3> HIDE DEF s, q
    <3> QED
      BY <1>0, <2>1, <3>1, <3>2
  <2>3. m \in Movement
    BY <1>0, <2>1, <2>2 DEF Movement, MovementType, TypeOK
  <2>4. Documents(m, s) /\ m.newQuantity = s + q
    BY DEF Documents
  <2>5. PICK cost : Write(t, p, s + q, cost, m)
    BY <1>2 DEF Increment
  <2>6. UNCHANGED rows
    BY <1>2 DEF Increment
  <2> HIDE DEF p, q, m
  <2> QED
    BY <1>0, <2>1, <2>3, <2>4, <2>5, <2>6, WriteReplays
<1>3. ASSUME NEW t \in Request, Decrement(t) PROVE LedgerInv'
  <2> DEFINE p == Cur(t).product
             q == Cur(t).quantity
             s == draft[p].stock
             m == [type |-> "OUT", quantity |-> q, previousQuantity |-> s,
                   newQuantity |-> s - q, by |-> t]
  <2>1. p \in Product /\ q \in 0..MaxInt
    BY <1>3, CurType DEF Decrement
  <2>2. s \in 0..MaxInt /\ s - q \in 0..MaxInt
    <3>1. s \in 0..MaxInt
      BY <1>0, <2>1 DEF TypeOK, Row
    <3>2. s >= q
      BY <1>3 DEF Decrement
    <3> HIDE DEF s, q
    <3> QED
      BY <1>0, <2>1, <3>1, <3>2
  <2>3. m \in Movement
    BY <1>0, <2>1, <2>2 DEF Movement, MovementType
  <2>4. Documents(m, s) /\ m.newQuantity = s - q
    BY DEF Documents
  <2>5. PICK cost : Write(t, p, s - q, cost, m)
    BY <1>3 DEF Decrement
  <2>6. UNCHANGED rows
    BY <1>3 DEF Decrement
  <2> HIDE DEF p, q, m
  <2> QED
    BY <1>0, <2>1, <2>3, <2>4, <2>5, <2>6, WriteReplays
<1>4. ASSUME NEW t \in Request, Adjust(t) PROVE LedgerInv'
  <2> DEFINE p == Cur(t).product
             q == Cur(t).quantity
             m == [type |-> "ADJUSTMENT", quantity |-> q - req[t].seen,
                   previousQuantity |-> req[t].seen, newQuantity |-> q, by |-> t]
  <2>1. p \in Product /\ q \in 0..MaxInt
    BY <1>4, CurType DEF Adjust
  <2>2. m \in Movement
    BY <1>0, <2>1 DEF Movement, MovementType, TypeOK
  <2>3. Documents(m, draft[p].stock) /\ m.newQuantity = q
    BY DEF Documents
  <2>4. PICK cost : Write(t, p, q, cost, m)
    BY <1>4 DEF Adjust
  <2>5. UNCHANGED rows
    BY <1>4 DEF Adjust
  <2> HIDE DEF p, q, m
  <2> QED
    BY <1>0, <2>1, <2>2, <2>3, <2>4, <2>5, WriteReplays
<1>5. ASSUME NEW t \in Request, Finish(t) PROVE LedgerInv'
  <2>1. \A p \in Product : rows'[p] = Visible(t, p) /\ draft' = draft
    BY <1>5 DEF Finish
  <2>2. \A p \in Product : rows'[p] \in {rows[p], draft[p]}
    BY <2>1 DEF Visible
  <2>3. \A p \in Product : draft'[p] = draft[p]
    BY <2>1
  <2> QED
    BY ZenonT(40), <2>2, <2>3 DEF LedgerInv, Replays, Before
<1>6. ASSUME NEW t \in Request, Rollback(t) PROVE LedgerInv'
  <2>1. \A p \in Product : draft'[p] \in {rows[p], draft[p]} /\ rows' = rows
    BY <1>6 DEF Rollback
  <2> QED
    BY <2>1 DEF LedgerInv, Replays, Before
<1>7. ASSUME NEW p \in Product, UpdatePrices(p) PROVE LedgerInv'
  <2>1. PICK new : /\ rows' = [rows EXCEPT ![p] = new]
                   /\ draft' = [draft EXCEPT ![p] = new]
                   /\ new.movements = rows[p].movements
                   /\ new.stock = rows[p].stock
    <3>1. PICK cost \in Price, price \in Price :
            LET row == [rows[p] EXCEPT !.purchasePrice = cost, !.salePrice = price]
            IN  rows' = [rows EXCEPT ![p] = row] /\ draft' = [draft EXCEPT ![p] = row]
      BY <1>7 DEF UpdatePrices
    <3> DEFINE row == [rows[p] EXCEPT !.purchasePrice = cost, !.salePrice = price]
    <3>2. row.movements = rows[p].movements /\ row.stock = rows[p].stock
      BY <1>0 DEF TypeOK, Row
    <3> QED
      BY <3>1, <3>2
  <2>2. Replays(p, new)
    BY <2>1, SameMovements DEF LedgerInv
  <2>3. \A r \in Product : /\ rows'[r] = IF r = p THEN new ELSE rows[r]
                           /\ draft'[r] = IF r = p THEN new ELSE draft[r]
    BY <1>0, <2>1 DEF TypeOK
  <2> QED
    BY ZenonT(40), <2>2, <2>3 DEF LedgerInv, Replays, Before
<1>8. \A t \in Request : Submit(t) \/ CheckOrder(t) \/ ReadProduct(t) =>
         UNCHANGED <<rows, draft>>
  BY DEF Submit, CheckOrder, ReadProduct
<1>9. \A o \in OrderId : CreateOrder(o) => UNCHANGED <<rows, draft>>
  BY DEF CreateOrder
<1> QED
  BY <1>1, <1>2, <1>3, <1>4, <1>5, <1>6, <1>7, <1>8, <1>9
     DEF Next, Step, Refuse, Abort, vars

(* The committed stock of every product is, at every moment, what its          *)
(* movements replay from its initial stock: no concurrent entry, exit, sale,    *)
(* reception or count is lost (stock.service.ts:39-58, 89-127, 162-178).        *)
THEOREM LedgerCorrect == Spec => []LedgerReplays
<1>1. Spec => [](TypeInv /\ LedgerInv)
  BY TypeInit, TypeNext, LedgerInit, LedgerNext, PTL DEF Spec
<1>2. LedgerInv => LedgerReplays
  BY DEF LedgerInv, LedgerReplays
<1> QED
  BY <1>1, <1>2, PTL

-----------------------------------------------------------------------------
(* The first movement                                                        *)

ShowsInitial(p, row) ==
    row.movements # <<>> => row.movements[1].previousQuantity = InitialStock[p]

\* The unlocked read of a call about to write p is either of the initial stock,
\* or can no longer become the first movement: another one is committed, or the
\* call itself has already written one.
ReadBeforeFirst(t) ==
    LET p == Cur(t).product
    IN  \/ req[t].seen = InitialStock[p]
        \/ rows[p].movements # <<>>
        \/ lock[p] = t /\ draft[p].movements # <<>>

Reads(t) == req[t].pc = "write" /\ req[t].input.op \in {"stockIn", "receive", "adjust"}

FirstInv ==
    /\ \A p \in Product :
          /\ ShowsInitial(p, rows[p]) /\ ShowsInitial(p, draft[p])
          /\ lock[p] = NoTx => draft[p] = rows[p]
          /\ rows[p].movements # <<>> => draft[p].movements # <<>>
    /\ \A t \in Request : Reads(t) => ReadBeforeFirst(t)

AllInv == TypeInv /\ LedgerInv /\ FirstInv

\* Without movements there is nothing to show.
LEMMA FirstInit == Init => FirstInv
<1> SUFFICES ASSUME Init PROVE FirstInv
  OBVIOUS
<1>1. draft = rows /\ \A p \in Product : rows[p].movements = <<>>
  <2>1. ASSUME NEW p \in Product PROVE rows[p].movements = <<>>
    BY DEF Init
  <2> QED
    BY <2>1 DEF Init
<1>2. \A t \in Request : req[t].pc = "idle"
  BY DEF Init
<1> QED
  BY <1>1, <1>2 DEF FirstInv, ShowsInitial, Reads

\* Appending a movement disturbs the first one only when there was none.
LEMMA AppendFirst ==
    ASSUME NEW S, NEW s \in Seq(S), NEW m \in S
    PROVE  /\ Append(s, m) # <<>>
           /\ s # <<>> => Append(s, m)[1] = s[1]
           /\ s = <<>> => Append(s, m)[1] = m
<1>1. /\ Len(Append(s, m)) = Len(s) + 1
      /\ \A i \in 1..Len(s) : Append(s, m)[i] = s[i]
      /\ Append(s, m)[Len(s) + 1] = m
  OBVIOUS
<1>2. s # <<>> => Len(s) >= 1
  BY EmptySeq
<1> QED
  BY <1>1, <1>2

\* A locked write of p by t, which then leaves "write" or keeps no stale read.
LEMMA WriteFirst ==
    ASSUME TypeOK, FirstInv, NEW t \in Request, NEW p \in Product,
           NEW stock, NEW cost, NEW m \in Movement, Write(t, p, stock, cost, m),
           CanLock(t, p), UNCHANGED <<rows, orders>>, ~Reads(t)',
           draft[p].movements = <<>> => m.previousQuantity = InitialStock[p],
           \A u \in Request \ {t} : req'[u] = req[u]
    PROVE  FirstInv'
<1> DEFINE new == [stock |-> stock, purchasePrice |-> cost,
                   salePrice |-> draft[p].salePrice,
                   movements |-> Append(draft[p].movements, m)]
<1>1. /\ draft' = [draft EXCEPT ![p] = new]
      /\ lock' = [lock EXCEPT ![p] = t]
  BY DEF Write, TypeOK
<1>2. draft[p].movements \in Seq(Movement)
  BY DEF TypeOK, Row
<1>3. /\ new.movements # <<>>
      /\ draft[p].movements # <<>> => new.movements[1] = draft[p].movements[1]
      /\ draft[p].movements = <<>> => new.movements[1] = m
  BY <1>2, AppendFirst
<1>4. ShowsInitial(p, new)
  BY <1>3 DEF ShowsInitial, FirstInv
<1>5. \A r \in Product : /\ draft'[r] = IF r = p THEN new ELSE draft[r]
                         /\ lock'[r] = IF r = p THEN t ELSE lock[r]
  BY <1>1 DEF TypeOK
<1>6. t # NoTx
  BY InventoryAssumption
<1> HIDE DEF new
<1>7. ASSUME NEW r \in Product
      PROVE  /\ ShowsInitial(r, rows'[r]) /\ ShowsInitial(r, draft'[r])
             /\ lock'[r] = NoTx => draft'[r] = rows'[r]
             /\ rows'[r].movements # <<>> => draft'[r].movements # <<>>
  BY <1>3, <1>4, <1>5, <1>6 DEF FirstInv
<1>8. ASSUME NEW u \in Request, Reads(u)' PROVE ReadBeforeFirst(u)'
  <2>1. u # t /\ Reads(u) /\ Cur(u)' = Cur(u) /\ req'[u] = req[u]
    BY <1>8 DEF Reads, Cur, Items
  <2>2. ReadBeforeFirst(u)
    BY <2>1 DEF FirstInv
  <2>3. CASE Cur(u).product = p
    <3>1. lock[p] # u
      BY <2>1, InventoryAssumption DEF CanLock
    <3> QED
      BY <2>1, <2>2, <2>3, <3>1 DEF ReadBeforeFirst
  <2>4. CASE Cur(u).product # p
    BY <1>1, <2>1, <2>2, <2>4 DEF ReadBeforeFirst, TypeOK
  <2> QED
    BY <2>3, <2>4
<1> QED
  BY <1>7, <1>8 DEF FirstInv, ShowsInitial

\* No step lets a first movement show anything but the initial stock.
LEMMA FirstNext == AllInv /\ [Next]_vars => FirstInv'
<1> SUFFICES ASSUME AllInv, [Next]_vars PROVE FirstInv'
  OBVIOUS
<1>0. TypeInv /\ TypeOK /\ LedgerInv /\ FirstInv /\ MaxInt \in Nat
  BY InventoryAssumption DEF AllInv, TypeInv
\* A step that changes no row and lets no call reach "write" from elsewhere.
<1>1. ASSUME UNCHANGED <<rows, draft, lock>>,
             \A u \in Request : Reads(u)' => /\ Reads(u) /\ Cur(u)' = Cur(u)
                                             /\ req'[u].seen = req[u].seen
      PROVE  FirstInv'
  BY <1>0, <1>1 DEF FirstInv, ShowsInitial, ReadBeforeFirst
<1>2. ASSUME NEW t \in Request, Submit(t) PROVE FirstInv'
  <2>1. PICK in \in Input :
          req' = [req EXCEPT ![t].pc = FirstStep(in.op), ![t].input = in]
    BY <1>2 DEF Submit
  <2>2. in.op \in {"stockIn", "receive", "adjust"} => FirstStep(in.op) # "write"
    BY DEF FirstStep
  <2>3. ~Reads(t)'
    BY <1>0, <2>1, <2>2 DEF Reads, TypeOK
  <2>4. \A u \in Request \ {t} : req'[u] = req[u]
    BY <1>0, <2>1 DEF TypeOK
  <2> QED
    BY <1>1, <1>2, <2>3, <2>4 DEF Submit, Reads, Cur, Items
<1>3. ASSUME NEW t \in Request, CheckOrder(t) PROVE FirstInv'
  <2>1. ~Reads(t)' /\ \A u \in Request \ {t} : req'[u] = req[u]
    BY <1>0, <1>3 DEF CheckOrder, Goto, Reads, TypeOK
  <2> QED
    BY <1>1, <1>3, <2>1 DEF CheckOrder, Reads, Cur, Items
<1>4. ASSUME NEW t \in Request, ReadProduct(t) PROVE FirstInv'
  <2> DEFINE p == Cur(t).product
  <2>1. p \in Product
    BY <1>0, <1>4, CurType DEF ReadProduct
  <2>2. /\ UNCHANGED <<rows, draft, lock, orders, sales>>
        /\ req'[t].seen = Visible(t, p).stock
        /\ req'[t].idx = req[t].idx /\ req'[t].input = req[t].input
        /\ \A u \in Request \ {t} : req'[u] = req[u]
    BY <1>0, <1>4 DEF ReadProduct, TypeOK
  <2>3. \A u \in Request : Cur(u)' = Cur(u)
    BY <2>2 DEF Cur, Items
  <2>4. rows[p].movements = <<>> => rows[p].stock = InitialStock[p]
    BY <1>0, <2>1 DEF LedgerInv, Replays, Before
  <2>5. draft[p].movements = <<>> => draft[p].stock = InitialStock[p]
    BY <1>0, <2>1 DEF LedgerInv, Replays, Before
  <2>6. ReadBeforeFirst(t)'
    BY <2>2, <2>3, <2>4, <2>5 DEF ReadBeforeFirst, Visible
  <2>7. \A u \in Request : Reads(u)' => ReadBeforeFirst(u)'
    BY <1>0, <2>2, <2>3, <2>6 DEF Reads, ReadBeforeFirst, FirstInv
  <2> QED
    BY <1>0, <2>2, <2>7 DEF FirstInv, ShowsInitial
<1>5. ASSUME NEW t \in Request, Increment(t) PROVE FirstInv'
  <2> DEFINE p == Cur(t).product
             q == Cur(t).quantity
             s == draft[p].stock
             m == [type |-> "IN", quantity |-> q, previousQuantity |-> req[t].seen,
                   newQuantity |-> s + q, by |-> t]
  <2>1. p \in Product /\ q \in 0..MaxInt
    BY <1>0, <1>5, CurType DEF Increment
  <2>2. s + q \in 0..MaxInt
    <3>1. s \in 0..MaxInt
      BY <1>0, <2>1 DEF TypeOK, Row
    <3>2. s + q <= MaxInt
      BY <1>5 DEF Increment
    <3> HIDE DEF s, q
    <3> QED
      BY <1>0, <2>1, <3>1, <3>2
  <2>3. m \in Movement
    BY <1>0, <2>1, <2>2 DEF Movement, MovementType, TypeOK
  <2>4. PICK cost : Write(t, p, s + q, cost, m)
    BY <1>5 DEF Increment
  <2>5. CanLock(t, p) /\ UNCHANGED <<rows, orders>>
    BY <1>5 DEF Increment
  <2>6. ~Reads(t)' /\ \A u \in Request \ {t} : req'[u] = req[u]
    BY <1>0, <1>5 DEF Increment, AfterItem, Reads, TypeOK
  <2>7. ReadBeforeFirst(t)
    BY <1>0, <1>5 DEF Increment, Reads, FirstInv
  <2>8. draft[p].movements = <<>> => m.previousQuantity = InitialStock[p]
    BY <1>0, <2>1, <2>7 DEF ReadBeforeFirst, FirstInv
  <2> HIDE DEF p, q, m
  <2> QED
    BY <1>0, <2>1, <2>3, <2>4, <2>5, <2>6, <2>8, WriteFirst
<1>6. ASSUME NEW t \in Request, Adjust(t) PROVE FirstInv'
  <2> DEFINE p == Cur(t).product
             q == Cur(t).quantity
             m == [type |-> "ADJUSTMENT", quantity |-> q - req[t].seen,
                   previousQuantity |-> req[t].seen, newQuantity |-> q, by |-> t]
  <2>1. p \in Product /\ q \in 0..MaxInt
    BY <1>0, <1>6, CurType DEF Adjust
  <2>2. m \in Movement
    BY <1>0, <2>1 DEF Movement, MovementType, TypeOK
  <2>3. PICK cost : Write(t, p, q, cost, m)
    BY <1>6 DEF Adjust
  <2>4. CanLock(t, p) /\ UNCHANGED <<rows, orders>>
    BY <1>6 DEF Adjust
  <2>5. ~Reads(t)' /\ \A u \in Request \ {t} : req'[u] = req[u]
    BY <1>0, <1>6 DEF Adjust, AfterItem, Reads, TypeOK
  <2>6. ReadBeforeFirst(t)
    BY <1>0, <1>6 DEF Adjust, Reads, FirstInv
  <2>7. draft[p].movements = <<>> => m.previousQuantity = InitialStock[p]
    BY <1>0, <2>1, <2>6 DEF ReadBeforeFirst, FirstInv
  <2> HIDE DEF p, q, m
  <2> QED
    BY <1>0, <2>1, <2>2, <2>3, <2>4, <2>5, <2>7, WriteFirst
<1>7. ASSUME NEW t \in Request, Decrement(t) PROVE FirstInv'
  <2> DEFINE p == Cur(t).product
             q == Cur(t).quantity
             s == draft[p].stock
             m == [type |-> "OUT", quantity |-> q, previousQuantity |-> s,
                   newQuantity |-> s - q, by |-> t]
  <2>1. p \in Product /\ q \in 0..MaxInt
    BY <1>0, <1>7, CurType DEF Decrement
  <2>2. s \in 0..MaxInt /\ s - q \in 0..MaxInt
    <3>1. s \in 0..MaxInt
      BY <1>0, <2>1 DEF TypeOK, Row
    <3>2. s >= q
      BY <1>7 DEF Decrement
    <3> HIDE DEF s, q
    <3> QED
      BY <1>0, <2>1, <3>1, <3>2
  <2>3. m \in Movement
    BY <1>0, <2>1, <2>2 DEF Movement, MovementType
  <2>4. PICK cost : Write(t, p, s - q, cost, m)
    BY <1>7 DEF Decrement
  <2>5. CanLock(t, p) /\ UNCHANGED <<rows, orders>>
    BY <1>7 DEF Decrement
  <2>6. ~Reads(t)' /\ \A u \in Request \ {t} : req'[u] = req[u]
    BY <1>0, <1>7 DEF Decrement, Reads, TypeOK
  <2>7. draft[p].movements = <<>> => m.previousQuantity = InitialStock[p]
    BY <1>0, <2>1 DEF LedgerInv, Replays, Before
  <2> HIDE DEF p, q, m
  <2> QED
    BY <1>0, <2>1, <2>3, <2>4, <2>5, <2>6, <2>7, WriteFirst
\* The end of a transaction: for each row, its working copy and the committed
\* one become the same, or nothing changes.
<1>8. ASSUME NEW t \in Request, Finish(t) \/ Rollback(t) PROVE FirstInv'
  <2>1. /\ \A p \in Product : lock'[p] = IF lock[p] = t THEN NoTx ELSE lock[p]
        /\ ~Reads(t)'
        /\ \A u \in Request \ {t} : req'[u] = req[u]
    BY <1>0, <1>8 DEF Finish, Rollback, Goto, Reads, TypeOK
  <2>2. /\ \A p \in Product : lock[p] # t => rows'[p] = rows[p] /\ draft'[p] = draft[p]
        /\ \A p \in Product : lock[p] = t => rows'[p] = draft'[p]
        /\ \A p \in Product : rows'[p] \in {rows[p], draft[p]}
        /\ \A p \in Product : draft'[p] \in {rows[p], draft[p]}
    BY <1>0, <1>8 DEF Finish, Rollback, Visible, TypeOK
  <2>3. \A u \in Request : Items(u)' = Items(u) \/ u = t
    <3>1. \A o \in OrderId : orders'[o].items = orders[o].items
      <4>1. ASSUME NEW o \in OrderId, NEW x, NEW st,
                   orders' = [orders EXCEPT ![x].status = st]
            PROVE  orders'[o].items = orders[o].items
        BY <1>0, <4>1 DEF TypeOK, Order
      <4>2. \/ orders' = orders
            \/ \E x, st : orders' = [orders EXCEPT ![x].status = st]
        BY <1>8 DEF Finish, Rollback
      <4> QED
        BY <4>1, <4>2
    <3> QED
      BY <1>0, <2>1, <3>1, InputFacts DEF Items, TypeOK
  <2>4. ASSUME NEW u \in Request, Reads(u)' PROVE ReadBeforeFirst(u)'
    <3>1. u # t /\ Reads(u) /\ Cur(u)' = Cur(u) /\ req'[u] = req[u]
      BY <2>1, <2>3, <2>4 DEF Reads, Cur
    <3>2. Cur(u).product \in Product
      BY <1>0, <3>1, CurType DEF Reads
    <3>3. ReadBeforeFirst(u)
      BY <1>0, <3>1 DEF FirstInv
    <3> QED
      BY <1>0, <2>1, <2>2, <3>1, <3>2, <3>3 DEF ReadBeforeFirst, FirstInv
  <2>5. ASSUME NEW p \in Product
        PROVE  /\ ShowsInitial(p, rows'[p]) /\ ShowsInitial(p, draft'[p])
               /\ lock'[p] = NoTx => draft'[p] = rows'[p]
               /\ rows'[p].movements # <<>> => draft'[p].movements # <<>>
    BY <1>0, <2>1, <2>2 DEF FirstInv
  <2> QED
    BY <2>4, <2>5 DEF FirstInv, ShowsInitial
<1>9. ASSUME NEW o \in OrderId, CreateOrder(o) PROVE FirstInv'
  <2>1. UNCHANGED <<rows, draft, lock, req>>
    BY <1>9 DEF CreateOrder
  <2>2. \A r \in OrderId \ {o} : orders'[r] = orders[r]
    BY <1>0, <1>9 DEF CreateOrder, TypeOK
  <2>3. ASSUME NEW u \in Request, Reads(u) PROVE Items(u)' = Items(u)
    <3>1. req[u].input.op = "receive" => orders[req[u].input.order].status # "absent"
      BY <1>0, <2>3 DEF Reads, TypeInv, Cursor
    <3>2. req[u].input.op = "receive" => req[u].input.order \in OrderId \ {o}
      BY <1>0, <1>9, <3>1, InputFacts DEF CreateOrder, TypeOK
    <3> QED
      BY <2>1, <2>2, <3>2 DEF Items
  <2> QED
    BY <1>1, <2>1, <2>3 DEF Reads, Cur
<1>10. ASSUME NEW p \in Product, UpdatePrices(p) PROVE FirstInv'
  <2>1. PICK cost \in Price, price \in Price :
            LET row == [rows[p] EXCEPT !.purchasePrice = cost, !.salePrice = price]
            IN  rows' = [rows EXCEPT ![p] = row] /\ draft' = [draft EXCEPT ![p] = row]
    BY <1>10 DEF UpdatePrices
  <2> DEFINE new == [rows[p] EXCEPT !.purchasePrice = cost, !.salePrice = price]
  <2>2. new.movements = rows[p].movements
    BY <1>0 DEF TypeOK, Row
  <2>3. /\ \A r \in Product : /\ rows'[r] = IF r = p THEN new ELSE rows[r]
                              /\ draft'[r] = IF r = p THEN new ELSE draft[r]
        /\ UNCHANGED <<lock, orders, req>> /\ lock[p] = NoTx
    BY <1>0, <1>10, <2>1 DEF TypeOK, UpdatePrices
  <2>4. ASSUME NEW u \in Request, Reads(u)' PROVE ReadBeforeFirst(u)'
    <3>1. Reads(u) /\ Cur(u)' = Cur(u) /\ u # NoTx
      BY <2>3, <2>4, InventoryAssumption DEF Reads, Cur, Items
    <3>2. ReadBeforeFirst(u) /\ Cur(u).product \in Product
      BY <1>0, <3>1, CurType DEF Reads, FirstInv
    <3> HIDE DEF new
    <3> QED
      BY <2>2, <2>3, <3>1, <3>2 DEF ReadBeforeFirst
  <2> HIDE DEF new
  <2> QED
    BY <1>0, <2>2, <2>3, <2>4 DEF FirstInv, ShowsInitial
<1>11. CASE UNCHANGED vars
  BY <1>1, <1>11 DEF vars, Reads, Cur, Items
<1> QED
  BY <1>2, <1>3, <1>4, <1>5, <1>6, <1>7, <1>8, <1>9, <1>10, <1>11
     DEF Next, Step, Refuse, Abort

(* The quantity shown by a product's first movement is its initial stock,      *)
(* although it is read before the row is locked and other calls may commit or   *)
(* roll back in between (reports.service.ts:189-193, 272).                      *)
THEOREM FirstMovementCorrect == Spec => []FirstMovementShowsInitialStock
<1>1. Spec => []AllInv
  <2>1. Init => AllInv
    BY TypeInit, LedgerInit, FirstInit DEF AllInv
  <2>2. AllInv /\ [Next]_vars => AllInv'
    BY TypeNext, LedgerNext, FirstNext DEF AllInv
  <2> QED
    BY <2>1, <2>2, PTL DEF Spec
<1>2. AllInv => FirstMovementShowsInitialStock
  BY DEF AllInv, FirstInv, ShowsInitial, FirstMovementShowsInitialStock
<1> QED
  BY <1>1, <1>2, PTL

-----------------------------------------------------------------------------
(* Working copies                                                            *)

\* The ledger b prolongs a with movements of call t alone.
Prolongs(a, b, t) ==
    /\ Len(a) <= Len(b)
    /\ \A i \in 1..Len(a) : b[i] = a[i]
    /\ \A i \in Len(a)+1 .. Len(b) : b[i].by = t

DraftInv ==
    \A p \in Product :
        /\ lock[p] = NoTx => draft[p] = rows[p]
        /\ lock[p] # NoTx => Prolongs(rows[p].movements, draft[p].movements, lock[p])

PostedInv ==
    \A p \in Product : \A i \in 1..Len(rows[p].movements) :
        req[rows[p].movements[i].by].pc = "done"

PostInv == DraftInv /\ PostedInv

-----------------------------------------------------------------------------
\* A posted movement names the call that posted it.
LEMMA PostedBy ==
    ASSUME TypeOK, NEW p \in Product, NEW i \in 1..Len(rows[p].movements)
    PROVE  rows[p].movements[i].by \in Request
<1>1. rows[p].movements \in Seq(Movement)
  BY DEF TypeOK, Row
<1>2. rows[p].movements[i] \in Movement
  BY <1>1
<1> QED
  BY <1>2 DEF Movement

\* Prolonging is reflexive, and appending a movement of t keeps it.
LEMMA ProlongsAppend ==
    ASSUME NEW a \in Seq(Movement), NEW b \in Seq(Movement), NEW t,
           NEW m \in Movement, m.by = t, Prolongs(a, b, t)
    PROVE  Prolongs(a, Append(b, m), t)
<1>1. /\ Len(a) \in Nat /\ Len(b) \in Nat
      /\ Len(Append(b, m)) = Len(b) + 1
      /\ \A i \in 1..Len(b) : Append(b, m)[i] = b[i]
      /\ Append(b, m)[Len(b) + 1] = m
  OBVIOUS
<1> QED
  BY <1>1 DEF Prolongs

\* A locked write appends a movement of the call that holds the lock.
LEMMA WritePosts ==
    ASSUME TypeOK, PostInv, NEW t \in Request, NEW p \in Product,
           NEW stock, NEW cost, NEW m \in Movement, m.by = t,
           Write(t, p, stock, cost, m), CanLock(t, p), UNCHANGED rows,
           req[t].pc # "done", \A u \in Request \ {t} : req'[u] = req[u]
    PROVE  PostInv'
<1> DEFINE new == [stock |-> stock, purchasePrice |-> cost,
                   salePrice |-> draft[p].salePrice,
                   movements |-> Append(draft[p].movements, m)]
<1>1. \A r \in Product : /\ draft'[r] = IF r = p THEN new ELSE draft[r]
                         /\ lock'[r] = IF r = p THEN t ELSE lock[r]
  BY DEF Write, TypeOK
<1>2. /\ rows[p].movements \in Seq(Movement) /\ draft[p].movements \in Seq(Movement)
      /\ t # NoTx
  BY InventoryAssumption DEF TypeOK, Row
<1>3. Prolongs(rows[p].movements, draft[p].movements, t)
  <2>1. Prolongs(rows[p].movements, rows[p].movements, t)
    BY <1>2 DEF Prolongs
  <2> QED
    BY <1>2, <2>1 DEF PostInv, DraftInv, CanLock
<1>4. Prolongs(rows[p].movements, new.movements, t)
  BY <1>2, <1>3, ProlongsAppend
<1> HIDE DEF new
<1>5. DraftInv'
  BY <1>1, <1>2, <1>4 DEF PostInv, DraftInv
<1>6. PostedInv'
  <2>1. ASSUME NEW r \in Product, NEW i \in 1..Len(rows[r].movements)
        PROVE  req'[rows[r].movements[i].by].pc = "done"
    <3>1. rows[r].movements[i].by \in Request
      BY PostedBy
    <3> QED
      BY <2>1, <3>1 DEF PostInv, PostedInv
  <2> QED
    BY <2>1 DEF PostedInv
<1> QED
  BY <1>5, <1>6 DEF PostInv

\* A step that changes no row and no finished call keeps the invariant.
LEMMA QuietPosts ==
    ASSUME TypeOK, PostInv, UNCHANGED <<rows, draft, lock>>,
           \A u \in Request : req[u].pc = "done" => req'[u] = req[u]
    PROVE  PostInv'
<1>1. DraftInv'
  BY DEF PostInv, DraftInv
<1>2. ASSUME NEW r \in Product, NEW i \in 1..Len(rows[r].movements)
      PROVE  req'[rows[r].movements[i].by].pc = "done"
  <2>1. rows[r].movements[i].by \in Request
    BY PostedBy
  <2> QED
    BY <2>1 DEF PostInv, PostedInv
<1>3. PostedInv'
  BY <1>2 DEF PostedInv
<1> QED
  BY <1>1, <1>3 DEF PostInv

\* Without movements nothing is posted, and every row is free.
LEMMA PostInit == Init => PostInv
<1> SUFFICES ASSUME Init, NEW p \in Product
             PROVE  lock[p] = NoTx /\ draft[p] = rows[p] /\ rows[p].movements = <<>>
  BY DEF PostInv, DraftInv, PostedInv
<1> QED
  BY DEF Init

\* The end of a transaction: the call that holds a row publishes or drops its
\* working copy, and is done if it publishes.
LEMMA EndPosts ==
    ASSUME TypeOK, PostInv, NEW t \in Request, InTransaction(t),
           Finish(t) \/ Rollback(t)
    PROVE  PostInv'
<1>1. /\ \A p \in Product : lock'[p] = IF lock[p] = t THEN NoTx ELSE lock[p]
      /\ \A u \in Request \ {t} : req'[u] = req[u]
      /\ Finish(t) => req'[t].pc = "done"
  BY DEF Finish, Rollback, Goto, TypeOK
<1>2. /\ \A p \in Product : lock[p] # t => rows'[p] = rows[p] /\ draft'[p] = draft[p]
      /\ \A p \in Product : lock[p] = t => rows'[p] = draft'[p]
      /\ \A p \in Product : rows'[p] # rows[p] =>
            Finish(t) /\ lock[p] = t /\ rows'[p] = draft[p]
  BY DEF Finish, Rollback, Visible, TypeOK
<1>3. t # NoTx /\ req[t].pc # "done"
  BY InventoryAssumption DEF InTransaction
<1>4. DraftInv'
  BY <1>1, <1>2, <1>3 DEF PostInv, DraftInv
<1>5. ASSUME NEW p \in Product, NEW i \in 1..Len(rows'[p].movements)
      PROVE  req'[rows'[p].movements[i].by].pc = "done"
  <2>1. ASSUME NEW j \in 1..Len(rows[p].movements)
        PROVE  req'[rows[p].movements[j].by].pc = "done"
    <3>1. rows[p].movements[j].by \in Request
      BY PostedBy
    <3> QED
      BY <1>1, <1>3, <3>1 DEF PostInv, PostedInv
  <2>2. CASE rows'[p] = rows[p]
    BY <1>5, <2>1, <2>2
  <2>3. CASE rows'[p] # rows[p]
    <3>1. /\ Finish(t) /\ rows'[p] = draft[p]
          /\ Prolongs(rows[p].movements, draft[p].movements, t)
      BY <1>2, <1>3, <2>3 DEF PostInv, DraftInv
    <3>2. Len(rows[p].movements) \in Nat /\ Len(draft[p].movements) \in Nat
      BY DEF TypeOK, Row
    <3>3. CASE i \in 1..Len(rows[p].movements)
      BY <2>1, <3>1, <3>3 DEF Prolongs
    <3>4. CASE i \in Len(rows[p].movements)+1 .. Len(draft[p].movements)
      BY <1>1, <3>1, <3>4 DEF Prolongs
    <3> QED
      BY <1>5, <3>1, <3>2, <3>3, <3>4
  <2> QED
    BY <2>2, <2>3
<1>6. PostedInv'
  BY <1>5 DEF PostedInv
<1> QED
  BY <1>4, <1>6 DEF PostInv

\* No step of any call breaks what working copies and posted movements are.
LEMMA PostNext == TypeInv /\ PostInv /\ [Next]_vars => PostInv'
<1> SUFFICES ASSUME TypeInv, PostInv, [Next]_vars PROVE PostInv'
  OBVIOUS
<1>0. TypeOK /\ MaxInt \in Nat
  BY InventoryAssumption DEF TypeInv
<1>1. ASSUME NEW t \in Request, Submit(t) \/ CheckOrder(t) \/ ReadProduct(t)
      PROVE  PostInv'
  BY <1>0, <1>1, QuietPosts DEF Submit, CheckOrder, ReadProduct, Goto, TypeOK
<1>2. ASSUME NEW t \in Request, Increment(t) PROVE PostInv'
  <2> DEFINE p == Cur(t).product
             s == draft[p].stock
             q == Cur(t).quantity
             m == [type |-> "IN", quantity |-> q, previousQuantity |-> req[t].seen,
                   newQuantity |-> s + q, by |-> t]
  <2>1. p \in Product /\ q \in 0..MaxInt
    BY <1>0, <1>2, CurType DEF Increment
  <2>2. s + q \in 0..MaxInt
    <3>1. s \in 0..MaxInt
      BY <1>0, <2>1 DEF TypeOK, Row
    <3>2. s + q <= MaxInt
      BY <1>2 DEF Increment
    <3> HIDE DEF s, q
    <3> QED
      BY <1>0, <2>1, <3>1, <3>2
  <2>3. m \in Movement /\ m.by = t
    BY <1>0, <2>1, <2>2 DEF Movement, MovementType, TypeOK
  <2>4. PICK cost : Write(t, p, s + q, cost, m)
    BY <1>2 DEF Increment
  <2>5. /\ CanLock(t, p) /\ UNCHANGED rows /\ req[t].pc # "done"
        /\ \A u \in Request \ {t} : req'[u] = req[u]
    BY <1>0, <1>2 DEF Increment, TypeOK
  <2> HIDE DEF p, q, m
  <2> QED
    BY <1>0, <2>1, <2>3, <2>4, <2>5, WritePosts
<1>3. ASSUME NEW t \in Request, Adjust(t) PROVE PostInv'
  <2> DEFINE p == Cur(t).product
             q == Cur(t).quantity
             m == [type |-> "ADJUSTMENT", quantity |-> q - req[t].seen,
                   previousQuantity |-> req[t].seen, newQuantity |-> q, by |-> t]
  <2>1. p \in Product /\ q \in 0..MaxInt
    BY <1>0, <1>3, CurType DEF Adjust
  <2>2. m \in Movement /\ m.by = t
    BY <1>0, <2>1 DEF Movement, MovementType, TypeOK
  <2>3. PICK cost : Write(t, p, q, cost, m)
    BY <1>3 DEF Adjust
  <2>4. /\ CanLock(t, p) /\ UNCHANGED rows /\ req[t].pc # "done"
        /\ \A u \in Request \ {t} : req'[u] = req[u]
    BY <1>0, <1>3 DEF Adjust, TypeOK
  <2> HIDE DEF p, q, m
  <2> QED
    BY <1>0, <2>1, <2>2, <2>3, <2>4, WritePosts
<1>4. ASSUME NEW t \in Request, Decrement(t) PROVE PostInv'
  <2> DEFINE p == Cur(t).product
             q == Cur(t).quantity
             s == draft[p].stock
             m == [type |-> "OUT", quantity |-> q, previousQuantity |-> s,
                   newQuantity |-> s - q, by |-> t]
  <2>1. p \in Product /\ q \in 0..MaxInt
    BY <1>0, <1>4, CurType DEF Decrement
  <2>2. s \in 0..MaxInt /\ s - q \in 0..MaxInt
    <3>1. s \in 0..MaxInt
      BY <1>0, <2>1 DEF TypeOK, Row
    <3>2. s >= q
      BY <1>4 DEF Decrement
    <3> HIDE DEF s, q
    <3> QED
      BY <1>0, <2>1, <3>1, <3>2
  <2>3. m \in Movement /\ m.by = t
    BY <1>0, <2>1, <2>2 DEF Movement, MovementType
  <2>4. PICK cost : Write(t, p, s - q, cost, m)
    BY <1>4 DEF Decrement
  <2>5. /\ CanLock(t, p) /\ UNCHANGED rows /\ req[t].pc # "done"
        /\ \A u \in Request \ {t} : req'[u] = req[u]
    BY <1>0, <1>4 DEF Decrement, TypeOK
  <2> HIDE DEF p, q, m
  <2> QED
    BY <1>0, <2>1, <2>3, <2>4, <2>5, WritePosts
<1>5. ASSUME NEW t \in Request, Finish(t) \/ Refuse(t) \/ Abort(t) PROVE PostInv'
  <2>1. InTransaction(t) /\ (Finish(t) \/ Rollback(t))
    BY <1>5 DEF Finish, Refuse, Refused, Abort, InTransaction
  <2> QED
    BY <1>0, <2>1, EndPosts
<1>6. ASSUME NEW o \in OrderId, CreateOrder(o) PROVE PostInv'
  BY <1>0, <1>6, QuietPosts DEF CreateOrder
<1>7. ASSUME NEW p \in Product, UpdatePrices(p) PROVE PostInv'
  <2>1. PICK cost \in Price, price \in Price :
            LET row == [rows[p] EXCEPT !.purchasePrice = cost, !.salePrice = price]
            IN  rows' = [rows EXCEPT ![p] = row] /\ draft' = [draft EXCEPT ![p] = row]
    BY <1>7 DEF UpdatePrices
  <2> DEFINE new == [rows[p] EXCEPT !.purchasePrice = cost, !.salePrice = price]
  <2>2. new.movements = rows[p].movements
    BY <1>0 DEF TypeOK, Row
  <2>3. /\ \A r \in Product : /\ rows'[r] = IF r = p THEN new ELSE rows[r]
                              /\ draft'[r] = IF r = p THEN new ELSE draft[r]
        /\ UNCHANGED <<lock, req>> /\ lock[p] = NoTx
    BY <1>0, <1>7, <2>1 DEF TypeOK, UpdatePrices
  <2> HIDE DEF new
  <2>4. DraftInv'
    BY <2>2, <2>3 DEF PostInv, DraftInv
  <2>5. PostedInv'
    BY <2>2, <2>3 DEF PostInv, PostedInv
  <2> QED
    BY <2>4, <2>5 DEF PostInv
<1>8. CASE UNCHANGED vars
  BY <1>0, <1>8, QuietPosts DEF vars
<1> QED
  BY <1>1, <1>2, <1>3, <1>4, <1>5, <1>6, <1>7, <1>8 DEF Next, Step

-----------------------------------------------------------------------------
(* Steps of a call, seen from the other calls and from the orders            *)

\* A statement that writes a row, and what it leaves alone.
LEMMA WriteStep ==
    ASSUME TypeInv, NEW t \in Request, Increment(t) \/ Decrement(t) \/ Adjust(t)
    PROVE  /\ Cur(t).product \in Product /\ CanLock(t, Cur(t).product)
           /\ lock' = [lock EXCEPT ![Cur(t).product] = t]
           /\ \A r \in Product \ {Cur(t).product} : draft'[r] = draft[r]
           /\ req[t].pc = "write" /\ req'[t].input = req[t].input
           /\ req'[t].pc \in {"read", "write", "finish"}
           /\ Reads(t) => req'[t].pc # "write"
           /\ ~Reads(t) => Found(t)
           /\ \A u \in Request \ {t} : req'[u] = req[u]
           /\ UNCHANGED <<rows, orders, sales>>
<1>1. req[t].pc = "write"
  BY DEF Increment, Decrement, Adjust
<1>2. Cur(t).product \in Product
  BY <1>1, CurType
<1>3. AfterItem(t, "read") \in {"read", "finish"} /\ AfterItem(t, "write") \in {"write", "finish"}
  BY DEF AfterItem
<1>4. PICK stock, cost, m : Write(t, Cur(t).product, stock, cost, m)
  BY DEF Increment, Decrement, Adjust
<1>5. /\ lock' = [lock EXCEPT ![Cur(t).product] = t]
      /\ \A r \in Product \ {Cur(t).product} : draft'[r] = draft[r]
  BY <1>4 DEF Write, TypeInv, TypeOK
<1>6. /\ CanLock(t, Cur(t).product) /\ UNCHANGED <<rows, orders, sales>>
      /\ \A u \in Request \ {t} : req'[u] = req[u]
      /\ req'[t].input = req[t].input
  BY DEF Increment, Decrement, Adjust, TypeInv, TypeOK
<1>7. CASE Decrement(t)
  <2>1. ~Reads(t) /\ Found(t) /\ req'[t].pc = AfterItem(t, "write")
    BY <1>7 DEF Decrement, Reads, TypeInv, TypeOK
  <2> QED
    BY <1>1, <1>2, <1>3, <1>5, <1>6, <2>1
<1>8. CASE Increment(t) \/ Adjust(t)
  <2>1. Reads(t) /\ req'[t].pc = AfterItem(t, "read")
    BY <1>8 DEF Increment, Adjust, Reads, TypeInv, TypeOK
  <2> QED
    BY <1>1, <1>2, <1>3, <1>5, <1>6, <2>1
<1> QED
  BY <1>7, <1>8

\* The end of a call releases its locks; a commit publishes what it holds.
LEMMA EndStep ==
    ASSUME TypeInv, NEW t \in Request, Finish(t) \/ Rollback(t)
    PROVE  /\ \A r \in Product : lock'[r] = IF lock[r] = t THEN NoTx ELSE lock[r]
           /\ \A r \in Product : lock[r] # t => rows'[r] = rows[r] /\ draft'[r] = draft[r]
           /\ \A r \in Product : rows'[r] \in {rows[r], Visible(t, r)}
           /\ req'[t] = [req[t] EXCEPT !.pc = req'[t].pc]
           /\ req'[t].pc \in {"done", "failed"}
           /\ \A u \in Request \ {t} : req'[u] = req[u]
<1>1. PICK pc \in {"done", "failed"} : req' = [req EXCEPT ![t].pc = pc]
  BY DEF Finish, Rollback, Goto
<1>2. /\ req'[t] = [req[t] EXCEPT !.pc = pc] /\ req'[t].pc = pc
      /\ \A u \in Request \ {t} : req'[u] = req[u]
  <2>1. req[t] \in [pc : PC, input : Input, idx : Nat \ {0},
                    seen : 0..MaxInt, lines : Seq(SaleLine)]
    BY DEF TypeInv, TypeOK
  <2>2. req \in [Request -> [pc : PC, input : Input, idx : Nat \ {0},
                            seen : 0..MaxInt, lines : Seq(SaleLine)]]
    BY DEF TypeInv, TypeOK
  <2> QED
    BY <1>1, <2>1, <2>2
<1>3. \A r \in Product : lock'[r] = IF lock[r] = t THEN NoTx ELSE lock[r]
  BY DEF Finish, Rollback
<1>4. \A r \in Product : lock[r] # t => rows'[r] = rows[r] /\ draft'[r] = draft[r]
  BY DEF Finish, Rollback, Visible, TypeInv, TypeOK
<1>5. \A r \in Product : rows'[r] \in {rows[r], Visible(t, r)}
  BY DEF Finish, Rollback
<1> QED
  BY <1>1, <1>2, <1>3, <1>4, <1>5

\* An order, once there, keeps its organization and its items.
LEMMA OrdersKept ==
    ASSUME TypeInv, [Next]_vars, NEW o \in OrderId, orders[o].status # "absent"
    PROVE  orders'[o].org = orders[o].org /\ orders'[o].items = orders[o].items
<1>1. CASE UNCHANGED orders
  BY <1>1
<1>2. ASSUME NEW t \in Request, Finish(t)
      PROVE  orders'[o].org = orders[o].org /\ orders'[o].items = orders[o].items
  BY <1>2 DEF Finish, TypeInv, TypeOK, Order
<1>3. ASSUME NEW a \in OrderId, CreateOrder(a)
      PROVE  orders'[o].org = orders[o].org /\ orders'[o].items = orders[o].items
  BY <1>3 DEF CreateOrder, TypeInv, TypeOK
<1>4. ASSUME NEW t \in Request, \/ Submit(t) \/ CheckOrder(t) \/ ReadProduct(t)
                              \/ Increment(t) \/ Decrement(t) \/ Adjust(t)
                              \/ Refuse(t) \/ Abort(t)
      PROVE  UNCHANGED orders
  BY <1>4 DEF Submit, CheckOrder, ReadProduct, Increment, Decrement, Adjust,
              Refuse, Abort, Rollback
<1>5. ASSUME NEW p \in Product, UpdatePrices(p) PROVE UNCHANGED orders
  BY <1>5 DEF UpdatePrices
<1>6. CASE UNCHANGED vars
  BY <1>6, <1>1 DEF vars
<1> QED
  BY <1>1, <1>2, <1>3, <1>4, <1>5, <1>6 DEF Next, Step

-----------------------------------------------------------------------------
(* Orders and their goods                                                    *)

\* A call about to settle an order is one of the order's own organization.
OwnOrder ==
    \A t \in Request :
        /\ req[t].input.op \in {"receive", "cancel"}
        /\ req[t].pc \in {"read", "write", "finish"}
        => orders[req[t].input.order].org = req[t].input.org

\* No step of any call lets an order run ahead of its goods.
LEMMA OrderNext ==
    TypeInv /\ OwnOrder /\ OrderFollowsGoods /\ [Next]_vars
        => OwnOrder' /\ OrderFollowsGoods'
<1> SUFFICES ASSUME TypeInv, OwnOrder, OrderFollowsGoods, [Next]_vars
             PROVE  OwnOrder' /\ OrderFollowsGoods'
  OBVIOUS
<1>t. \A u \in Request : req[u].input \in Input
  BY DEF TypeInv, TypeOK
\* A step that settles no order and begins or ends no reception.
<1>0. ASSUME \A o \in OrderId : orders'[o].status = orders[o].status,
             \A u \in Request : /\ req'[u].pc = "done" <=> req[u].pc = "done"
                                /\ req[u].pc = "done" => req'[u].input = req[u].input
      PROVE  OrderFollowsGoods'
  <2>1. \A o \in OrderId : Receptions(o)' = Receptions(o)
    BY <1>0 DEF Receptions
  <2>2. ASSUME NEW o \in OrderId, orders[o].status # "absent"
        PROVE  orders'[o].org = orders[o].org
    BY <2>2, OrdersKept
  <2>3. \A o \in OrderId : \A u \in Receptions(o) : req'[u].input = req[u].input
    BY <1>0 DEF Receptions
  <2> QED
    BY <1>0, <2>1, <2>2, <2>3 DEF OrderFollowsGoods
\* A step after which the calls on an order are those of before.
<1>1. ASSUME \A u \in Request :
               /\ req'[u].input.op \in {"receive", "cancel"}
               /\ req'[u].pc \in {"read", "write", "finish"}
               => /\ req'[u].input = req[u].input
                  /\ req[u].pc \in {"read", "write", "finish"}
      PROVE  OwnOrder'
  <2> SUFFICES ASSUME NEW u \in Request, req'[u].input.op \in {"receive", "cancel"},
                      req'[u].pc \in {"read", "write", "finish"}
               PROVE  orders'[req'[u].input.order].org = req'[u].input.org
    BY DEF OwnOrder
  <2>1. /\ req'[u].input = req[u].input /\ req[u].pc \in {"read", "write", "finish"}
        /\ req[u].input.op \in {"receive", "cancel"}
    BY <1>1
  <2>2. /\ req[u].input.order \in OrderId
        /\ orders[req[u].input.order].status # "absent"
        /\ orders[req[u].input.order].org = req[u].input.org
    BY <2>1, <1>t, InputFacts DEF TypeInv, Cursor, OwnOrder
  <2> QED
    BY <2>1, <2>2, OrdersKept
<1>2. ASSUME NEW t \in Request, Submit(t) PROVE OwnOrder' /\ OrderFollowsGoods'
  <2>1. PICK in \in Input :
          req' = [req EXCEPT ![t].pc = FirstStep(in.op), ![t].input = in]
    BY <1>2 DEF Submit
  <2>2. /\ FirstStep(in.op) \in {"check", "read", "write"}
        /\ in.op \in {"receive", "cancel"} => FirstStep(in.op) = "check"
    BY InputFacts DEF FirstStep, Op
  <2>3. req[t].pc = "idle" /\ UNCHANGED orders
    BY <1>2 DEF Submit
  <2>4. /\ req'[t].pc = FirstStep(in.op) /\ req'[t].input = in
        /\ \A u \in Request \ {t} : req'[u] = req[u]
    BY <2>1 DEF TypeInv, TypeOK
  <2> QED
    BY <2>2, <2>3, <2>4, <1>0, <1>1
<1>3. ASSUME NEW t \in Request, CheckOrder(t) PROVE OwnOrder' /\ OrderFollowsGoods'
  <2>1. /\ req[t].pc = "check" /\ UNCHANGED orders
        /\ orders[req[t].input.order].org = req[t].input.org
        /\ req'[t].pc \in {"read", "finish"} /\ req'[t].input = req[t].input
        /\ \A u \in Request \ {t} : req'[u] = req[u]
    BY <1>3 DEF CheckOrder, OrderOpen, Goto, TypeInv, TypeOK
  <2>2. OrderFollowsGoods'
    BY <2>1, <1>0
  <2>3. OwnOrder'
    BY <2>1 DEF OwnOrder
  <2> QED
    BY <2>2, <2>3
<1>4. ASSUME NEW t \in Request, ReadProduct(t) PROVE OwnOrder' /\ OrderFollowsGoods'
  <2>1. /\ req[t].pc = "read" /\ req'[t].pc = "write" /\ UNCHANGED orders
        /\ req'[t].input = req[t].input
        /\ \A u \in Request \ {t} : req'[u] = req[u]
    BY <1>4 DEF ReadProduct, TypeInv, TypeOK
  <2> QED
    BY <2>1, <1>0, <1>1
<1>5. ASSUME NEW t \in Request, Increment(t) \/ Decrement(t) \/ Adjust(t)
      PROVE  OwnOrder' /\ OrderFollowsGoods'
  BY <1>5, <1>0, <1>1, WriteStep
<1>6. ASSUME NEW t \in Request, Rollback(t), req[t].pc # "done"
      PROVE  OwnOrder' /\ OrderFollowsGoods'
  <2>1. /\ UNCHANGED orders /\ req'[t].pc = "failed"
        /\ \A u \in Request \ {t} : req'[u] = req[u]
    BY <1>6 DEF Rollback, Goto, TypeInv, TypeOK
  <2> QED
    BY <1>6, <2>1, <1>0, <1>1
<1>7. ASSUME NEW t \in Request, Finish(t) PROVE OwnOrder' /\ OrderFollowsGoods'
  <2>1. /\ req[t].pc = "finish" /\ req'[t].pc = "done" /\ req'[t].input = req[t].input
        /\ \A u \in Request \ {t} : req'[u] = req[u]
    BY <1>7 DEF Finish, Goto, TypeInv, TypeOK
  <2>2. OwnOrder'
    BY <2>1, <1>1
  <2>3. CASE req[t].input.op \notin {"receive", "cancel"}
    <3>1. UNCHANGED orders
      BY <1>7, <2>3 DEF Finish
    <3>2. \A o \in OrderId : Receptions(o)' = Receptions(o)
      BY <2>1, <2>3 DEF Receptions
    <3>3. \A u \in Request : req'[u].input = req[u].input
      BY <2>1
    <3>4. OrderFollowsGoods'
      BY <3>1, <3>2, <3>3 DEF OrderFollowsGoods, Receptions
    <3> QED
      BY <2>2, <3>4
  <2>4. CASE req[t].input.op \in {"receive", "cancel"}
    <3> DEFINE op == req[t].input.op
               a == req[t].input.order
    <3>1. a \in OrderId /\ orders[a].status # "absent" /\ orders[a].org = req[t].input.org
      BY <2>1, <2>4, <1>t, InputFacts DEF TypeInv, Cursor, OwnOrder
    <3>2. orders' = [orders EXCEPT ![a].status = FinalStatus[op]]
      BY <1>7, <2>4 DEF Finish
    <3>3. /\ op = "receive" => FinalStatus[op] = "RECEIVED"
          /\ op = "cancel" => FinalStatus[op] = "CANCELLED"
      BY DEF FinalStatus
    <3>4. /\ orders'[a].status = FinalStatus[op] /\ orders'[a].org = orders[a].org
          /\ \A o \in OrderId \ {a} : orders'[o] = orders[o]
      BY <3>1, <3>2 DEF TypeInv, TypeOK, Order
    <3>5. \A o \in OrderId \ {a} : Receptions(o)' = Receptions(o)
      BY <2>1 DEF Receptions
    <3>6. \A u \in Request : req'[u].input = req[u].input
      BY <2>1
    <3>7. op = "receive" => t \in Receptions(a)'
      BY <2>1 DEF Receptions
    <3>8. ASSUME NEW o \in OrderId
          PROVE  /\ orders'[o].status = "RECEIVED" =>
                      \E u \in Receptions(o)' : req'[u].input.org = orders'[o].org
                 /\ orders'[o].status \in {"PENDING", "absent"} => Receptions(o)' = {}
      <4>1. CASE o = a
        BY <4>1, <2>4, <3>1, <3>3, <3>4, <3>6, <3>7
      <4>2. CASE o # a
        <5>1. /\ orders[o].status = "RECEIVED" =>
                      \E u \in Receptions(o) : req[u].input.org = orders[o].org
              /\ orders[o].status \in {"PENDING", "absent"} => Receptions(o) = {}
          BY DEF OrderFollowsGoods
        <5> QED
          BY <4>2, <5>1, <3>4, <3>5, <3>6 DEF Receptions
      <4> QED
        BY <4>1, <4>2
    <3>9. OrderFollowsGoods'
      BY <3>8 DEF OrderFollowsGoods
    <3> QED
      BY <2>2, <3>9
  <2> QED
    BY <2>3, <2>4
<1>8. ASSUME NEW a \in OrderId, CreateOrder(a) PROVE OwnOrder' /\ OrderFollowsGoods'
  <2>1. /\ orders[a].status = "absent" /\ orders'[a].status = "PENDING" /\ UNCHANGED req
        /\ \A o \in OrderId \ {a} : orders'[o] = orders[o]
    BY <1>8 DEF CreateOrder, TypeInv, TypeOK
  <2>2. \A o \in OrderId : Receptions(o)' = Receptions(o)
    BY <2>1 DEF Receptions
  <2>3. OrderFollowsGoods'
    BY <2>1, <2>2 DEF OrderFollowsGoods
  <2>4. OwnOrder'
    BY <2>1, <1>1
  <2> QED
    BY <2>3, <2>4
<1>9. ASSUME NEW p \in Product, UpdatePrices(p) PROVE OwnOrder' /\ OrderFollowsGoods'
  BY <1>9, <1>0, <1>1 DEF UpdatePrices
<1>10. CASE UNCHANGED vars
  BY <1>10, <1>0, <1>1 DEF vars
<1>11. \A t \in Request : Refuse(t) \/ Abort(t) => Rollback(t) /\ req[t].pc # "done"
  BY DEF Refuse, Refused, Abort, InTransaction
<1> QED
  BY <1>2, <1>3, <1>4, <1>5, <1>6, <1>7, <1>8, <1>9, <1>10, <1>11 DEF Next, Step

(* An order is RECEIVED only with its goods booked by a reception of its own   *)
(* organization, and one that is not settled has nothing booked, for any        *)
(* number of receptions and cancellations at once, even though two receptions   *)
(* may both succeed (purchase-orders.service.ts:69-126).                        *)
THEOREM OrdersCorrect == Spec => []OrderFollowsGoods
<1>1. Init => OwnOrder /\ OrderFollowsGoods
  BY DEF Init, OwnOrder, OrderFollowsGoods, Receptions
<1> QED
  BY <1>1, TypeInit, TypeNext, OrderNext, PTL DEF Spec

-----------------------------------------------------------------------------
(* Organizations                                                             *)

\* What keeps a call inside its organization: the product it is about to move
\* by name, the rows it holds, and the movements it has posted are all at home.
ReadAtHome == \A t \in Request : Reads(t) => Found(t)

LockedAtHome ==
    \A p \in Product : lock[p] # NoTx =>
        req[lock[p]].pc # "idle" /\ Owner[p] = req[lock[p]].input.org

TenantInv == ReadAtHome /\ LockedAtHome /\ TenantIsolation

\* A call keeps its input once it has begun.
LEMMA InputKept ==
    ASSUME TypeInv, [Next]_vars, NEW u \in Request, req[u].pc # "idle"
    PROVE  req'[u].input = req[u].input /\ req'[u].pc # "idle"
<1>1. ASSUME NEW t \in Request, Submit(t) PROVE req'[u] = req[u]
  BY <1>1 DEF Submit, TypeInv, TypeOK
<1>2. ASSUME NEW t \in Request, CheckOrder(t) \/ ReadProduct(t)
      PROVE  req'[u].input = req[u].input /\ req'[u].pc # "idle"
  <2>1. CASE CheckOrder(t)
    <3>1. PICK pc \in {"read", "finish"} : req' = [req EXCEPT ![t].pc = pc]
      BY <2>1 DEF CheckOrder, Goto
    <3> QED
      BY <3>1 DEF TypeInv, TypeOK
  <2>2. CASE ReadProduct(t)
    <3>1. PICK s : req' = [req EXCEPT ![t].pc = "write", ![t].seen = s]
      BY <2>2 DEF ReadProduct
    <3> QED
      BY <3>1 DEF TypeInv, TypeOK
  <2> QED
    BY <1>2, <2>1, <2>2
<1>3. ASSUME NEW t \in Request, Increment(t) \/ Decrement(t) \/ Adjust(t)
      PROVE  req'[u].input = req[u].input /\ req'[u].pc # "idle"
  BY <1>3, WriteStep
<1>4. ASSUME NEW t \in Request, Finish(t) \/ Rollback(t)
      PROVE  req'[u].input = req[u].input /\ req'[u].pc # "idle"
  <2>1. CASE u = t
    <3>1. req'[t] = [req[t] EXCEPT !.pc = req'[t].pc] /\ req'[t].pc \in {"done", "failed"}
      BY <1>4, EndStep
    <3>2. req[t] \in [pc : PC, input : Input, idx : Nat \ {0},
                      seen : 0..MaxInt, lines : Seq(SaleLine)]
      BY DEF TypeInv, TypeOK
    <3>3. [req[t] EXCEPT !.pc = req'[t].pc].input = req[t].input
      BY <3>2
    <3> QED
      BY <2>1, <3>1, <3>3
  <2>2. CASE u # t
    <3>1. \A v \in Request \ {t} : req'[v] = req[v]
      BY <1>4, EndStep
    <3> QED
      BY <2>2, <3>1
  <2> QED
    BY <2>1, <2>2
<1>5. ASSUME UNCHANGED req PROVE req'[u] = req[u]
  BY <1>5
<1>6. \A o \in OrderId : CreateOrder(o) => UNCHANGED req
  BY DEF CreateOrder
<1>7. \A p \in Product : UpdatePrices(p) => UNCHANGED req
  BY DEF UpdatePrices
<1>8. UNCHANGED vars => UNCHANGED req
  BY DEF vars
<1> QED
  BY <1>1, <1>2, <1>3, <1>4, <1>5, <1>6, <1>7, <1>8 DEF Next, Step, Refuse, Abort

\* What a call works through does not change under it.
LEMMA FoundKept ==
    ASSUME TypeInv, [Next]_vars, NEW u \in Request, req[u].pc \in {"read", "write"},
           req'[u].input = req[u].input, req'[u].idx = req[u].idx
    PROVE  Found(u)' = Found(u)
<1>1. Items(u)' = Items(u)
  <2>1. CASE req[u].input.op = "receive"
    <3>1. req[u].input.order \in OrderId
      BY <2>1, InputFacts DEF TypeInv, TypeOK
    <3>2. orders[req[u].input.order].status # "absent"
      BY <2>1 DEF TypeInv, Cursor
    <3> QED
      BY <2>1, <3>1, <3>2, OrdersKept DEF Items
  <2>2. CASE req[u].input.op # "receive"
    BY <2>2 DEF Items
  <2> QED
    BY <2>1, <2>2
<1> QED
  BY <1>1 DEF Found, Cur

\* A step that posts nothing leaves every posted movement at home.
LEMMA NothingPosted ==
    ASSUME TypeInv, PostedInv, TenantIsolation, [Next]_vars,
           NEW p \in Product, rows'[p].movements = rows[p].movements,
           NEW i \in 1..Len(rows'[p].movements)
    PROVE  req'[rows'[p].movements[i].by].input.org = Owner[p]
<1>1. rows[p].movements[i].by \in Request
  BY PostedBy DEF TypeInv
<1>2. req[rows[p].movements[i].by].pc = "done"
  BY DEF PostedInv
<1>3. req'[rows[p].movements[i].by].input = req[rows[p].movements[i].by].input
  BY <1>1, <1>2, InputKept
<1> QED
  BY <1>3 DEF TenantIsolation

\* No step of any call reaches into another organization.
LEMMA TenantNext ==
    TypeInv /\ PostInv /\ TenantInv /\ [Next]_vars => TenantInv'
<1> SUFFICES ASSUME TypeInv, PostInv, TenantInv, [Next]_vars PROVE TenantInv'
  OBVIOUS
<1>t. \A t \in Request : t # NoTx
  BY InventoryAssumption
\* The rows a step leaves to their holders.
<1>1. ASSUME \A p \in Product : lock'[p] \in {NoTx, lock[p]} PROVE LockedAtHome'
  <2> SUFFICES ASSUME NEW p \in Product, lock'[p] # NoTx
               PROVE  /\ req'[lock'[p]].pc # "idle"
                      /\ Owner[p] = req'[lock'[p]].input.org
    BY DEF LockedAtHome
  <2>1. lock'[p] = lock[p] /\ lock[p] \in Request /\ req[lock[p]].pc # "idle"
        /\ Owner[p] = req[lock[p]].input.org
    BY <1>1 DEF TypeInv, TypeOK, TenantInv, LockedAtHome
  <2> QED
    BY <2>1, InputKept
\* The movements a step leaves as they are.
<1>2. ASSUME \A p \in Product : rows'[p].movements = rows[p].movements
      PROVE  TenantIsolation'
  BY <1>2, NothingPosted DEF TenantIsolation, TenantInv, PostInv
\* The calls a step leaves at their product.
<1>3. ASSUME NEW t \in Request, \A u \in Request \ {t} : req'[u] = req[u],
             Reads(t)' => Found(t)'
      PROVE  ReadAtHome'
  <2>1. ASSUME NEW u \in Request \ {t}, Reads(u)' PROVE Found(u)'
    <3>1. req'[u] = req[u] /\ Reads(u) /\ Found(u)
      BY <1>3, <2>1 DEF Reads, TenantInv, ReadAtHome
    <3>2. req[u].pc = "write"
      BY <3>1 DEF Reads
    <3> QED
      BY <3>1, <3>2, FoundKept
  <2> QED
    BY <1>3, <2>1 DEF ReadAtHome
<1>4. ASSUME NEW t \in Request, Submit(t) PROVE TenantInv'
  <2>1. PICK in \in Input :
          req' = [req EXCEPT ![t].pc = FirstStep(in.op), ![t].input = in]
    BY <1>4 DEF Submit
  <2>2. /\ req'[t].pc = FirstStep(in.op) /\ req'[t].input = in
        /\ \A u \in Request \ {t} : req'[u] = req[u]
    BY <2>1 DEF TypeInv, TypeOK
  <2>3. ~Reads(t)'
    BY <2>2, InputFacts DEF Reads, FirstStep, Op
  <2>4. UNCHANGED <<rows, lock>>
    BY <1>4 DEF Submit
  <2> QED
    BY <2>2, <2>3, <2>4, <1>1, <1>2, <1>3 DEF TenantInv
<1>5. ASSUME NEW t \in Request, CheckOrder(t) PROVE TenantInv'
  <2>1. /\ req'[t].pc \in {"read", "finish"}
        /\ \A u \in Request \ {t} : req'[u] = req[u]
        /\ UNCHANGED <<rows, lock>>
    BY <1>5 DEF CheckOrder, Goto, TypeInv, TypeOK
  <2>2. ~Reads(t)'
    BY <2>1 DEF Reads
  <2> QED
    BY <2>1, <2>2, <1>1, <1>2, <1>3 DEF TenantInv
<1>6. ASSUME NEW t \in Request, ReadProduct(t) PROVE TenantInv'
  <2>1. /\ req[t].pc = "read" /\ Found(t)
        /\ req'[t].input = req[t].input /\ req'[t].idx = req[t].idx
        /\ \A u \in Request \ {t} : req'[u] = req[u]
        /\ UNCHANGED <<rows, lock>>
    BY <1>6 DEF ReadProduct, TypeInv, TypeOK
  <2>2. Found(t)'
    BY <2>1, FoundKept
  <2> QED
    BY <2>1, <2>2, <1>1, <1>2, <1>3 DEF TenantInv
<1>7. ASSUME NEW t \in Request, Increment(t) \/ Decrement(t) \/ Adjust(t)
      PROVE  TenantInv'
  <2> DEFINE p == Cur(t).product
  <2>1. /\ p \in Product /\ lock' = [lock EXCEPT ![p] = t]
        /\ req[t].pc = "write" /\ req'[t].input = req[t].input
        /\ Reads(t) => req'[t].pc # "write"
        /\ ~Reads(t) => Found(t)
        /\ \A u \in Request \ {t} : req'[u] = req[u]
        /\ UNCHANGED rows
    BY <1>7, WriteStep
  <2>2. Found(t)
    BY <2>1 DEF TenantInv, ReadAtHome
  <2>3. Owner[p] = req[t].input.org
    BY <2>2 DEF Found
  <2>4. ~Reads(t)'
    BY <2>1 DEF Reads
  <2>5. ReadAtHome'
    BY <2>1, <2>4, <1>3
  <2>6. TenantIsolation'
    BY <2>1, <1>2
  <2>7. req'[t].pc # "idle"
    BY <2>1, InputKept
  <2> HIDE DEF p
  <2>8. ASSUME NEW r \in Product, lock'[r] # NoTx
        PROVE  /\ req'[lock'[r]].pc # "idle"
               /\ Owner[r] = req'[lock'[r]].input.org
    <3>1. CASE r = p
      BY <2>1, <2>3, <2>7, <3>1 DEF TypeInv, TypeOK
    <3>2. CASE r # p
      <4>1. lock'[r] = lock[r] /\ lock[r] \in Request /\ req[lock[r]].pc # "idle"
            /\ Owner[r] = req[lock[r]].input.org
        BY <2>1, <2>8, <3>2 DEF TypeInv, TypeOK, TenantInv, LockedAtHome
      <4> QED
        BY <4>1, InputKept
    <3> QED
      BY <3>1, <3>2
  <2> QED
    BY <2>5, <2>6, <2>8 DEF TenantInv, LockedAtHome
<1>8. ASSUME NEW t \in Request, Finish(t) \/ Rollback(t) PROVE TenantInv'
  <2>1. /\ \A r \in Product : lock'[r] = IF lock[r] = t THEN NoTx ELSE lock[r]
        /\ \A r \in Product : lock[r] # t => rows'[r] = rows[r]
        /\ \A r \in Product : rows'[r] \in {rows[r], Visible(t, r)}
        /\ req'[t].pc \in {"done", "failed"}
        /\ \A u \in Request \ {t} : req'[u] = req[u]
    BY <1>8, EndStep
  <2>2. ReadAtHome'
    BY <2>1, <1>3 DEF Reads
  <2>3. LockedAtHome'
    BY <2>1, <1>1
  <2>4. ASSUME NEW p \in Product, NEW i \in 1..Len(rows'[p].movements)
        PROVE  req'[rows'[p].movements[i].by].input.org = Owner[p]
    <3>1. CASE rows'[p] = rows[p]
      BY <3>1, NothingPosted DEF TenantInv, PostInv
    <3>2. CASE rows'[p] # rows[p]
      <4>1. lock[p] = t /\ rows'[p] = draft[p] /\ lock[p] # NoTx
        BY <2>1, <3>2, <1>t DEF Visible
      <4>2. Prolongs(rows[p].movements, draft[p].movements, t)
        BY <4>1 DEF PostInv, DraftInv
      <4>3. Len(rows[p].movements) \in Nat /\ Len(draft[p].movements) \in Nat
        BY DEF TypeInv, TypeOK, Row
      <4>4. CASE i \in 1..Len(rows[p].movements)
        <5>1. rows'[p].movements[i] = rows[p].movements[i]
          BY <4>1, <4>2, <4>4 DEF Prolongs
        <5>2. rows[p].movements[i].by \in Request
          BY <4>4, PostedBy DEF TypeInv
        <5>3. req[rows[p].movements[i].by].pc = "done"
          BY <4>4 DEF PostInv, PostedInv
        <5>4. req'[rows[p].movements[i].by].input = req[rows[p].movements[i].by].input
          BY <5>2, <5>3, InputKept
        <5> QED
          BY <4>4, <5>1, <5>4 DEF TenantInv, TenantIsolation
      <4>5. CASE i \in Len(rows[p].movements)+1 .. Len(draft[p].movements)
        <5>1. rows'[p].movements[i].by = t
          BY <4>1, <4>2, <4>5 DEF Prolongs
        <5>2. req[t].pc # "idle" /\ Owner[p] = req[t].input.org
          BY <4>1 DEF TenantInv, LockedAtHome
        <5> QED
          BY <5>1, <5>2, InputKept
      <4> QED
        BY <2>4, <4>1, <4>2, <4>3, <4>4, <4>5
    <3> QED
      BY <3>1, <3>2
  <2> QED
    BY <2>2, <2>3, <2>4 DEF TenantInv, TenantIsolation
\* Calls of one statement hold nothing and begin nothing.
<1>9. ASSUME UNCHANGED <<lock, req>>, \A p \in Product : rows'[p].movements = rows[p].movements
      PROVE  TenantInv'
  <2>1. ASSUME NEW u \in Request, Reads(u)' PROVE Found(u)'
    <3>1. req'[u] = req[u] /\ Reads(u) /\ Found(u)
      BY <1>9, <2>1 DEF Reads, TenantInv, ReadAtHome
    <3>2. req[u].pc = "write"
      BY <3>1 DEF Reads
    <3> QED
      BY <3>1, <3>2, FoundKept
  <2> QED
    BY <1>9, <1>1, <1>2, <2>1 DEF TenantInv, ReadAtHome
<1>10. ASSUME NEW o \in OrderId, CreateOrder(o) PROVE TenantInv'
  BY <1>10, <1>9 DEF CreateOrder
<1>11. ASSUME NEW p \in Product, UpdatePrices(p) PROVE TenantInv'
  <2>1. PICK cost \in Price, price \in Price :
          rows' = [rows EXCEPT ![p] = [rows[p] EXCEPT !.purchasePrice = cost,
                                                     !.salePrice = price]]
    BY <1>11 DEF UpdatePrices
  <2>2. \A r \in Product : rows'[r].movements = rows[r].movements
    BY <2>1 DEF TypeInv, TypeOK, Row
  <2> QED
    BY <1>9, <1>11, <2>2 DEF UpdatePrices
<1>12. CASE UNCHANGED vars
  BY <1>12, <1>9 DEF vars
<1> QED
  BY <1>4, <1>5, <1>6, <1>7, <1>8, <1>10, <1>11, <1>12 DEF Next, Step, Refuse, Abort

(* No call of one organization moves the stock of another's product, whatever   *)
(* product or order it names and however many calls run: the product it looks   *)
(* up is the one it locks later, and its order is one of its own organization    *)
(* (stock.service.ts:160-213, purchase-orders.service.ts:69-105).               *)
THEOREM TenantsAreIsolated == Spec => []TenantIsolation
<1>1. Init => TenantInv
  BY DEF Init, TenantInv, ReadAtHome, Reads, LockedAtHome, TenantIsolation
<1> QED
  BY <1>1, TypeInit, TypeNext, PostInit, PostNext, TenantNext, PTL DEF Spec, TenantInv

-----------------------------------------------------------------------------
(* Prices of a sale                                                          *)

SamePrices(a, b) == a.salePrice = b.salePrice /\ a.purchasePrice = b.purchasePrice

\* A line says the committed prices of a product its sale holds locked.
LineAt(t, line) ==
    /\ lock[line.product] = t
    /\ line.unitPrice = rows[line.product].salePrice
    /\ line.unitCost = rows[line.product].purchasePrice

IsSale(t) == req[t].input.op = "sale"

\* A sale in progress has true lines; a call that has not begun has none.
LinesTrue(t) ==
    /\ req[t].pc = "idle" => req[t].lines = <<>>
    /\ IsSale(t) => req[t].pc # "read"
    /\ IsSale(t) /\ req[t].pc \in {"write", "finish"} =>
          \A i \in 1..Len(req[t].lines) : LineAt(t, req[t].lines[i])

PricesHeld ==
    \A p \in Product :
        lock[p] # NoTx /\ IsSale(lock[p]) => SamePrices(draft[p], rows[p])

PriceInv == PricesHeld /\ \A t \in Request : LinesTrue(t)

\* The lines of a call are lines of products.
LEMMA LineType ==
    ASSUME TypeOK, NEW t \in Request, NEW i \in 1..Len(req[t].lines)
    PROVE  req[t].lines[i].product \in Product
<1>1. req[t].lines \in Seq(SaleLine)
  BY DEF TypeOK
<1>2. req[t].lines[i] \in SaleLine
  BY <1>1
<1> QED
  BY <1>2 DEF SaleLine

\* A call that does not move, and whose rows keep lock and prices, keeps its lines.
LEMMA LinesKept ==
    ASSUME TypeOK, NEW t \in Request, LinesTrue(t), req'[t] = req[t],
           \A p \in Product : lock[p] = t =>
                lock'[p] = t /\ SamePrices(rows'[p], rows[p])
    PROVE  LinesTrue(t)'
<1>1. ASSUME NEW i \in 1..Len(req[t].lines), LineAt(t, req[t].lines[i])
      PROVE  LineAt(t, req[t].lines[i])'
  <2>1. req[t].lines[i].product \in Product
    BY LineType
  <2> QED
    BY <1>1, <2>1 DEF LineAt, SamePrices
<1> QED
  BY <1>1 DEF LinesTrue, IsSale

\* What a sale takes from the row it has locked are its committed prices.
LEMMA DecrementLines ==
    ASSUME TypeInv, DraftInv, PriceInv, NEW t \in Request, Decrement(t), IsSale(t)
    PROVE  /\ SamePrices(draft'[Cur(t).product], rows[Cur(t).product])
           /\ LinesTrue(t)'
<1> DEFINE p == Cur(t).product
<1>a. PICK lines : lines = req[t].lines
  OBVIOUS
<1>b. PICK line : line = [product |-> p, quantity |-> Cur(t).quantity,
                          unitPrice |-> draft[p].salePrice,
                          unitCost |-> draft[p].purchasePrice]
  OBVIOUS
<1>1. p \in Product
  BY WriteStep
<1>2. SamePrices(draft[p], rows[p])
  BY <1>1 DEF Decrement, CanLock, DraftInv, PriceInv, PricesHeld, SamePrices
<1>3. draft'[p].salePrice = draft[p].salePrice /\ draft'[p].purchasePrice = draft[p].purchasePrice
  BY <1>1 DEF Decrement, Write, TypeInv, TypeOK
<1>4. /\ req'[t].lines = Append(lines, line) /\ req'[t].input = req[t].input
      /\ req'[t].pc \in {"write", "finish"} /\ req[t].pc = "write"
      /\ \A r \in Product : lock'[r] = IF r = p THEN t ELSE lock[r]
      /\ UNCHANGED rows
  BY <1>a, <1>b DEF Decrement, Write, AfterItem, TypeInv, TypeOK
<1>5. LineAt(t, line)'
  BY <1>b, <1>1, <1>2, <1>4 DEF LineAt, SamePrices
<1>6. ASSUME NEW i \in 1..Len(lines) PROVE LineAt(t, lines[i])'
  <2>1. lines[i].product \in Product
    BY <1>a, LineType DEF TypeInv
  <2>2. LineAt(t, lines[i])
    BY <1>a, <1>4 DEF PriceInv, LinesTrue
  <2> QED
    BY <1>4, <2>1, <2>2 DEF LineAt
<1>7. lines \in Seq(SaleLine)
  BY <1>a DEF TypeInv, TypeOK
<1> HIDE DEF p
<1>8. ASSUME NEW i \in 1..Len(Append(lines, line))
      PROVE  LineAt(t, Append(lines, line)[i])'
  <2>1. Len(lines) \in Nat /\ Len(Append(lines, line)) = Len(lines) + 1
    BY <1>7
  <2>2. CASE i \in 1..Len(lines)
    <3>1. Append(lines, line)[i] = lines[i]
      BY <1>7, <2>2
    <3>2. LineAt(t, lines[i])'
      BY <1>6, <2>2
    <3> QED
      BY <3>1, <3>2
  <2>3. CASE i = Len(lines) + 1
    <3>1. Append(lines, line)[i] = line
      BY <1>7, <2>3
    <3> QED
      BY <1>5, <3>1
  <2> QED
    BY <1>8, <2>1, <2>2, <2>3
<1>9. LinesTrue(t)'
  BY <1>4, <1>8 DEF LinesTrue, IsSale
<1> QED
  BY <1>2, <1>3, <1>9 DEF p, SamePrices

\* No step of any call makes the lines of a sale in progress untrue.
LEMMA PriceNext ==
    TypeInv /\ DraftInv /\ LockedAtHome /\ PriceInv /\ [Next]_vars => PriceInv'
<1> SUFFICES ASSUME TypeInv, DraftInv, LockedAtHome, PriceInv, [Next]_vars
             PROVE  PriceInv'
  OBVIOUS
<1>0. TypeOK
  BY DEF TypeInv
<1>t. \A t \in Request : t # NoTx
  BY InventoryAssumption
\* A row the step leaves to the same call, with its copy and its prices.
<1>1. ASSUME NEW p \in Product, lock'[p] = lock[p], draft'[p] = draft[p],
             rows'[p] = rows[p], lock'[p] # NoTx,
             req'[lock'[p]].input.op = "sale"
      PROVE  SamePrices(draft'[p], rows'[p])
  <2>1. lock[p] \in Request /\ req[lock[p]].pc # "idle"
    BY <1>0, <1>1 DEF TypeOK, LockedAtHome
  <2>2. IsSale(lock[p])
    <3>1. req'[lock[p]].input = req[lock[p]].input
      BY <2>1, InputKept
    <3> QED
      BY <1>1, <3>1 DEF IsSale
  <2> QED
    BY <1>1, <2>2 DEF PriceInv, PricesHeld
\* A step of one call that leaves rows, copies and locks alone.
<1>2. ASSUME NEW t \in Request, UNCHANGED <<rows, draft, lock>>,
             \A u \in Request \ {t} : req'[u] = req[u], LinesTrue(t)'
      PROVE  PriceInv'
  <2>1. PricesHeld'
    BY <1>1, <1>2 DEF PricesHeld, IsSale
  <2>2. ASSUME NEW u \in Request \ {t} PROVE LinesTrue(u)'
    BY <1>0, <1>2, LinesKept DEF PriceInv, SamePrices
  <2> QED
    BY <1>2, <2>1, <2>2 DEF PriceInv
<1>3. ASSUME NEW t \in Request, Submit(t) PROVE PriceInv'
  <2>1. PICK in \in Input :
          req' = [req EXCEPT ![t].pc = FirstStep(in.op), ![t].input = in]
    BY <1>3 DEF Submit
  <2>2. /\ req'[t].lines = req[t].lines /\ req'[t].input = in
        /\ req'[t].pc = FirstStep(in.op)
        /\ \A u \in Request \ {t} : req'[u] = req[u]
    BY <1>0, <2>1 DEF TypeOK
  <2>3. req[t].pc = "idle" /\ UNCHANGED <<rows, draft, lock>>
    BY <1>3 DEF Submit
  <2>4. req'[t].lines = <<>>
    BY <2>2, <2>3 DEF PriceInv, LinesTrue
  <2>5. LinesTrue(t)'
    BY <2>2, <2>4 DEF LinesTrue, IsSale, FirstStep
  <2> QED
    BY <2>2, <2>3, <2>5, <1>2
<1>4. ASSUME NEW t \in Request, CheckOrder(t) \/ ReadProduct(t) PROVE PriceInv'
  <2>1. /\ UNCHANGED <<rows, draft, lock>> /\ req[t].pc \in {"check", "read"}
        /\ req'[t].input = req[t].input
        /\ \A u \in Request \ {t} : req'[u] = req[u]
        /\ req'[t].pc \in {"read", "write", "finish"}
    <3>1. CASE CheckOrder(t)
      <4>1. PICK pc \in {"read", "finish"} : req' = [req EXCEPT ![t].pc = pc]
        BY <3>1 DEF CheckOrder, Goto
      <4> QED
        BY <1>0, <3>1, <4>1 DEF CheckOrder, TypeOK
    <3>2. CASE ReadProduct(t)
      BY <1>0, <3>2 DEF ReadProduct, TypeOK
    <3> QED
      BY <1>4, <3>1, <3>2
  <2>2. ~IsSale(t)
    BY <2>1 DEF TypeInv, Cursor, PriceInv, LinesTrue, IsSale
  <2>3. LinesTrue(t)'
    BY <2>1, <2>2 DEF LinesTrue, IsSale
  <2> QED
    BY <2>1, <2>3, <1>2
<1>5. ASSUME NEW t \in Request, Increment(t) \/ Decrement(t) \/ Adjust(t)
      PROVE  PriceInv'
  <2> DEFINE p == Cur(t).product
  <2>1. /\ p \in Product /\ CanLock(t, p)
        /\ lock' = [lock EXCEPT ![p] = t]
        /\ \A r \in Product \ {p} : draft'[r] = draft[r]
        /\ req'[t].input = req[t].input
        /\ req'[t].pc \in {"read", "write", "finish"}
        /\ \A u \in Request \ {t} : req'[u] = req[u]
        /\ UNCHANGED rows
    BY <1>5, WriteStep
  <2>2. \A r \in Product : lock'[r] = IF r = p THEN t ELSE lock[r]
    BY <1>0, <2>1 DEF TypeOK
  <2>3. /\ IsSale(t) => SamePrices(draft'[p], rows'[p])
        /\ LinesTrue(t)'
    <3>1. CASE IsSale(t)
      <4>1. Decrement(t)
        BY <1>5, <3>1 DEF Increment, Adjust, IsSale
      <4> QED
        BY <2>1, <3>1, <4>1, DecrementLines
    <3>2. CASE ~IsSale(t)
      <4>1. ~IsSale(t)'
        BY <2>1, <3>2 DEF IsSale
      <4> QED
        BY <2>1, <3>2, <4>1 DEF LinesTrue
    <3> QED
      BY <3>1, <3>2
  <2> HIDE DEF p
  <2>5. ASSUME NEW r \in Product, lock'[r] # NoTx, req'[lock'[r]].input.op = "sale"
        PROVE  SamePrices(draft'[r], rows'[r])
    <3>1. CASE r = p
      BY <2>1, <2>2, <2>3, <2>5, <3>1 DEF IsSale
    <3>2. CASE r # p
      BY <2>1, <2>2, <2>5, <3>2, <1>1
    <3> QED
      BY <3>1, <3>2
  <2>6. ASSUME NEW u \in Request \ {t} PROVE LinesTrue(u)'
    <3>1. \A r \in Product : lock[r] = u => lock'[r] = u /\ SamePrices(rows'[r], rows[r])
      BY <1>t, <2>1, <2>2 DEF CanLock, SamePrices
    <3> QED
      BY <1>0, <2>1, <3>1, LinesKept DEF PriceInv
  <2> QED
    BY <2>3, <2>5, <2>6 DEF PriceInv, PricesHeld, IsSale
<1>6. ASSUME NEW t \in Request, Finish(t) \/ Rollback(t) PROVE PriceInv'
  <2>1. /\ \A r \in Product : lock'[r] = IF lock[r] = t THEN NoTx ELSE lock[r]
        /\ \A r \in Product : lock[r] # t => rows'[r] = rows[r] /\ draft'[r] = draft[r]
        /\ req'[t].pc \in {"done", "failed"}
        /\ \A u \in Request \ {t} : req'[u] = req[u]
    BY <1>6, EndStep
  <2>2. PricesHeld'
    BY <2>1, <1>1 DEF PricesHeld, IsSale
  <2>3. LinesTrue(t)'
    BY <2>1 DEF LinesTrue
  <2>4. ASSUME NEW u \in Request \ {t} PROVE LinesTrue(u)'
    <3>1. \A r \in Product : lock[r] = u => lock'[r] = u /\ SamePrices(rows'[r], rows[r])
      BY <2>1 DEF SamePrices
    <3> QED
      BY <1>0, <2>1, <3>1, LinesKept DEF PriceInv
  <2> QED
    BY <2>2, <2>3, <2>4 DEF PriceInv
<1>7. ASSUME NEW o \in OrderId, CreateOrder(o) PROVE PriceInv'
  <2>1. UNCHANGED <<rows, draft, lock, req>>
    BY <1>7 DEF CreateOrder
  <2>2. PricesHeld'
    BY <2>1, <1>1 DEF PricesHeld, IsSale
  <2> QED
    BY <1>0, <2>1, <2>2, LinesKept DEF PriceInv, SamePrices
<1>8. ASSUME NEW p \in Product, UpdatePrices(p) PROVE PriceInv'
  <2>1. /\ lock[p] = NoTx /\ UNCHANGED <<lock, req>>
        /\ \A r \in Product \ {p} : rows'[r] = rows[r] /\ draft'[r] = draft[r]
    BY <1>0, <1>8 DEF UpdatePrices, TypeOK
  <2>2. PricesHeld'
    BY <2>1, <1>1 DEF PricesHeld, IsSale
  <2>3. ASSUME NEW u \in Request PROVE LinesTrue(u)'
    <3>1. \A r \in Product : lock[r] = u => lock'[r] = u /\ SamePrices(rows'[r], rows[r])
      BY <1>t, <2>1 DEF SamePrices
    <3> QED
      BY <1>0, <2>1, <3>1, LinesKept DEF PriceInv
  <2> QED
    BY <2>2, <2>3 DEF PriceInv
<1>9. CASE UNCHANGED vars
  <2>1. UNCHANGED <<rows, draft, lock, req>>
    BY <1>9 DEF vars
  <2>2. PricesHeld'
    BY <2>1, <1>1 DEF PricesHeld, IsSale
  <2> QED
    BY <1>0, <2>1, <2>2, LinesKept DEF PriceInv, SamePrices
<1> QED
  BY <1>3, <1>4, <1>5, <1>6, <1>7, <1>8, <1>9 DEF Next, Step, Refuse, Abort

(* The lines of a sale say the prices of its products at its commit, whatever    *)
(* receptions and price changes run meanwhile: the row is locked from the line    *)
(* to the commit (sales.service.ts:33-53, schema.prisma:318-321).                *)
THEOREM SalesAreTrue == Spec => SoldAtCurrentPrices
<1> DEFINE AtCurrentPrices ==
      \A t \in Request : sales'[t] # sales[t] =>
          \A i \in 1..Len(sales'[t]) :
              LET line == sales'[t][i]
              IN  /\ line.unitPrice = rows[line.product].salePrice
                  /\ line.unitCost = rows[line.product].purchasePrice
           Inv == TypeInv /\ PostInv /\ TenantInv /\ PriceInv
<1>1. Init => Inv
  <2>1. Init => TenantInv
    BY DEF Init, TenantInv, ReadAtHome, Reads, LockedAtHome, TenantIsolation
  <2>2. Init => PriceInv
    BY DEF Init, PriceInv, PricesHeld, LinesTrue
  <2> QED
    BY <2>1, <2>2, TypeInit, PostInit
<1>2. Inv /\ [Next]_vars => Inv'
  BY TypeNext, PostNext, TenantNext, PriceNext DEF PostInv, TenantInv
<1>3. Inv /\ [Next]_vars => [AtCurrentPrices]_vars
  <2> SUFFICES ASSUME Inv, [Next]_vars, NEW t \in Request, sales'[t] # sales[t],
                      NEW i \in 1..Len(sales'[t])
               PROVE  /\ sales'[t][i].unitPrice = rows[sales'[t][i].product].salePrice
                      /\ sales'[t][i].unitCost = rows[sales'[t][i].product].purchasePrice
    OBVIOUS
  <2>1. ASSUME NEW u \in Request, Submit(u) \/ CheckOrder(u) \/ ReadProduct(u)
        PROVE  UNCHANGED sales
    BY <2>1 DEF Submit, CheckOrder, ReadProduct
  <2>2. ASSUME NEW u \in Request, Increment(u) \/ Decrement(u) \/ Adjust(u)
        PROVE  UNCHANGED sales
    BY <2>2 DEF Increment, Decrement, Adjust
  <2>3. ASSUME NEW u \in Request, Refuse(u) \/ Abort(u) PROVE UNCHANGED sales
    BY <2>3 DEF Refuse, Abort, Rollback
  <2>4. \A o \in OrderId : CreateOrder(o) => UNCHANGED sales
    BY DEF CreateOrder
  <2>5. \A p \in Product : UpdatePrices(p) => UNCHANGED sales
    BY DEF UpdatePrices
  <2>6. UNCHANGED vars => UNCHANGED sales
    BY DEF vars
  <2>7. PICK u \in Request : Finish(u)
    BY <2>1, <2>2, <2>3, <2>4, <2>5, <2>6 DEF Next, Step
  <2>8. /\ u = t /\ req[t].input.op = "sale" /\ req[t].pc = "finish"
        /\ sales'[t] = req[t].lines
    BY <2>7 DEF Finish, TypeInv, TypeOK
  <2>9. LineAt(t, req[t].lines[i])
    BY <2>8 DEF PriceInv, LinesTrue, IsSale
  <2> QED
    BY <2>8, <2>9 DEF LineAt
<1> HIDE DEF Inv
<1>4. Spec => [][AtCurrentPrices]_vars
  BY <1>1, <1>2, <1>3, PTL DEF Spec
<1> QED
  BY <1>4 DEF SoldAtCurrentPrices

-----------------------------------------------------------------------------
(* The concurrent services implement StockLedger: every step leaves the       *)
(* ledger alone or posts the movements of one call, once and all at once.     *)
(* The commit of a call publishes its working copies, so PostInv says what a  *)
(* working copy is: the committed ledger, followed by movements of the call   *)
(* that holds the row's lock.  And a call that has posted is done, so it      *)
(* cannot post again.                                                         *)

\* A movement that documents the stock it was made at is one the ledger accepts.
LEMMA DocumentsPosted ==
    ASSUME MaxInt \in Nat, NEW p \in Product, NEW row \in Row, Replays(p, row),
           NEW i \in 1..Len(row.movements)
    PROVE  Ledger!Posted(p, row.movements, i) /\ row.movements[i].newQuantity >= 0
<1>1. row.movements \in Seq(Movement)
  BY DEF Row
<1>2. row.movements[i] \in Movement
  BY <1>1
<1>3. Before(p, row.movements, i) = Ledger!StockAfter(p, row.movements, i - 1)
  BY <1>1 DEF Before, Ledger!StockAfter
<1>4. Documents(row.movements[i], Before(p, row.movements, i))
  BY DEF Replays
<1> QED
  BY <1>2, <1>3, <1>4 DEF Documents, Ledger!Posted, Movement, MovementType

\* The stock of a row that replays is the ledger's.
LEMMA ReplaysStock ==
    ASSUME NEW p \in Product, NEW row \in Row, Replays(p, row)
    PROVE  row.stock = Ledger!StockAfter(p, row.movements, Len(row.movements))
<1>1. row.movements \in Seq(Movement) /\ Len(row.movements) \in Nat
  BY DEF Row
<1> QED
  BY <1>1 DEF Replays, Before, Ledger!StockAfter

\* The commit of a call is a posting of the ledger.
LEMMA FinishIsPost ==
    ASSUME TypeInv, LedgerInv, PostInv, NEW t \in Request, Finish(t)
    PROVE  Ledger!Post(t)
<1>0. TypeOK /\ MaxInt \in Nat /\ t # NoTx
  BY InventoryAssumption DEF TypeInv
<1>1. \A p \in Product : rows'[p] = IF lock[p] = t THEN draft[p] ELSE rows[p]
  BY DEF Finish, Visible
<1>2. req[t].pc # "done"
  BY DEF Finish
<1>3. ASSUME NEW p \in Product
      PROVE  LET old == rows[p].movements
                 new == rows'[p].movements
             IN  /\ Len(old) <= Len(new)
                 /\ \A i \in 1..Len(old) : new[i] = old[i] /\ old[i].by # t
                 /\ \A i \in Len(old)+1 .. Len(new) :
                       /\ new[i].by = t
                       /\ Ledger!Posted(p, new, i)
                       /\ new[i].newQuantity >= 0
                 /\ rows'[p].stock = Ledger!StockAfter(p, new, Len(new))
  <2> DEFINE old == rows[p].movements
             new == rows'[p].movements
  <2>1. /\ rows[p] \in Row /\ rows'[p] \in Row /\ Replays(p, rows'[p])
        /\ old \in Seq(Movement) /\ Len(old) \in Nat
        /\ new \in Seq(Movement) /\ Len(new) \in Nat
    <3>1. /\ rows[p] \in Row /\ draft[p] \in Row
          /\ Replays(p, rows[p]) /\ Replays(p, draft[p])
      BY <1>0 DEF TypeOK, LedgerInv
    <3>2. rows'[p] = rows[p] \/ rows'[p] = draft[p]
      BY <1>1
    <3>3. rows'[p] \in Row /\ Replays(p, rows'[p])
      BY <3>1, <3>2
    <3> QED
      BY <3>1, <3>3 DEF Row
  <2>2. \A i \in 1..Len(old) : old[i].by # t
    BY <1>2 DEF PostInv, PostedInv
  <2>3. Prolongs(old, new, t)
    <3>1. CASE lock[p] = t
      BY <1>0, <1>1, <3>1 DEF PostInv, DraftInv
    <3>2. CASE lock[p] # t
      <4>1. new = old
        BY <1>1, <3>2
      <4> QED
        BY <2>1, <4>1 DEF Prolongs
    <3> QED
      BY <3>1, <3>2
  <2>4. ASSUME NEW i \in Len(old)+1 .. Len(new)
        PROVE  Ledger!Posted(p, new, i) /\ new[i].newQuantity >= 0
    <3>1. i \in 1..Len(rows'[p].movements)
      BY <2>1
    <3> QED
      BY <1>0, <2>1, <3>1, DocumentsPosted
  <2>5. rows'[p].stock = Ledger!StockAfter(p, new, Len(new))
    BY <2>1, ReplaysStock
  <2> QED
    BY <2>2, <2>3, <2>4, <2>5 DEF Prolongs
<1> QED
  BY <1>3 DEF Ledger!Post

\* Every other step leaves stocks and movements alone.
LEMMA OthersStutter ==
    ASSUME TypeInv, [Next]_vars, \A t \in Request : ~Finish(t)
    PROVE  \A p \in Product : /\ rows'[p].stock = rows[p].stock
                              /\ rows'[p].movements = rows[p].movements
<1>0. TypeOK
  BY DEF TypeInv
<1>1. CASE UNCHANGED rows
  BY <1>1
<1>2. ASSUME NEW p \in Product, UpdatePrices(p), NEW r \in Product
      PROVE  rows'[r].stock = rows[r].stock /\ rows'[r].movements = rows[r].movements
  BY <1>0, <1>2 DEF UpdatePrices, TypeOK, Row
<1>3. UNCHANGED rows \/ \E p \in Product : UpdatePrices(p)
  BY DEF Next, Step, Submit, CheckOrder, ReadProduct, Increment, Decrement, Adjust,
         Refuse, Abort, Rollback, CreateOrder, vars
<1> QED
  BY <1>1, <1>2, <1>3

\* One step of the services is a step of the ledger, or none.
LEMMA StepRefines ==
    ASSUME TypeInv, LedgerInv, PostInv, [Next]_vars
    PROVE  [Ledger!LedgerNext]_<<[p \in Product |-> rows[p].stock],
                                 [p \in Product |-> rows[p].movements]>>
<1>1. ASSUME NEW t \in Request, Finish(t) PROVE Ledger!LedgerNext
  BY <1>1, FinishIsPost DEF Ledger!LedgerNext
<1>2. CASE \A t \in Request : ~Finish(t)
  BY <1>2, OthersStutter
<1> QED
  BY <1>1, <1>2

\* A product starts with its initial stock and an empty ledger.
LEMMA InitRefines == Init => Ledger!LedgerInit
<1> SUFFICES ASSUME Init PROVE Ledger!LedgerInit
  OBVIOUS
<1>1. ASSUME NEW p \in Product
      PROVE  rows[p].stock = InitialStock[p] /\ rows[p].movements = <<>>
  BY DEF Init
<1>2. InitialStock \in [Product -> 0..MaxInt]
  BY InventoryAssumption
<1> QED
  BY <1>1, <1>2 DEF Ledger!LedgerInit

(* The committed rows behave as the append-only ledger of StockLedger,         *)
(* whatever calls interleave, refuse, abort or time out: a successful call      *)
(* posts once and all at once (stock.service.ts, sales.service.ts:31-71,        *)
(* purchase-orders.service.ts:69-107).                                          *)
THEOREM Refinement == Spec => ImplementsLedger
<1>1. Spec => [](TypeInv /\ LedgerInv /\ PostInv)
  BY TypeInit, TypeNext, LedgerInit, LedgerNext, PostInit, PostNext, PTL DEF Spec
<1>2. TypeInv /\ LedgerInv /\ PostInv /\ [Next]_vars
        => [Ledger!LedgerNext]_<<[p \in Product |-> rows[p].stock],
                                 [p \in Product |-> rows[p].movements]>>
  BY StepRefines
<1> QED
  BY <1>1, <1>2, InitRefines, PTL DEF Spec, ImplementsLedger, Ledger!LedgerSpec

-----------------------------------------------------------------------------
(* All or nothing                                                            *)

\* The quantities of the movements call t has in a ledger, and those of the
\* first n items of its body that are on product p.
Booked(movements, t) == Quantities(Chosen(movements, By(movements, t)))
Due(t, p, n) == Quantities(Chosen(Items(t), {i \in On(Items(t), p) : i <= n}))

\* A call posts its items, one movement for one item.
Posts(t) == req[t].input.op \notin {"adjust", "cancel"}

\* What a call has written, as it sees the rows itself, is what it has worked
\* through: all of its items when it ends well.
WritesItems(t) ==
    Posts(t) =>
        /\ req[t].pc \in {"finish", "done"} => req[t].idx = Len(Items(t)) + 1
        /\ req[t].pc # "failed" => \A p \in Product :
              Booked(Visible(t, p).movements, t) = Due(t, p, req[t].idx - 1)

\* So are the lines of a sale, and a sale that is done has its lines on record.
WritesLines(t) ==
    /\ IsSale(t) /\ req[t].pc # "failed" =>
          /\ Len(req[t].lines) = req[t].idx - 1
          /\ \A i \in 1..Len(req[t].lines) :
                req[t].lines[i].quantity = Items(t)[i].quantity
    /\ sales[t] = IF req[t].pc = "done" /\ IsSale(t) THEN req[t].lines ELSE <<>>

HeldInProgress == \A p \in Product : lock[p] # NoTx => InTransaction(lock[p])

BooksInv == HeldInProgress /\ \A t \in Request : WritesItems(t) /\ WritesLines(t)

-----------------------------------------------------------------------------
\* The quantities of the elements a filter keeps, one by one.
LEMMA QuantitiesChosen ==
    ASSUME NEW s, NEW S \in SUBSET Nat, IsFiniteSet(S)
    PROVE  /\ Quantities(Chosen(s, S)) =
                [k \in 1..Cardinality(S) |-> s[Nth(S, k)].quantity]
           /\ Cardinality(S) \in Nat
<1>1. Cardinality(S) \in Nat
  BY Ranks
<1>2. Len(Chosen(s, S)) = Cardinality(S)
  BY <1>1 DEF Chosen
<1>3. \A k \in 1..Cardinality(S) : Chosen(s, S)[k] = s[Nth(S, k)]
  BY DEF Chosen
<1> QED
  BY <1>1, <1>2, <1>3 DEF Quantities

\* They depend on the elements kept alone.
LEMMA SameQuantities ==
    ASSUME NEW a, NEW b, NEW S \in SUBSET Nat, IsFiniteSet(S),
           \A i \in S : b[i] = a[i]
    PROVE  Quantities(Chosen(b, S)) = Quantities(Chosen(a, S))
<1>1. \A k \in 1..Cardinality(S) : b[Nth(S, k)] = a[Nth(S, k)]
  BY Ranks
<1> QED
  BY <1>1, QuantitiesChosen

\* Index m lies beyond those of S; a and b are the same at those of S.
Beyond(S, m) == /\ S \in SUBSET Nat /\ IsFiniteSet(S)
                /\ m \in Nat /\ \A l \in S : l < m
Agree(S, a, b) == \A i \in S : b[i] = a[i]

\* One more element kept adds its quantity, last.
LEMMA OneMore ==
    ASSUME NEW S, NEW m, Beyond(S, m), NEW a, NEW b, Agree(S, a, b)
    PROVE  /\ Cardinality(S) \in Nat
           /\ DOMAIN Quantities(Chosen(a, S)) = 1..Cardinality(S)
           /\ Quantities(Chosen(b, S \cup {m})) =
                [k \in 1..(Cardinality(S) + 1) |->
                   IF k \in 1..Cardinality(S) THEN Quantities(Chosen(a, S))[k]
                                              ELSE b[m].quantity]
<1> DEFINE U == S \cup {m}
           c == Cardinality(S)
           x == Quantities(Chosen(a, S))
<1>0. /\ S \in SUBSET Nat /\ IsFiniteSet(S)
      /\ m \in Nat /\ \A l \in S : l < m
      /\ \A i \in S : b[i] = a[i]
  BY DEF Beyond, Agree
<1>1. c \in Nat /\ x = [k \in 1..c |-> a[Nth(S, k)].quantity]
  BY <1>0, QuantitiesChosen
<1>2. /\ U \in SUBSET Nat /\ IsFiniteSet(U) /\ Cardinality(U) = c + 1
      /\ Nth(U, c + 1) = m /\ \A k \in 1..c : Nth(U, k) = Nth(S, k)
  BY <1>0, NthExtended
<1>3. Quantities(Chosen(b, U)) = [k \in 1..(c + 1) |-> b[Nth(U, k)].quantity]
  <2> HIDE DEF U, c
  <2> QED
    BY <1>2, QuantitiesChosen
<1>4. ASSUME NEW k \in 1..(c + 1)
      PROVE  b[Nth(U, k)].quantity = IF k \in 1..c THEN x[k] ELSE b[m].quantity
  <2>1. CASE k \in 1..c
    <3>1. Nth(S, k) \in S /\ Nth(U, k) = Nth(S, k)
      BY <1>0, <1>2, <2>1, Ranks
    <3>2. x[k] = a[Nth(S, k)].quantity
      BY <1>1, <2>1
    <3>3. b[Nth(S, k)] = a[Nth(S, k)]
      BY <1>0, <3>1
    <3> QED
      BY <2>1, <3>1, <3>2, <3>3
  <2>2. CASE k \notin 1..c
    <3>1. k = c + 1
      BY <1>1, <2>2
    <3> QED
      BY <1>2, <2>2, <3>1
  <2> QED
    BY <2>1, <2>2
<1> HIDE DEF U, c, x
<1>5. Quantities(Chosen(b, U)) =
        [k \in 1..(c + 1) |-> IF k \in 1..c THEN x[k] ELSE b[m].quantity]
  BY <1>3, <1>4
<1> QED
  BY <1>1, <1>5 DEF U, c, x

\* The movements of a call in a ledger are finitely many, none beyond its end.
LEMMA ByFinite ==
    ASSUME NEW a \in Seq(Movement), NEW t
    PROVE  /\ By(a, t) \in SUBSET Nat /\ IsFiniteSet(By(a, t))
           /\ By(a, t) \subseteq 1..Len(a) /\ Len(a) \in Nat
<1>1. Len(a) \in Nat /\ By(a, t) \subseteq 1..Len(a)
  BY DEF By
<1>2. IsFiniteSet(1..Len(a))
  BY <1>1, FS_Interval
<1> QED
  BY <1>1, <1>2, FS_Subset

\* What another call appends to a ledger is not booked for this one.
LEMMA OthersBooked ==
    ASSUME NEW a \in Seq(Movement), NEW b \in Seq(Movement), NEW t, NEW u,
           Prolongs(a, b, u), t # u
    PROVE  Booked(b, t) = Booked(a, t)
<1>1. Len(a) \in Nat /\ Len(b) \in Nat /\ DOMAIN a = 1..Len(a) /\ DOMAIN b = 1..Len(b)
  OBVIOUS
<1>2. By(b, t) = By(a, t)
  BY <1>1 DEF By, Prolongs
<1>3. \A i \in By(a, t) : b[i] = a[i]
  BY <1>1 DEF By, Prolongs
<1> QED
  BY <1>2, <1>3, ByFinite, SameQuantities DEF Booked

\* A filter that keeps nothing leaves the empty sequence.
LEMMA NothingChosen ==
    ASSUME NEW s
    PROVE  Quantities(Chosen(s, {})) = <<>>
<1>1. Cardinality({}) = 0 /\ IsFiniteSet({}) /\ {} \in SUBSET Nat
  BY FS_EmptySet
<1> QED
  BY <1>1, QuantitiesChosen

\* Nothing is booked for a call that is not done, in what is committed.
LEMMA NothingBooked ==
    ASSUME TypeOK, PostedInv, NEW t \in Request, req[t].pc # "done", NEW p \in Product
    PROVE  Booked(rows[p].movements, t) = <<>>
<1>1. rows[p].movements \in Seq(Movement)
  BY DEF TypeOK, Row
<1>2. By(rows[p].movements, t) = {}
  BY <1>1 DEF By, PostedInv
<1> QED
  BY <1>2, NothingChosen DEF Booked

\* Nothing is due before the first item, whatever the items are.
LEMMA NothingDue ==
    ASSUME NEW items, items \in Seq(Item), NEW p
    PROVE  Quantities(Chosen(items, {i \in On(items, p) : i <= 0})) = <<>>
<1>1. DOMAIN items = 1..Len(items) /\ Len(items) \in Nat
  OBVIOUS
<1>2. {i \in On(items, p) : i <= 0} = {}
  BY <1>1 DEF On
<1> QED
  BY <1>2, NothingChosen

\* The items a call works through are those it began with.
LEMMA BodyKept ==
    ASSUME TypeInv, OrderFollowsGoods, [Next]_vars, NEW u \in Request,
           req[u].pc \in {"read", "write", "finish", "done"},
           req'[u].input = req[u].input
    PROVE  Items(u)' = Items(u)
<1>1. CASE req[u].input.op = "receive"
  <2>1. req[u].input.order \in OrderId
    BY <1>1, InputFacts DEF TypeInv, TypeOK
  <2>2. orders[req[u].input.order].status # "absent"
    <3>1. CASE req[u].pc = "done"
      <4>1. u \in Receptions(req[u].input.order)
        BY <1>1, <3>1 DEF Receptions
      <4> QED
        BY <2>1, <4>1 DEF OrderFollowsGoods
    <3>2. CASE req[u].pc # "done"
      BY <1>1, <3>2 DEF TypeInv, Cursor
    <3> QED
      BY <3>1, <3>2
  <2> QED
    BY <1>1, <2>1, <2>2, OrdersKept DEF Items
<1>2. CASE req[u].input.op # "receive"
  BY <1>2 DEF Items
<1> QED
  BY <1>1, <1>2

\* What a call works through after a step is a sequence of items too.
LEMMA ItemsTypeAfter ==
    ASSUME TypeInv', NEW t \in Request
    PROVE  Items(t)' \in Seq(Item)
<1>1. req'[t].input \in Input
  BY DEF TypeInv, TypeOK
<1>2. CASE req'[t].input.op = "receive"
  <2>1. req'[t].input.order \in OrderId
    BY <1>1, <1>2, InputFacts
  <2> QED
    BY <1>2, <2>1 DEF Items, TypeInv, TypeOK, Order
<1>3. CASE req'[t].input.op # "receive"
  BY <1>1, <1>3, InputFacts DEF Items
<1> QED
  BY <1>2, <1>3

\* A call that does not move, and that sees what it saw of its own movements,
\* has still written what it worked through.
LEMMA WorkKept ==
    ASSUME TypeInv, TypeInv', OrderFollowsGoods, [Next]_vars, NEW u \in Request,
           req'[u] = req[u], sales'[u] = sales[u], WritesItems(u), WritesLines(u),
           \A p \in Product : Booked(Visible(u, p).movements, u)'
                                = Booked(Visible(u, p).movements, u)
    PROVE  WritesItems(u)' /\ WritesLines(u)'
<1>1. CASE req[u].pc = "failed"
  BY <1>1 DEF WritesItems, WritesLines
<1>2. CASE req[u].pc \in {"idle", "check"}
  <2>1. req[u].idx = 1
    BY <1>2 DEF TypeInv, Cursor
  <2>2. Items(u) \in Seq(Item) /\ Items(u)' \in Seq(Item)
    BY ItemsType, ItemsTypeAfter DEF TypeInv
  <2>3. ASSUME NEW p \in Product
        PROVE  Due(u, p, req[u].idx - 1) = <<>> /\ Due(u, p, req[u].idx - 1)' = <<>>
    <3>1. req[u].idx - 1 = 0 /\ (req[u].idx - 1)' = 0
      BY <2>1
    <3>2. Due(u, p, req[u].idx - 1) = <<>>
      BY <2>2, <3>1, NothingDue DEF Due
    <3>3. Due(u, p, req[u].idx - 1)' = <<>>
      BY <2>2, <3>1, NothingDue DEF Due
    <3> QED
      BY <3>2, <3>3
  <2>4. WritesItems(u)'
    BY <1>2, <2>3 DEF WritesItems, Posts
  <2>5. WritesLines(u)'
    BY <1>2, <2>1 DEF WritesLines, IsSale
  <2> QED
    BY <2>4, <2>5
<1>3. CASE req[u].pc \in {"read", "write", "finish", "done"}
  <2>1. Items(u)' = Items(u)
    BY <1>3, BodyKept
  <2>2. WritesItems(u)'
    BY <2>1 DEF WritesItems, Posts, Due
  <2>3. WritesLines(u)'
    BY <2>1 DEF WritesLines, IsSale
  <2> QED
    BY <2>2, <2>3
<1> QED
  BY <1>1, <1>2, <1>3 DEF TypeInv, TypeOK, PC

\* What is booked for a call depends on the movements it sees.
LEMMA BookedSame ==
    ASSUME NEW u, NEW p, Visible(u, p).movements' = Visible(u, p).movements
    PROVE  Booked(Visible(u, p).movements, u)' = Booked(Visible(u, p).movements, u)
  BY DEF Booked, By, Chosen, Quantities, Nth, Rank

\* While a call writes, or ends, the others see what they saw of themselves.
LEMMA OthersSee ==
    ASSUME TypeInv, PostInv, NEW t \in Request, NEW u \in Request, u # t,
           \/ Increment(t) \/ Decrement(t) \/ Adjust(t)
           \/ Finish(t) \/ Rollback(t),
           NEW p \in Product
    PROVE  Booked(Visible(u, p).movements, u)' = Booked(Visible(u, p).movements, u)
<1>0. u # NoTx /\ t # NoTx
  BY InventoryAssumption
<1>1. CASE Increment(t) \/ Decrement(t) \/ Adjust(t)
  <2>1. /\ CanLock(t, Cur(t).product) /\ Cur(t).product \in Product
        /\ lock' = [lock EXCEPT ![Cur(t).product] = t]
        /\ \A r \in Product \ {Cur(t).product} : draft'[r] = draft[r]
        /\ UNCHANGED rows
    BY <1>1, WriteStep
  <2>2. lock'[p] = IF p = Cur(t).product THEN t ELSE lock[p]
    BY <2>1 DEF TypeInv, TypeOK
  <2>3. Visible(u, p)' = Visible(u, p)
    BY <1>0, <2>1, <2>2 DEF Visible, CanLock
  <2> QED
    BY <2>3 DEF Booked, By, Chosen, Quantities, Nth, Rank
<1>2. CASE Finish(t) \/ Rollback(t)
  <2>1. /\ lock'[p] = IF lock[p] = t THEN NoTx ELSE lock[p]
        /\ lock[p] # t => rows'[p] = rows[p] /\ draft'[p] = draft[p]
        /\ rows'[p] \in {rows[p], Visible(t, p)}
    BY ZenonT(40), <1>2, EndStep
  <2>2. CASE lock[p] # t
    <3>1. Visible(u, p)' = Visible(u, p)
      BY <1>0, <2>1, <2>2 DEF Visible
    <3> QED
      BY <3>1 DEF Booked, By, Chosen, Quantities, Nth, Rank
  <2>3. CASE lock[p] = t
    <3>1. Visible(u, p) = rows[p] /\ Visible(u, p)' = rows'[p]
          /\ Visible(t, p) = draft[p]
      BY <1>0, <2>1, <2>3 DEF Visible
    <3>2. Prolongs(rows[p].movements, draft[p].movements, t)
      BY <1>0, <2>3 DEF PostInv, DraftInv
    <3>3. rows[p].movements \in Seq(Movement) /\ draft[p].movements \in Seq(Movement)
      BY DEF TypeInv, TypeOK, Row
    <3>4. Booked(draft[p].movements, u) = Booked(rows[p].movements, u)
      BY <3>2, <3>3, OthersBooked
    <3>5. Booked(rows'[p].movements, u) = Booked(rows[p].movements, u)
      BY <2>1, <3>1, <3>4
    <3>6. Booked(Visible(u, p).movements, u)' = Booked(rows'[p].movements, u)
      BY <3>1 DEF Booked, By, Chosen, Quantities, Nth, Rank
    <3> QED
      BY <3>1, <3>5, <3>6
  <2> QED
    BY <2>2, <2>3
<1> QED
  BY <1>1, <1>2

\* An entry, a reception, an exit or a sale writes a movement of the quantity
\* of the item it stands at.
LEMMA MovementWritten ==
    ASSUME TypeInv, NEW t \in Request, Increment(t) \/ Decrement(t)
    PROVE  \E m \in Movement : \E stock, cost :
              /\ Write(t, Cur(t).product, stock, cost, m)
              /\ m.by = t /\ m.quantity = Cur(t).quantity
<1> DEFINE p == Cur(t).product
           s == draft[p].stock
           q == Cur(t).quantity
           in == [type |-> "IN", quantity |-> q, previousQuantity |-> req[t].seen,
                  newQuantity |-> s + q, by |-> t]
           out == [type |-> "OUT", quantity |-> q, previousQuantity |-> s,
                   newQuantity |-> s - q, by |-> t]
<1>1. /\ p \in Product /\ q \in 0..MaxInt /\ MaxInt \in Nat
      /\ s \in 0..MaxInt /\ req[t].seen \in 0..MaxInt
  <2>1. p \in Product /\ q \in 0..MaxInt
    BY CurType DEF Increment, Decrement
  <2> QED
    BY <2>1, InventoryAssumption DEF TypeInv, TypeOK, Row
<1>2. CASE Increment(t)
  <2>1. s + q \in 0..MaxInt
    <3>1. s + q <= MaxInt
      BY <1>2 DEF Increment
    <3> HIDE DEF s, q
    <3> QED
      BY <1>1, <3>1
  <2>2. in \in Movement /\ in.by = t /\ in.quantity = q
    BY <1>1, <2>1 DEF Movement, MovementType
  <2>3. PICK cost : Write(t, p, s + q, cost, in)
    BY <1>2 DEF Increment
  <2> HIDE DEF in
  <2> QED
    BY <2>2, <2>3
<1>3. CASE Decrement(t)
  <2>1. s - q \in 0..MaxInt
    <3>1. s >= q
      BY <1>3 DEF Decrement
    <3> HIDE DEF s, q
    <3> QED
      BY <1>1, <3>1
  <2>2. out \in Movement /\ out.by = t /\ out.quantity = q
    BY <1>1, <2>1 DEF Movement, MovementType
  <2>3. PICK cost : Write(t, p, s - q, cost, out)
    BY <1>3 DEF Decrement
  <2> HIDE DEF out
  <2> QED
    BY <2>2, <2>3
<1> QED
  BY <1>2, <1>3

\* So it has then written one item more than it had.
LEMMA ItemWritten ==
    ASSUME TypeInv, PostInv, NEW t \in Request, Increment(t) \/ Decrement(t),
           WritesItems(t)
    PROVE  WritesItems(t)'
<1>p. PICK p : p = Cur(t).product
  OBVIOUS
<1>1. /\ p \in Product /\ CanLock(t, p) /\ UNCHANGED <<rows, orders>>
      /\ req[t].pc = "write" /\ req'[t].input = req[t].input
      /\ \A r \in Product : lock'[r] = IF r = p THEN t ELSE lock[r]
      /\ \A r \in Product \ {p} : draft'[r] = draft[r]
  BY <1>p, WriteStep DEF TypeInv, TypeOK
<1>m. PICK m \in Movement : \E stock, cost :
        Write(t, p, stock, cost, m) /\ m.by = t /\ m.quantity = Cur(t).quantity
  BY <1>p, MovementWritten
<1>2. PICK stock, cost :
        Write(t, p, stock, cost, m) /\ m.by = t /\ m.quantity = Cur(t).quantity
  BY <1>m
<1>3. draft'[p].movements = Append(draft[p].movements, m)
  BY <1>1, <1>2 DEF Write, TypeInv, TypeOK
<1>4. Items(t)' = Items(t) /\ Posts(t) /\ Posts(t)'
  BY <1>1 DEF Items, Posts, Increment, Decrement
<1>5. PICK n : n = req[t].idx
  OBVIOUS
<1>6. PICK items \in Seq(Item) : items = Items(t)
  BY ItemsType DEF TypeInv
<1>7. n \in 1..Len(items) /\ Len(items) \in Nat /\ DOMAIN items = 1..Len(items)
      /\ Cur(t) = items[n]
  BY <1>1, <1>5, <1>6 DEF TypeInv, TypeOK, Cursor, Cur
<1>8. req'[t].idx = n + 1 /\ req'[t].pc \in {"read", "write", "finish"}
      /\ (req'[t].pc = "finish" => n = Len(items))
  BY <1>5, <1>6 DEF Increment, Decrement, AfterItem, TypeInv, TypeOK
<1> DEFINE upTo(r, j) == {i \in On(items, r) : i <= j}
<1>9. ASSUME NEW r \in Product
      PROVE  /\ Booked(Visible(t, r).movements, t)
                    = Quantities(Chosen(items, upTo(r, n - 1)))
             /\ IsFiniteSet(upTo(r, n - 1)) /\ upTo(r, n - 1) \in SUBSET Nat
             /\ \A i \in upTo(r, n - 1) : i < n
             /\ upTo(r, n) = IF r = p THEN upTo(r, n - 1) \cup {n} ELSE upTo(r, n - 1)
  <2>1. Booked(Visible(t, r).movements, t) = Due(t, r, n - 1)
    BY <1>1, <1>4, <1>5 DEF WritesItems
  <2>2. IsFiniteSet(1..Len(items)) /\ upTo(r, n - 1) \in SUBSET (1..Len(items))
    BY <1>7, FS_Interval DEF On
  <2>3. IsFiniteSet(upTo(r, n - 1))
    BY <2>2, FS_Subset
  <2>4. /\ upTo(r, n - 1) \in SUBSET Nat
        /\ \A i \in upTo(r, n - 1) : i < n
    BY <1>7, <2>2
  <2>5. \A i \in DOMAIN items : i <= n <=> i <= n - 1 \/ i = n
    BY <1>7
  <2>6. upTo(r, n) = IF r = p THEN upTo(r, n - 1) \cup {n} ELSE upTo(r, n - 1)
    BY <1>p, <1>7, <2>5 DEF On
  <2> QED
    BY <1>6, <2>1, <2>3, <2>4, <2>6 DEF Due
<1>10. ASSUME NEW r \in Product
       PROVE  Booked(Visible(t, r).movements, t)' = Due(t, r, n)'
  <2>0. Due(t, r, n)' = Quantities(Chosen(items, upTo(r, n)))
    BY <1>4, <1>6 DEF Due, On, Chosen, Quantities, Nth, Rank
  <2>1. CASE r # p
    <3>1. Visible(t, r)' = Visible(t, r)
      BY <1>1, <2>1 DEF Visible
    <3>2. Booked(Visible(t, r).movements, t)' = Booked(Visible(t, r).movements, t)
      BY <3>1 DEF Booked, By, Chosen, Quantities, Nth, Rank
    <3> QED
      BY <1>9, <2>0, <2>1, <3>2
  <2>2. CASE r = p
    <3>1. Visible(t, p) = draft[p] /\ Visible(t, p)' = draft'[p]
      <4>1. lock[p] \in {NoTx, t} /\ lock'[p] = t
        BY <1>1 DEF CanLock
      <4>2. lock[p] = NoTx => draft[p] = rows[p]
        BY <1>1 DEF PostInv, DraftInv
      <4> QED
        BY <4>1, <4>2 DEF Visible
    <3>2. PICK a \in Seq(Movement) : a = draft[p].movements
      BY <1>1 DEF TypeInv, TypeOK, Row
    <3>3. PICK b : b = Append(a, m)
      OBVIOUS
    <3>4. /\ b \in Seq(Movement) /\ Len(b) = Len(a) + 1 /\ b[Len(a) + 1] = m
          /\ DOMAIN b = 1..(Len(a) + 1) /\ Len(a) \in Nat /\ DOMAIN a = 1..Len(a)
          /\ \A i \in 1..Len(a) : b[i] = a[i]
      BY <3>3, AppendProperties
    <3>5. By(b, t) = By(a, t) \cup {Len(a) + 1}
      BY <1>2, <3>4 DEF By
    <3>6. /\ By(a, t) \in SUBSET Nat /\ IsFiniteSet(By(a, t))
          /\ \A l \in By(a, t) : l < Len(a) + 1 /\ b[l] = a[l]
      BY <3>4, ByFinite
    <3>7. Quantities(Chosen(a, By(a, t))) = Quantities(Chosen(items, upTo(p, n - 1)))
      BY <1>1, <1>9, <3>1, <3>2 DEF Booked
    <3>8. b[Len(a) + 1].quantity = items[n].quantity
      BY <1>2, <1>7, <3>4
    <3>9. /\ IsFiniteSet(upTo(p, n - 1)) /\ upTo(p, n - 1) \in SUBSET Nat
          /\ \A l \in upTo(p, n - 1) : l < n
          /\ upTo(p, n) = upTo(p, n - 1) \cup {n}
      BY <1>1, <1>9
    <3>10. Quantities(Chosen(b, By(a, t) \cup {Len(a) + 1}))
              = Quantities(Chosen(items, upTo(p, n - 1) \cup {n}))
      <4>1. n \in Nat /\ Len(a) + 1 \in Nat
        BY <1>7, <3>4
      <4>2. PICK S, T : S = By(a, t) /\ T = upTo(p, n - 1)
        OBVIOUS
      <4>3. PICK x, c, d : /\ x = Quantities(Chosen(a, S))
                           /\ c = Cardinality(S) /\ d = Cardinality(T)
        OBVIOUS
      <4>4. /\ c \in Nat /\ DOMAIN x = 1..c
            /\ Quantities(Chosen(b, S \cup {Len(a) + 1})) =
                 [k \in 1..(c + 1) |-> IF k \in 1..c THEN x[k] ELSE b[Len(a) + 1].quantity]
        <5>1. Beyond(S, Len(a) + 1) /\ Agree(S, a, b)
          BY <3>6, <4>1, <4>2 DEF Beyond, Agree
        <5> QED
          BY <4>3, <5>1, OneMore
      <4>5. x = Quantities(Chosen(items, T))
        BY <3>7, <4>2, <4>3
      <4>6. /\ d \in Nat /\ DOMAIN x = 1..d
            /\ Quantities(Chosen(items, T \cup {n})) =
                 [k \in 1..(d + 1) |-> IF k \in 1..d THEN x[k] ELSE items[n].quantity]
        <5>1. Beyond(T, n) /\ Agree(T, items, items)
          BY <3>9, <4>1, <4>2 DEF Beyond, Agree
        <5>2. /\ Cardinality(T) \in Nat
              /\ DOMAIN Quantities(Chosen(items, T)) = 1..Cardinality(T)
              /\ Quantities(Chosen(items, T \cup {n})) =
                   [k \in 1..(Cardinality(T) + 1) |->
                      IF k \in 1..Cardinality(T) THEN Quantities(Chosen(items, T))[k]
                                                 ELSE items[n].quantity]
          <6> HIDE DEF upTo
          <6> QED
            BY <5>1, OneMore
        <5> QED
          BY <4>3, <4>5, <5>2
      <4>7. c = d
        <5>1. 1..c = 1..d
          BY <4>4, <4>6
        <5> QED
          BY <4>4, <4>6, <5>1
      <4> HIDE DEF upTo
      <4> QED
        BY <3>8, <4>2, <4>4, <4>6, <4>7
    <3>11. Booked(Visible(t, p).movements, t)' = Quantities(Chosen(b, By(b, t)))
      <4>1. Visible(t, p)'.movements = b
        BY <1>1, <1>3, <3>1, <3>2, <3>3
      <4> QED
        BY <4>1 DEF Booked, By, Chosen, Quantities, Nth, Rank
    <3> QED
      BY <2>0, <2>2, <3>5, <3>9, <3>10, <3>11
  <2> QED
    BY <2>1, <2>2
<1>11. n + 1 - 1 = n
  BY <1>7
<1>12. ASSUME NEW r \in Product
       PROVE  Booked(Visible(t, r).movements, t)' = Due(t, r, req[t].idx - 1)'
  <2>1. req'[t].idx - 1 = n
    <3>1. n \in Nat
      BY <1>7
    <3>2. req'[t].idx = n + 1
      BY <1>8
    <3> QED
      BY <3>1, <3>2
  <2>2. Due(t, r, req[t].idx - 1)' = Due(t, r, n)'
    BY <2>1 DEF Due
  <2> QED
    BY <1>10, <2>2
<1> QED
  BY <1>4, <1>6, <1>8, <1>12 DEF WritesItems

\* A sale adds the line of that item to its lines.
LEMMA LineWritten ==
    ASSUME TypeInv, NEW t \in Request, Increment(t) \/ Decrement(t), WritesLines(t)
    PROVE  WritesLines(t)'
<1>1. /\ req[t].pc = "write" /\ req'[t].input = req[t].input
      /\ req'[t].pc \in {"read", "write", "finish"}
      /\ UNCHANGED <<orders, sales>>
  BY WriteStep
<1>2. CASE ~IsSale(t)
  BY <1>1, <1>2 DEF WritesLines, IsSale
<1>3. CASE IsSale(t)
  <2>1. Decrement(t)
    BY <1>3 DEF Increment, IsSale
  <2>2. PICK lines \in Seq(SaleLine) : lines = req[t].lines
    BY DEF TypeInv, TypeOK
  <2>3. PICK line : line = [product |-> Cur(t).product, quantity |-> Cur(t).quantity,
                            unitPrice |-> draft[Cur(t).product].salePrice,
                            unitCost |-> draft[Cur(t).product].purchasePrice]
    OBVIOUS
  <2>4. line \in SaleLine /\ line.quantity = Cur(t).quantity
    <3>1. /\ Cur(t).product \in Product /\ Cur(t).quantity \in 0..MaxInt
      BY <1>1, CurType
    <3>2. /\ draft[Cur(t).product].salePrice \in Price
          /\ draft[Cur(t).product].purchasePrice \in Price
      BY <3>1 DEF TypeInv, TypeOK, Row
    <3> QED
      BY <2>3, <3>1, <3>2 DEF SaleLine
  <2>5. req'[t].lines = Append(lines, line) /\ req'[t].idx = req[t].idx + 1
    BY <2>1, <2>2, <2>3 DEF Decrement, TypeInv, TypeOK
  <2>6. PICK n \in Nat \ {0} : n = req[t].idx
    BY DEF TypeInv, TypeOK
  <2>7. Len(lines) = n - 1 /\ \A i \in 1..Len(lines) : lines[i].quantity = Items(t)[i].quantity
    BY <1>1, <1>3, <2>2, <2>6 DEF WritesLines
  <2>8. /\ Len(Append(lines, line)) = n /\ Append(lines, line)[n] = line
        /\ \A i \in 1..(n - 1) : Append(lines, line)[i] = lines[i]
    BY <2>4, <2>6, <2>7, AppendProperties
  <2>9. Cur(t) = Items(t)[n] /\ Items(t)' = Items(t)
    BY <1>1, <2>6 DEF Cur, Items
  <2>10. ASSUME NEW i \in 1..n
         PROVE  Append(lines, line)[i].quantity = Items(t)[i].quantity
    <3>1. CASE i = n
      BY <2>4, <2>8, <2>9, <3>1
    <3>2. CASE i \in 1..(n - 1)
      BY <2>7, <2>8, <3>2
    <3> QED
      <4>1. i = n \/ i \in 1..(n - 1)
        BY <2>6
      <4> QED
        BY <3>1, <3>2, <4>1
  <2>11. n + 1 - 1 = n
    BY <2>6
  <2> QED
    BY <1>1, <1>3, <2>5, <2>6, <2>8, <2>9, <2>10, <2>11 DEF WritesLines, IsSale
<1> QED
  BY <1>2, <1>3

\* A call that begins, or that reads, has written nothing more than it had.
LEMMA ReadingKeepsBooks ==
    ASSUME NEW t \in Request, TypeInv, TypeInv', PostInv, HeldInProgress, LinesTrue(t),
           OrderFollowsGoods, [Next]_vars,
           Submit(t) \/ CheckOrder(t) \/ ReadProduct(t),
           WritesItems(t), WritesLines(t)
    PROVE  WritesItems(t)' /\ WritesLines(t)'
<1>1. UNCHANGED <<rows, draft, lock, orders, sales>>
  BY DEF Submit, CheckOrder, ReadProduct
<1>2. /\ \A p \in Product : Visible(t, p)' = Visible(t, p)
      /\ \A p \in Product : Booked(Visible(t, p).movements, t)'
                                = Booked(Visible(t, p).movements, t)
  BY <1>1 DEF Visible, Booked, By, Chosen, Quantities, Nth, Rank
<1>3. CASE Submit(t)
  <2>1. PICK in \in Input :
          req' = [req EXCEPT ![t].pc = FirstStep(in.op), ![t].input = in]
    BY <1>3 DEF Submit
  <2>2. /\ req[t].pc = "idle" /\ req[t].idx = 1
        /\ req'[t].idx = 1 /\ req'[t].lines = req[t].lines
        /\ req'[t].pc \in {"check", "read", "write"}
    BY <1>3, <2>1 DEF Submit, FirstStep, TypeInv, TypeOK, Cursor
  <2>3. Items(t)' \in Seq(Item)
    BY ItemsTypeAfter
  <2>4. \A p \in Product : Due(t, p, req[t].idx - 1)' = <<>>
    BY <2>2, <2>3, NothingDue DEF Due
  <2>5. \A p \in Product : Booked(Visible(t, p).movements, t) = <<>>
    <3>1. \A p \in Product : lock[p] # t
      BY <2>2, InventoryAssumption DEF HeldInProgress, InTransaction
    <3> QED
      BY <2>2, <3>1, NothingBooked DEF Visible, TypeInv, PostInv
  <2>6. WritesItems(t)'
    BY <1>2, <2>2, <2>4, <2>5 DEF WritesItems
  <2>7. req[t].lines = <<>>
    BY <2>2 DEF LinesTrue
  <2>8. WritesLines(t)'
    BY <1>1, <2>2, <2>7 DEF WritesLines
  <2> QED
    BY <2>6, <2>8
<1>4. CASE CheckOrder(t)
  <2>1. /\ req[t].pc = "check" /\ req[t].idx = 1 /\ req'[t].idx = 1
        /\ req'[t].input = req[t].input /\ req[t].input.op \in {"receive", "cancel"}
        /\ req'[t].pc \in {"read", "finish"}
        /\ Posts(t) => req'[t].pc = "read"
    BY <1>4 DEF CheckOrder, Goto, Posts, TypeInv, TypeOK, Cursor
  <2>2. Items(t)' = Items(t)
    BY <1>1, <2>1 DEF Items
  <2>3. WritesItems(t)'
    BY <1>2, <2>1, <2>2 DEF WritesItems, Posts, Due
  <2>4. WritesLines(t)'
    BY <1>1, <2>1 DEF WritesLines, IsSale
  <2> QED
    BY <2>3, <2>4
<1>5. CASE ReadProduct(t)
  <2>1. /\ req[t].pc = "read" /\ req'[t].pc = "write" /\ req'[t].input = req[t].input
        /\ req'[t].idx = req[t].idx /\ req'[t].lines = req[t].lines
    BY <1>5 DEF ReadProduct, TypeInv, TypeOK
  <2>2. Items(t)' = Items(t)
    BY <1>1, <2>1 DEF Items
  <2>3. WritesItems(t)'
    BY <1>2, <2>1, <2>2 DEF WritesItems, Posts, Due
  <2>4. WritesLines(t)'
    BY <1>1, <2>1, <2>2 DEF WritesLines, IsSale
  <2> QED
    BY <2>3, <2>4
<1> QED
  BY <1>3, <1>4, <1>5

\* A call that commits publishes what it has written, all of it; one that is
\* rolled back leaves nothing behind.
LEMMA EndKeepsBooks ==
    ASSUME TypeInv, OrderFollowsGoods, [Next]_vars, NEW t \in Request,
           InTransaction(t), Finish(t) \/ Rollback(t), WritesItems(t), WritesLines(t)
    PROVE  WritesItems(t)' /\ WritesLines(t)'
<1>1. /\ req'[t].input = req[t].input /\ req'[t].idx = req[t].idx
      /\ req'[t].lines = req[t].lines
  <2>1. req[t] \in [pc : PC, input : Input, idx : Nat \ {0},
                    seen : 0..MaxInt, lines : Seq(SaleLine)]
    BY DEF TypeInv, TypeOK
  <2>2. req'[t] = [req[t] EXCEPT !.pc = req'[t].pc]
    BY EndStep
  <2> QED
    BY <2>1, <2>2
<1>2. \A p \in Product : lock'[p] # t
  <2>1. \A p \in Product : lock'[p] = IF lock[p] = t THEN NoTx ELSE lock[p]
    BY EndStep
  <2>2. t # NoTx
    BY InventoryAssumption
  <2> QED
    BY <2>1, <2>2
<1>3. CASE Finish(t)
  <2>1. req[t].pc = "finish" /\ req'[t].pc = "done"
    BY <1>3 DEF Finish, Goto, TypeInv, TypeOK
  <2>2. Items(t)' = Items(t)
    BY <1>1, <2>1, BodyKept
  <2>3. \A p \in Product : Visible(t, p)' = Visible(t, p)
    BY <1>2, <1>3 DEF Finish, Visible
  <2>4. \A p \in Product : Booked(Visible(t, p).movements, t)'
                              = Booked(Visible(t, p).movements, t)
    BY <2>3, BookedSame
  <2>5. WritesItems(t)'
    BY <1>1, <2>1, <2>2, <2>4 DEF WritesItems, Posts, Due
  <2>6. sales'[t] = IF IsSale(t) THEN req[t].lines ELSE sales[t]
    BY <1>3 DEF Finish, IsSale, TypeInv, TypeOK
  <2>7. WritesLines(t)'
    BY <1>1, <2>1, <2>2, <2>6 DEF WritesLines, IsSale
  <2> QED
    BY <2>5, <2>7
<1>4. CASE Rollback(t)
  <2>1. req'[t].pc = "failed" /\ req[t].pc # "done" /\ UNCHANGED sales
    BY <1>4 DEF Rollback, Goto, InTransaction, TypeInv, TypeOK
  <2> QED
    BY <2>1 DEF WritesItems, WritesLines
<1> QED
  BY <1>3, <1>4

\* No step of any call leaves a row locked by a call that is not in progress.
LEMMA HeldNext ==
    ASSUME TypeInv, HeldInProgress, [Next]_vars
    PROVE  HeldInProgress'
<1>1. ASSUME NEW t \in Request, Submit(t) \/ CheckOrder(t) \/ ReadProduct(t)
      PROVE  HeldInProgress'
  <2>1. UNCHANGED lock /\ \A u \in Request \ {t} : req'[u] = req[u]
    BY <1>1 DEF Submit, CheckOrder, ReadProduct, Goto, TypeInv, TypeOK
  <2>2. req'[t].pc \in {"check", "read", "write", "finish"}
    <3>1. CASE Submit(t)
      BY <3>1 DEF Submit, FirstStep, TypeInv, TypeOK
    <3>2. CASE CheckOrder(t)
      BY <3>2 DEF CheckOrder, Goto, TypeInv, TypeOK
    <3>3. CASE ReadProduct(t)
      BY <3>3 DEF ReadProduct, TypeInv, TypeOK
    <3> QED
      BY <1>1, <3>1, <3>2, <3>3
  <2> QED
    BY <2>1, <2>2 DEF HeldInProgress, InTransaction, TypeInv, TypeOK
<1>2. ASSUME NEW t \in Request, Increment(t) \/ Decrement(t) \/ Adjust(t)
      PROVE  HeldInProgress'
  <2>1. /\ lock' = [lock EXCEPT ![Cur(t).product] = t]
        /\ \A u \in Request \ {t} : req'[u] = req[u]
        /\ InTransaction(t)'
    BY <1>2, WriteStep DEF InTransaction
  <2> QED
    BY <2>1 DEF HeldInProgress, InTransaction, TypeInv, TypeOK
<1>3. ASSUME NEW t \in Request, Finish(t) \/ Rollback(t) PROVE HeldInProgress'
  <2>1. /\ \A r \in Product : lock'[r] = IF lock[r] = t THEN NoTx ELSE lock[r]
        /\ \A u \in Request \ {t} : req'[u] = req[u]
    BY <1>3, EndStep
  <2> QED
    BY <2>1 DEF HeldInProgress, InTransaction, TypeInv, TypeOK
<1>4. ASSUME UNCHANGED <<lock, req>> PROVE HeldInProgress'
  BY <1>4 DEF HeldInProgress, InTransaction
<1> QED
  BY <1>1, <1>2, <1>3, <1>4
     DEF Next, Step, Refuse, Abort, CreateOrder, UpdatePrices, vars

\* No step of any call lets the books of a call differ from its items.
LEMMA BooksNext ==
    ASSUME TypeInv, TypeInv', PostInv, PriceInv, OrderFollowsGoods, BooksInv, [Next]_vars
    PROVE  BooksInv'
<1>1. HeldInProgress'
  BY HeldNext DEF BooksInv
<1>2. ASSUME NEW u \in Request, req'[u] = req[u], sales'[u] = sales[u],
             \A p \in Product : Booked(Visible(u, p).movements, u)'
                                  = Booked(Visible(u, p).movements, u)
      PROVE  WritesItems(u)' /\ WritesLines(u)'
  BY <1>2, WorkKept DEF BooksInv
<1>3. ASSUME UNCHANGED <<rows, draft, lock, req, sales>> PROVE BooksInv'
  <2>1. \A u \in Request, p \in Product :
            Booked(Visible(u, p).movements, u)' = Booked(Visible(u, p).movements, u)
    BY <1>3 DEF Visible, Booked, By, Chosen, Quantities, Nth, Rank
  <2> QED
    BY <1>1, <1>2, <1>3, <2>1 DEF BooksInv
<1>4. ASSUME NEW t \in Request, Submit(t) \/ CheckOrder(t) \/ ReadProduct(t)
      PROVE  BooksInv'
  <2>1. WritesItems(t)' /\ WritesLines(t)'
    BY <1>4, ReadingKeepsBooks DEF BooksInv, PriceInv
  <2>2. /\ UNCHANGED <<rows, draft, lock, sales>>
        /\ \A u \in Request \ {t} : req'[u] = req[u]
    BY <1>4 DEF Submit, CheckOrder, ReadProduct, Goto, TypeInv, TypeOK
  <2>3. \A u \in Request, p \in Product :
            Booked(Visible(u, p).movements, u)' = Booked(Visible(u, p).movements, u)
    BY <2>2 DEF Visible, Booked, By, Chosen, Quantities, Nth, Rank
  <2> QED
    BY <1>1, <1>2, <2>1, <2>2, <2>3 DEF BooksInv
<1>5. ASSUME NEW t \in Request, Increment(t) \/ Decrement(t) \/ Adjust(t)
      PROVE  BooksInv'
  <2>2. /\ req[t].pc = "write" /\ req'[t].pc \in {"read", "write", "finish"}
        /\ req'[t].input = req[t].input /\ UNCHANGED sales
        /\ \A u \in Request \ {t} : req'[u] = req[u]
    BY <1>5, WriteStep
  <2>3. WritesItems(t)' /\ WritesLines(t)'
    <3>1. CASE Increment(t) \/ Decrement(t)
      BY <3>1, ItemWritten, LineWritten DEF BooksInv
    <3>2. CASE Adjust(t)
      <4>1. req[t].input.op = "adjust"
        BY <3>2 DEF Adjust
      <4> QED
        BY <2>2, <4>1 DEF BooksInv, WritesItems, WritesLines, Posts, IsSale
    <3> QED
      BY <1>5, <3>1, <3>2
  <2>4. \A u \in Request \ {t}, p \in Product :
            Booked(Visible(u, p).movements, u)' = Booked(Visible(u, p).movements, u)
    BY <1>5, OthersSee
  <2> QED
    BY <1>1, <1>2, <2>2, <2>3, <2>4 DEF BooksInv
<1>6. ASSUME NEW t \in Request, InTransaction(t), Finish(t) \/ Rollback(t)
      PROVE  BooksInv'
  <2>1. WritesItems(t)' /\ WritesLines(t)'
    BY <1>6, EndKeepsBooks DEF BooksInv
  <2>2. /\ \A u \in Request \ {t} : req'[u] = req[u]
        /\ \A u \in Request \ {t} : sales'[u] = sales[u]
    BY <1>6, EndStep DEF Finish, Rollback, TypeInv, TypeOK
  <2>3. \A u \in Request \ {t}, p \in Product :
            Booked(Visible(u, p).movements, u)' = Booked(Visible(u, p).movements, u)
    BY <1>6, OthersSee
  <2> QED
    BY <1>1, <1>2, <2>1, <2>2, <2>3 DEF BooksInv
<1>7. ASSUME NEW q \in Product, UpdatePrices(q) PROVE BooksInv'
  <2>1. UNCHANGED <<lock, orders, sales, req>> /\ lock[q] = NoTx
    BY <1>7 DEF UpdatePrices
  <2>2. \A p \in Product : /\ rows'[p].movements = rows[p].movements
                           /\ p # q => draft'[p] = draft[p]
    BY <1>7 DEF UpdatePrices, TypeInv, TypeOK, Row
  <2>3. ASSUME NEW u \in Request, NEW p \in Product
        PROVE  Booked(Visible(u, p).movements, u)' = Booked(Visible(u, p).movements, u)
    <3>1. u # NoTx
      BY InventoryAssumption
    <3>2. Visible(u, p).movements' = Visible(u, p).movements
      <4>1. CASE lock[p] = u
        <5>1. p # q
          BY <2>1, <3>1, <4>1
        <5>2. draft'[p] = draft[p]
          BY <2>2, <5>1
        <5> QED
          BY <2>1, <4>1, <5>2 DEF Visible
      <4>2. CASE lock[p] # u
        BY <2>1, <2>2, <4>2 DEF Visible
      <4> QED
        BY <4>1, <4>2
    <3> QED
      BY <3>2, BookedSame
  <2> QED
    BY <1>1, <1>2, <2>1, <2>3 DEF BooksInv
<1>8. ASSUME NEW t \in Request, Finish(t) \/ Refuse(t) \/ Abort(t)
      PROVE  InTransaction(t) /\ (Finish(t) \/ Rollback(t))
  BY <1>8 DEF Finish, Refuse, Refused, Abort, InTransaction
<1> QED
  BY <1>3, <1>4, <1>5, <1>6, <1>7, <1>8 DEF Next, Step, CreateOrder, vars

\* Nothing is booked, and nothing due, before the first call.
LEMMA BooksInit == Init => BooksInv
<1> SUFFICES ASSUME Init PROVE BooksInv
  OBVIOUS
<1>1. TypeInv /\ PostInv
  BY TypeInit, PostInit
<1>2. ASSUME NEW t \in Request
      PROVE  /\ req[t].pc = "idle" /\ req[t].idx = 1 /\ req[t].lines = <<>>
             /\ sales[t] = <<>> /\ \A p \in Product : Visible(t, p) = rows[p]
  BY InventoryAssumption DEF Init, Visible
<1>3. ASSUME NEW t \in Request, NEW p \in Product
      PROVE  /\ Booked(rows[p].movements, t) = <<>>
             /\ Due(t, p, 0) = <<>>
  BY <1>1, <1>2, NothingBooked, NothingDue, ItemsType DEF TypeInv, PostInv, Due
<1>4. \A t \in Request : WritesItems(t) /\ WritesLines(t)
  BY <1>2, <1>3 DEF WritesItems, WritesLines
<1> QED
  BY <1>4 DEF BooksInv, HeldInProgress, Init

\* The books of a call say the same of what it committed.
LEMMA BooksSay ==
    ASSUME TypeInv, PostInv, BooksInv
    PROVE  AllOrNothing
<1> SUFFICES ASSUME NEW t \in Request
             PROVE  /\ req[t].input.op \notin {"adjust", "cancel"} => \A p \in Product :
                          Quantities(MovementsOf(t, p)) =
                              IF req[t].pc = "done"
                              THEN Quantities(ItemsOn(Items(t), p)) ELSE <<>>
                    /\ Quantities(sales[t]) =
                          IF req[t].pc = "done" /\ req[t].input.op = "sale"
                          THEN Quantities(Items(t)) ELSE <<>>
  BY DEF AllOrNothing
<1>1. PICK items \in Seq(Item) : items = Items(t)
  BY ItemsType DEF TypeInv
<1>2. /\ Len(items) \in Nat /\ DOMAIN items = 1..Len(items)
      /\ req[t].idx \in Nat \ {0} /\ t # NoTx
  BY <1>1, InventoryAssumption DEF TypeInv, TypeOK
<1>3. req[t].pc = "done" /\ Posts(t) => req[t].idx - 1 = Len(items)
  BY <1>1, <1>2 DEF BooksInv, WritesItems
<1>4. ASSUME Posts(t), NEW p \in Product
      PROVE  Quantities(MovementsOf(t, p)) =
                IF req[t].pc = "done" THEN Quantities(ItemsOn(Items(t), p)) ELSE <<>>
  <2>1. CASE req[t].pc # "done"
    BY <2>1, NothingBooked DEF TypeInv, PostInv, Booked, MovementsOf
  <2>2. CASE req[t].pc = "done"
    <3>1. Visible(t, p) = rows[p]
      BY <1>2, <2>2 DEF Visible, BooksInv, HeldInProgress, InTransaction
    <3>2. Booked(rows[p].movements, t) = Due(t, p, Len(items))
      BY <1>3, <1>4, <2>2, <3>1 DEF BooksInv, WritesItems
    <3>3. {i \in On(items, p) : i <= Len(items)} = On(items, p)
      BY <1>2 DEF On
    <3> QED
      BY <1>1, <2>2, <3>2, <3>3 DEF Booked, Due, MovementsOf, ItemsOn
  <2> QED
    BY <2>1, <2>2
<1>5. Quantities(sales[t]) = IF req[t].pc = "done" /\ IsSale(t)
                             THEN Quantities(items) ELSE <<>>
  <2>1. CASE req[t].pc = "done" /\ IsSale(t)
    <3>1. PICK lines : lines = sales[t]
      OBVIOUS
    <3>2. /\ Len(lines) = Len(items)
          /\ \A i \in 1..Len(lines) : lines[i].quantity = items[i].quantity
      BY <1>1, <1>3, <2>1, <3>1 DEF BooksInv, WritesLines, Posts, IsSale
    <3> QED
      BY <2>1, <3>1, <3>2 DEF Quantities
  <2>2. CASE ~(req[t].pc = "done" /\ IsSale(t))
    <3>1. sales[t] = <<>>
      BY <2>2 DEF BooksInv, WritesLines
    <3> QED
      BY <2>2, <3>1 DEF Quantities
  <2> QED
    BY <2>1, <2>2
<1> QED
  BY <1>1, <1>4, <1>5 DEF Posts, IsSale

(* A sale, an exit, an entry or a reception commits a movement for each of its  *)
(* items, in their order, or nothing at all, and a sale is on record exactly     *)
(* when it has: whatever calls run at once, and wherever one of them is refused  *)
(* or cut short (sales.service.ts:33-76, stock.service.ts, schema.prisma).       *)
THEOREM AllOrNothingHolds == Spec => []AllOrNothing
<1> DEFINE Inv == /\ TypeInv /\ PostInv /\ TenantInv /\ PriceInv
                  /\ OwnOrder /\ OrderFollowsGoods /\ BooksInv
<1>1. Init => Inv
  <2>1. Init => TenantInv
    BY DEF Init, TenantInv, ReadAtHome, Reads, LockedAtHome, TenantIsolation
  <2>2. Init => PriceInv
    BY DEF Init, PriceInv, PricesHeld, LinesTrue
  <2>3. Init => OwnOrder /\ OrderFollowsGoods
    BY DEF Init, OwnOrder, OrderFollowsGoods, Receptions
  <2> QED
    BY <2>1, <2>2, <2>3, TypeInit, PostInit, BooksInit
<1>2. Inv /\ [Next]_vars => Inv'
  <2>1. Inv /\ [Next]_vars => TypeInv' /\ PostInv' /\ TenantInv' /\ PriceInv'
    BY TypeNext, PostNext, TenantNext, PriceNext DEF PostInv, TenantInv
  <2>2. Inv /\ [Next]_vars => OwnOrder' /\ OrderFollowsGoods'
    BY OrderNext
  <2>3. Inv /\ [Next]_vars => BooksInv'
    BY <2>1, BooksNext
  <2> QED
    BY <2>1, <2>2, <2>3
<1>3. Inv => AllOrNothing
  BY BooksSay
<1> QED
  BY <1>1, <1>2, <1>3, PTL DEF Spec

=============================================================================
