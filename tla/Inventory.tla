---------------------------- MODULE Inventory ----------------------------
(***************************************************************************)
(* The stock of an organization: the NestJS services StockService,         *)
(* SalesService, PurchaseOrdersService and ProductsService, and the         *)
(* PostgreSQL rows they share.                                              *)
(*                                                                          *)
(* A request is one HTTP call.  It runs in a Prisma interactive transaction *)
(* under READ COMMITTED: a plain read sees what is committed plus the       *)
(* transaction's own writes and takes no lock; an UPDATE waits for the row  *)
(* lock, sees the latest committed row and keeps the lock until commit or   *)
(* rollback.  A step of the model is one statement, or several when the row *)
(* lock already held makes the intermediate states invisible.               *)
(***************************************************************************)
EXTENDS Integers, Sequences, Selection

CONSTANTS
    Product,        \* rows of the table "products"
    Org,            \* tenants
    Owner,          \* Owner[p]: Product.organizationId, never updated
    InitialStock,   \* CreateProductDto.initialStock of each product
    Price,          \* purchase and sale prices
    OrderId,        \* ids of purchase orders
    OrderInput,     \* bodies of POST /purchases, with the caller's org
    Request,        \* identities of the other HTTP calls
    Input,          \* what such a call may ask for
    MaxInt,         \* largest value of an INTEGER column (2^31 - 1)
    NoTx,           \* owner of an unlocked row
    NoOrder         \* "order" of a call that names none

Op == {"stockIn", "stockOut", "adjust", "sale", "receive", "cancel"}
Item == [product : Product, quantity : 0..MaxInt, unitCost : Price]
InputType == [op : Op, org : Org, items : Seq(Item),
              order : OrderId \cup {NoOrder}]

ASSUME InventoryAssumption ==
    /\ MaxInt \in Nat
    /\ Owner \in [Product -> Org]
    /\ InitialStock \in [Product -> 0..MaxInt]
    /\ Price # {} /\ Org # {} /\ Input # {}
    /\ NoTx \notin Request
    /\ NoOrder \notin OrderId
    /\ OrderInput \subseteq [org : Org, items : Seq(Item)]
    /\ Input \subseteq InputType
    /\ \A in \in Input : 
          IF in.op \in {"receive", "cancel"} THEN in.order \in OrderId
                                             ELSE in.items # <<>>
    /\ \A in \in OrderInput : in.items # <<>>

VARIABLES
    rows,    \* rows[p]: committed row of product p and its movements
    draft,   \* draft[p]: the row as the transaction that locked it sees it
    lock,    \* lock[p]: the transaction holding p's row lock, or NoTx
    orders,  \* committed purchase orders
    sales,   \* sales[t]: lines of the sale committed by request t
    req      \* req[t]: program counter and local variables of request t

vars == <<rows, draft, lock, orders, sales, req>>

MovementType == {"IN", "OUT", "ADJUSTMENT"}
Movement == [type : MovementType, quantity : Int, previousQuantity : 0..MaxInt,
             newQuantity : 0..MaxInt, by : Request]
Row == [stock : 0..MaxInt, purchasePrice : Price, salePrice : Price,
        movements : Seq(Movement)]
SaleLine == [product : Product, quantity : 0..MaxInt,
             unitPrice : Price, unitCost : Price]
OrderStatus == {"absent", "PENDING", "RECEIVED", "CANCELLED"}
Order == [status : OrderStatus, org : Org, items : Seq(Item)]
PC == {"idle", "check", "read", "write", "finish", "done", "failed"}

-----------------------------------------------------------------------------
(* What a request sees and does to a row                                     *)

InTransaction(t) == req[t].pc \in {"check", "read", "write", "finish"}

\* The items a request works through: the body of the call, or the items of
\* the order it receives (they are never updated once the order exists).
Items(t) == IF req[t].input.op = "receive" THEN orders[req[t].input.order].items
                                           ELSE req[t].input.items
Cur(t) == Items(t)[req[t].idx]

\* Variant: the product is looked up by its id alone.
FoundAnywhere(t) == TRUE

\* findFirst({ id, organizationId }) finds the product.
Found(t) == Owner[Cur(t).product] = req[t].input.org

\* READ COMMITTED: own writes, otherwise the last committed version.
Visible(t, p) == IF lock[p] = t THEN draft[p] ELSE rows[p]

\* An UPDATE of p's row proceeds at once: the row is free or already ours.
CanLock(t, p) == lock[p] \in {NoTx, t}

\* One UPDATE of the stock together with the movement that documents it.
Write(t, p, stock, cost, m) ==
    /\ lock' = [lock EXCEPT ![p] = t]
    /\ draft' = [draft EXCEPT ![p] =
                   [stock |-> stock, purchasePrice |-> cost,
                    salePrice |-> @.salePrice,
                    movements |-> Append(@.movements, m)]]

\* The end of the loop body: next item, or the end of the transaction.
AfterItem(t, first) == IF req[t].idx = Len(Items(t)) THEN "finish" ELSE first

Goto(t, pc) == req' = [req EXCEPT ![t].pc = pc]

-----------------------------------------------------------------------------
(* Variants of the steps below: mistakes the code does not make, kept to      *)
(* show which property each of them breaks                                    *)

\* The quantity shown by a movement is read from uncommitted data.
ReadProductDirty(t) ==
    /\ req[t].pc = "read"
    /\ Found(t)
    /\ req' = [req EXCEPT ![t].pc = "write", ![t].seen = draft[Cur(t).product].stock]
    /\ UNCHANGED <<rows, draft, lock, orders, sales>>

\* The stock is set to "what was read + quantity" instead of incremented.
IncrementFromRead(t) ==
    LET p == Cur(t).product
        new == req[t].seen + Cur(t).quantity
    IN  /\ req[t].pc = "write"
        /\ req[t].input.op \in {"stockIn", "receive"}
        /\ CanLock(t, p)
        /\ new <= MaxInt
        /\ Write(t, p, new, draft[p].purchasePrice,
                 [type |-> "IN", quantity |-> Cur(t).quantity,
                  previousQuantity |-> req[t].seen, newQuantity |-> new, by |-> t])
        /\ req' = [req EXCEPT ![t].pc = AfterItem(t, "read"), ![t].idx = @ + 1]
        /\ UNCHANGED <<rows, orders, sales>>

\* One item of an exit or a sale on row "row", without the "gte" guard.
TakeItem(t, row) ==
    LET p == Cur(t).product
        q == Cur(t).quantity
    IN  /\ req[t].pc = "write"
        /\ req[t].input.op \in {"stockOut", "sale"}
        /\ Found(t)
        /\ CanLock(t, p)
        /\ req' = [req EXCEPT ![t].pc = AfterItem(t, "write"), ![t].idx = @ + 1,
                     ![t].lines = Append(@, [product |-> p, quantity |-> q,
                                             unitPrice |-> row.salePrice,
                                             unitCost |-> row.purchasePrice])]

OutMovement(t, s) == [type |-> "OUT", quantity |-> Cur(t).quantity, by |-> t,
                      previousQuantity |-> s, newQuantity |-> s - Cur(t).quantity]

DecrementUnguarded(t) ==
    LET p == Cur(t).product
        s == draft[p].stock
    IN  /\ TakeItem(t, draft[p])
        /\ Write(t, p, s - Cur(t).quantity, draft[p].purchasePrice, OutMovement(t, s))
        /\ UNCHANGED <<rows, orders, sales>>

\* Each item is committed on its own: no transaction around the loop.
DecrementAutocommit(t) ==
    LET p == Cur(t).product
        s == rows[p].stock
    IN  /\ TakeItem(t, rows[p])
        /\ s >= Cur(t).quantity
        /\ rows' = [rows EXCEPT ![p].stock = s - Cur(t).quantity,
                               ![p].movements = Append(@, OutMovement(t, s))]
        /\ draft' = [draft EXCEPT ![p] = rows'[p]]
        /\ UNCHANGED <<lock, orders, sales>>

\* The transaction commits without writing the order's status.
FinishKeepingStatus(t) ==
    /\ req[t].pc = "finish"
    /\ rows' = [p \in Product |-> Visible(t, p)]
    /\ lock' = [p \in Product |-> IF lock[p] = t THEN NoTx ELSE lock[p]]
    /\ sales' = IF req[t].input.op = "sale" THEN [sales EXCEPT ![t] = req[t].lines]
                                            ELSE sales
    /\ Goto(t, "done")
    /\ UNCHANGED <<draft, orders>>

\* A failing call keeps what it has written so far.
RollbackNothing(t) ==
    /\ rows' = [p \in Product |-> Visible(t, p)]
    /\ lock' = [p \in Product |-> IF lock[p] = t THEN NoTx ELSE lock[p]]
    /\ Goto(t, "failed")
    /\ UNCHANGED <<draft, orders, sales>>

\* Nobody detects that a transaction waits for ever.
NeverBlocked(t) == FALSE

-----------------------------------------------------------------------------
(* The steps of a request                                                    *)

FirstStep(op) == CASE op \in {"receive", "cancel"} -> "check"
                   [] op \in {"stockIn", "adjust"} -> "read"
                   [] OTHER -> "write"

Submit(t) ==
    /\ req[t].pc = "idle"
    /\ \E in \in Input :
          req' = [req EXCEPT ![t].pc = FirstStep(in.op), ![t].input = in]
    /\ UNCHANGED <<rows, draft, lock, orders, sales>>

OrderOpen(t) == LET o == orders[req[t].input.order]
                IN o.org = req[t].input.org /\ o.status = "PENDING"

\* receive and cancel: read the order, without locking it, and test it.
CheckOrder(t) ==
    /\ req[t].pc = "check"
    /\ OrderOpen(t)
    /\ Goto(t, IF req[t].input.op = "receive" THEN "read" ELSE "finish")
    /\ UNCHANGED <<rows, draft, lock, orders, sales>>

\* incrementStockInTransaction and recordAdjustment: the unlocked read of the
\* product whose quantity ends up in previousQuantity.
ReadProduct(t) ==
    /\ req[t].pc = "read"
    /\ Found(t)
    /\ req' = [req EXCEPT ![t].pc = "write",
                          ![t].seen = Visible(t, Cur(t).product).stock]
    /\ UNCHANGED <<rows, draft, lock, orders, sales>>

Increment(t) ==
    LET p == Cur(t).product
        q == Cur(t).quantity
        receive == req[t].input.op = "receive"
    IN  /\ req[t].pc = "write"
        /\ req[t].input.op \in {"stockIn", "receive"}
        /\ CanLock(t, p)
        /\ draft[p].stock + q <= MaxInt
        /\ Write(t, p, draft[p].stock + q,
                 IF receive THEN Cur(t).unitCost ELSE draft[p].purchasePrice,
                 [type |-> "IN", quantity |-> q,
                  previousQuantity |-> req[t].seen,
                  newQuantity |-> draft[p].stock + q, by |-> t])
        /\ req' = [req EXCEPT ![t].pc = AfterItem(t, "read"), ![t].idx = @ + 1]
        /\ UNCHANGED <<rows, orders, sales>>

\* The guarded updateMany, re-evaluated on the locked row, the read back of
\* the row and, for a sale, the line built from that read.
Decrement(t) ==
    LET p == Cur(t).product
        q == Cur(t).quantity
    IN  /\ req[t].pc = "write"
        /\ req[t].input.op \in {"stockOut", "sale"}
        /\ Found(t)
        /\ CanLock(t, p)
        /\ draft[p].stock >= q
        /\ Write(t, p, draft[p].stock - q, draft[p].purchasePrice,
                 [type |-> "OUT", quantity |-> q,
                  previousQuantity |-> draft[p].stock,
                  newQuantity |-> draft[p].stock - q, by |-> t])
        /\ req' = [req EXCEPT ![t].pc = AfterItem(t, "write"), ![t].idx = @ + 1,
                     ![t].lines = Append(@, [product |-> p, quantity |-> q,
                                     unitPrice |-> draft[p].salePrice,
                                     unitCost |-> draft[p].purchasePrice])]
        /\ UNCHANGED <<rows, orders, sales>>

\* recordAdjustment: the stock is set to what was counted; quantity and
\* previousQuantity come from the unlocked read.
Adjust(t) ==
    LET p == Cur(t).product
        q == Cur(t).quantity
    IN  /\ req[t].pc = "write"
        /\ req[t].input.op = "adjust"
        /\ CanLock(t, p)
        /\ Write(t, p, q, draft[p].purchasePrice,
                 [type |-> "ADJUSTMENT", quantity |-> q - req[t].seen,
                  previousQuantity |-> req[t].seen,
                  newQuantity |-> q, by |-> t])
        /\ req' = [req EXCEPT ![t].pc = AfterItem(t, "read"), ![t].idx = @ + 1]
        /\ UNCHANGED <<rows, orders, sales>>

\* The last statement of the transaction and its commit: what is still to be
\* written (the order's status, the sale) and the release of every row lock.
\* The status is written whatever it has become since CheckOrder read it.
FinalStatus == [receive |-> "RECEIVED", cancel |-> "CANCELLED"]

Finish(t) ==
    LET in == req[t].input
    IN  /\ req[t].pc = "finish"
        /\ rows' = [p \in Product |-> Visible(t, p)]
        /\ lock' = [p \in Product |-> IF lock[p] = t THEN NoTx ELSE lock[p]]
        /\ orders' = IF in.op \in {"receive", "cancel"}
                     THEN [orders EXCEPT ![in.order].status = FinalStatus[in.op]]
                     ELSE orders
        /\ sales' = IF in.op = "sale"
                    THEN [sales EXCEPT ![t] = req[t].lines] ELSE sales
        /\ Goto(t, "done")
        /\ UNCHANGED draft

Rollback(t) ==
    /\ draft' = [p \in Product |-> IF lock[p] = t THEN rows[p] ELSE draft[p]]
    /\ lock' = [p \in Product |-> IF lock[p] = t THEN NoTx ELSE lock[p]]
    /\ Goto(t, "failed")
    /\ UNCHANGED <<rows, orders, sales>>

\* The code throws: order not open, product not in the organization,
\* not enough stock, or a stock beyond the INTEGER column.
Refused(t) ==
    \/ req[t].pc = "check" /\ ~OrderOpen(t)
    \/ req[t].pc = "read" /\ ~Found(t)
    \/ /\ req[t].pc = "write"
       /\ req[t].input.op \in {"stockOut", "sale"}
       /\ \/ ~Found(t)
          \/ /\ CanLock(t, Cur(t).product)
             /\ draft[Cur(t).product].stock < Cur(t).quantity
    \/ /\ req[t].pc = "write"
       /\ req[t].input.op \in {"stockIn", "receive"}
       /\ CanLock(t, Cur(t).product)
       /\ draft[Cur(t).product].stock + Cur(t).quantity > MaxInt

Refuse(t) == Refused(t) /\ Rollback(t)

\* A transaction may be cut short at any moment: interactive-transaction
\* timeout, deadlock victim, database error or crash of the API process.
Abort(t) == InTransaction(t) /\ Rollback(t)

\* ... and it is, in the end, when it keeps waiting for a row lock.
Blocked(t) == req[t].pc = "write" /\ ~CanLock(t, Cur(t).product)
TimeOut(t) == Blocked(t) /\ Rollback(t)

-----------------------------------------------------------------------------
(* Single-statement calls                                                    *)

\* POST /purchases: every product is looked up in the organization, then
\* the order and its items are inserted.
CreateOrder(o) ==
    /\ orders[o].status = "absent"
    /\ \E in \in OrderInput :
          /\ \A i \in 1..Len(in.items) : Owner[in.items[i].product] = in.org
          /\ orders' = [orders EXCEPT ![o] = [status |-> "PENDING",
                                              org |-> in.org,
                                              items |-> in.items]]
    /\ UNCHANGED <<rows, draft, lock, sales, req>>

\* PATCH /products/:id: one UPDATE outside any transaction, so it waits for
\* the row lock and commits at once.
UpdatePrices(p) ==
    /\ lock[p] = NoTx
    /\ \E cost, price \in Price :
          LET row == [rows[p] EXCEPT !.purchasePrice = cost, !.salePrice = price]
          IN  /\ rows' = [rows EXCEPT ![p] = row]
              /\ draft' = [draft EXCEPT ![p] = row]
    /\ UNCHANGED <<lock, orders, sales, req>>

-----------------------------------------------------------------------------
Init ==
    /\ \E price \in Price :
          rows = [p \in Product |-> [stock |-> InitialStock[p],
                                     purchasePrice |-> price, salePrice |-> price,
                                     movements |-> <<>>]]
    /\ draft = rows
    /\ lock = [p \in Product |-> NoTx]
    /\ orders = [o \in OrderId |-> [status |-> "absent", items |-> <<>>,
                                    org |-> CHOOSE org \in Org : TRUE]]
    /\ sales = [t \in Request |-> <<>>]
    /\ req = [t \in Request |-> [pc |-> "idle", idx |-> 1, seen |-> 0, lines |-> <<>>,
                                 input |-> CHOOSE in \in Input : TRUE]]

Step(t) == \/ CheckOrder(t) \/ ReadProduct(t)
           \/ Increment(t) \/ Decrement(t) \/ Adjust(t)
           \/ Finish(t) \/ Refuse(t)

Next == \/ \E t \in Request : Submit(t) \/ Step(t) \/ Abort(t)
        \/ \E o \in OrderId : CreateOrder(o)
        \/ \E p \in Product : UpdatePrices(p)

Spec == Init /\ [][Next]_vars

\* A request that can run does, and one that waits for a lock for ever is
\* timed out; nothing makes a client call.
Fairness == \A t \in Request : WF_vars(Step(t)) /\ WF_vars(TimeOut(t))

FairSpec == Spec /\ Fairness

-----------------------------------------------------------------------------
TypeOK ==
    /\ rows \in [Product -> Row]
    /\ draft \in [Product -> Row]
    /\ lock \in [Product -> Request \cup {NoTx}]
    /\ orders \in [OrderId -> Order]
    /\ sales \in [Request -> Seq(SaleLine)]
    /\ req \in [Request -> [pc : PC, input : Input, idx : Nat \ {0},
                            seen : 0..MaxInt, lines : Seq(SaleLine)]]

-----------------------------------------------------------------------------
(* What a row's movements say of its stock                                   *)

\* The stock before the i-th movement of a row of product p.
Before(p, movements, i) == IF i = 1 THEN InitialStock[p]
                                    ELSE movements[i - 1].newQuantity

\* Movement m, made at stock s, is the one its type and quantity announce.
Documents(m, s) ==
    CASE m.type = "IN" -> m.newQuantity = s + m.quantity
      [] m.type = "OUT" -> m.newQuantity = s - m.quantity /\ m.previousQuantity = s
      [] OTHER -> TRUE

Replays(p, row) ==
    /\ \A i \in 1..Len(row.movements) :
          Documents(row.movements[i], Before(p, row.movements, i))
    /\ row.stock = Before(p, row.movements, Len(row.movements) + 1)

(* The committed stock of a product is what its movements replay from its    *)
(* initial stock: no concurrent entry, sale, reception or count is lost, and  *)
(* every sale's movement shows the exact stock it found (stock.service.ts).   *)
LedgerReplays == \A p \in Product : Replays(p, rows[p])

(* The first movement of a product shows its initial stock, although the      *)
(* quantity is read before the row is locked: the stock reports rebuild the   *)
(* quantity "since creation" from it (reports.service.ts:189-193, 272).       *)
FirstMovementShowsInitialStock ==
    \A p \in Product :
        rows[p].movements # <<>> =>
            rows[p].movements[1].previousQuantity = InitialStock[p]

By(movements, t) == {i \in DOMAIN movements : movements[i].by = t}
On(items, p) == {i \in DOMAIN items : items[i].product = p}
MovementsOf(t, p) == Chosen(rows[p].movements, By(rows[p].movements, t))
ItemsOn(items, p) == Chosen(items, On(items, p))
Quantities(s) == [i \in 1..Len(s) |-> s[i].quantity]

(* All or nothing: the movements a sale, an exit, an entry or a reception has  *)
(* committed are exactly its items, in their order, when it succeeded, and     *)
(* there are none when it has not; a sale is on record exactly then.           *)
AllOrNothing ==
    \A t \in Request :
        LET done == req[t].pc = "done"
            op == req[t].input.op
        IN  /\ op \notin {"adjust", "cancel"} => \A p \in Product :
                  Quantities(MovementsOf(t, p)) =
                      IF done THEN Quantities(ItemsOn(Items(t), p)) ELSE <<>>
            /\ Quantities(sales[t]) =
                  IF done /\ op = "sale" THEN Quantities(Items(t)) ELSE <<>>

(* The unit price and cost of a sale's lines are those of the product at the   *)
(* moment the sale is committed, whatever receptions and price changes run     *)
(* meanwhile (sales.service.ts:41-53, schema.prisma:318-321).                  *)
SoldAtCurrentPrices ==
    [][\A t \in Request : sales'[t] # sales[t] =>
          \A i \in 1..Len(sales'[t]) :
              LET line == sales'[t][i]
              IN  /\ line.unitPrice = rows[line.product].salePrice
                  /\ line.unitCost = rows[line.product].purchasePrice]_vars

Receptions(o) == {t \in Request : /\ req[t].input.op = "receive"
                                  /\ req[t].input.order = o
                                  /\ req[t].pc = "done"}

(* An order is RECEIVED only with its goods booked by a reception of its own   *)
(* organization, and one still PENDING has nothing booked                      *)
(* (purchase-orders.service.ts:86-105).                                        *)
OrderFollowsGoods ==
    \A o \in OrderId :
        CASE orders[o].status = "RECEIVED" ->
                \E t \in Receptions(o) : req[t].input.org = orders[o].org
          [] orders[o].status \in {"PENDING", "absent"} -> Receptions(o) = {}
          [] OTHER -> TRUE

(* No call of one organization moves the stock of another's product, whatever  *)
(* product or order it names.                                                  *)
TenantIsolation ==
    \A p \in Product : \A i \in 1..Len(rows[p].movements) :
        req[rows[p].movements[i].by].input.org = Owner[p]

(* Every call ends, even when two sales lock the same products in opposite     *)
(* orders and wait for each other.                                             *)
EveryCallEnds == \A t \in Request : InTransaction(t) ~> ~InTransaction(t)

-----------------------------------------------------------------------------
(* Refinement                                                                *)

Ledger == INSTANCE StockLedger WITH
    stock <- [p \in Product |-> rows[p].stock],
    ledger <- [p \in Product |-> rows[p].movements]

(* The committed rows behave as an append-only ledger on which every           *)
(* successful call posts once and all at once.                                 *)
ImplementsLedger == Ledger!LedgerSpec

-----------------------------------------------------------------------------
(* What the repository says and concurrent calls break                         *)

(* "receive" answers 400 to the second reception of an order                   *)
(* (purchases.e2e-spec.ts:112-115, purchase-orders.service.ts:83).             *)
ReceivedOnce ==
    \A o \in OrderId : \A t, u \in Receptions(o) : t = u

(* A cancelled order has not touched the stock                                 *)
(* (purchases.e2e-spec.ts:118-147, purchase-orders.service.ts:119).            *)
CancelledTouchesNoStock ==
    \A o \in OrderId : orders[o].status = "CANCELLED" => Receptions(o) = {}

(* previousQuantity + quantity = newQuantity on an entry                       *)
(* (stock.service.spec.ts:58-78).                                              *)
EntryAddsUp ==
    \A p \in Product : \A i \in 1..Len(rows[p].movements) :
        LET m == rows[p].movements[i]
        IN  m.type = "IN" => m.previousQuantity + m.quantity = m.newQuantity

=============================================================================
