--------------------------- MODULE MCInventory ---------------------------
(* Small instances of Inventory.  Three calls are enough for the hazards: a  *)
(* stale read needs one reader and one writer, a deadlock two sales, a third *)
(* call interleaves with either.                                             *)
EXTENDS Inventory, FiniteSets, TLC

CONSTANTS p1, p2, t1, t2, t3, o1, orgA, orgB

MCOwner == p1 :> orgA @@ p2 :> orgA
MCInitialStock == p1 :> 2 @@ p2 :> 1

It(p, q, c) == [product |-> p, quantity |-> q, unitCost |-> c]
Call(op, org, items) == [op |-> op, org |-> org, items |-> items, order |-> NoOrder]
OnOrder(op, org, o) == [op |-> op, org |-> org, items |-> <<>>, order |-> o]

\* Sales in both lock orders, a count, an entry, an exit, and the calls of an
\* organization that owns none of the products.
StockInput == {
    Call("sale", orgA, <<It(p1, 1, 1), It(p2, 1, 1)>>),
    Call("sale", orgA, <<It(p2, 1, 1), It(p1, 2, 1)>>),
    Call("stockIn", orgA, <<It(p1, 2, 1)>>),
    Call("stockOut", orgA, <<It(p1, 1, 1)>>),
    Call("adjust", orgA, <<It(p1, 1, 1)>>),
    Call("stockIn", orgB, <<It(p1, 1, 1)>>),
    Call("sale", orgB, <<It(p1, 1, 1)>>)}

\* An order that names one product twice, received and cancelled at will, by
\* its organization and by another, which could not have placed it.
OrderedItems ==
    { [org |-> org, items |-> <<It(p1, 1, 2), It(p2, 1, 2), It(p1, 1, 1)>>] :
        org \in {orgA, orgB} }
PurchaseInput == {
    OnOrder("receive", orgA, o1), OnOrder("cancel", orgA, o1),
    OnOrder("receive", orgB, o1),
    Call("adjust", orgA, <<It(p2, 1, 1)>>),
    Call("sale", orgA, <<It(p2, 1, 1), It(p1, 2, 1)>>)}

NoOrders == {}

Symmetry == Permutations(Request)
=============================================================================
