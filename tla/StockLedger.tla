--------------------------- MODULE StockLedger ---------------------------
(* What the stock services promise, with no transaction, lock or program     *)
(* counter: each product has a stock and a ledger of movements; a successful *)
(* call posts all of its movements at once, behind those already there; the  *)
(* stock is always the result of the last one.                               *)
EXTENDS Integers, Sequences

CONSTANTS Product, Request, InitialStock

VARIABLES stock, ledger

LedgerInit ==
    /\ stock = InitialStock
    /\ ledger = [p \in Product |-> <<>>]

\* The stock once the first i movements of the ledger l of p are posted.
StockAfter(p, l, i) == IF i = 0 THEN InitialStock[p] ELSE l[i].newQuantity

Posted(p, l, i) ==
    CASE l[i].type = "IN" -> l[i].newQuantity = StockAfter(p, l, i - 1) + l[i].quantity
      [] l[i].type = "OUT" -> l[i].newQuantity = StockAfter(p, l, i - 1) - l[i].quantity
      [] OTHER -> TRUE    \* a count replaces whatever the stock was

\* Call t posts its movements: what was posted stays, all that is new is t's,
\* and t had posted nothing before.
Post(t) ==
    \A p \in Product :
        /\ Len(ledger[p]) <= Len(ledger'[p])
        /\ \A i \in 1..Len(ledger[p]) :
              ledger'[p][i] = ledger[p][i] /\ ledger[p][i].by # t
        /\ \A i \in Len(ledger[p])+1 .. Len(ledger'[p]) :
              /\ ledger'[p][i].by = t
              /\ Posted(p, ledger'[p], i)
              /\ ledger'[p][i].newQuantity >= 0
        /\ stock'[p] = StockAfter(p, ledger'[p], Len(ledger'[p]))

LedgerNext == \E t \in Request : Post(t)

LedgerSpec == LedgerInit /\ [][LedgerNext]_<<stock, ledger>>

=============================================================================
