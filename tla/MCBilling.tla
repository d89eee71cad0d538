---------------------------- MODULE MCBilling ----------------------------
(* Small instances of Billing: one organization, whose subscription is the   *)
(* row everything contends for, two payments, and as many workers as the     *)
(* races need.                                                               *)
EXTENDS Billing, TLC

CONSTANTS org, standard, pro, x1, x2, w1, w2, w3

\* "pro" has the larger quota, as in prisma/seed.ts.
MCPeriod == [p \in Plan |-> 1]
MCQuota == [p \in Plan |-> IF p = pro THEN 2 ELSE 1]

Symmetry == Permutations(Payment) \cup Permutations(Worker \ AdminWorker)
=============================================================================
