------------------------------- MODULE MCShop -------------------------------
(***************************************************************************)
(* What an organization works with, checked in one run: its stock, the     *)
(* people who found it and are invited, and the assistant they talk to.    *)
(* The models share no state, so each behaviour plays one scene, in which  *)
(* one of them moves and the others keep their initial state: the state    *)
(* spaces add instead of multiplying.  Assistant plays two scenes: its     *)
(* page and the webhook.                                                   *)
(***************************************************************************)
EXTENDS MCInventory, Assistant, Accounts

CONSTANTS m1, m2, m3, w1, w2, a1, a2, k1, k2

VARIABLE scene

shopVars == <<scene, vars, assistantVars, accountVars>>

MCBatch == <<m1, m2, m3>>

MCRequests == <<t1, t2, t3>>
MCAccountCalls == <<a1, a2>>
MCMutations == <<"chat", "report", "whatsapp">>
MCWorkers == <<w1, w2>>

ShopInit ==
  /\ scene \in {"stock", "accounts", "page", "inbound"}
  /\ Init /\ AccountsInit /\ AssistantInit

(* Only one component moves.                                               *)
OnlyInventory == UNCHANGED <<scene, accountVars, assistantVars>>
OnlyAccounts == UNCHANGED <<scene, vars, assistantVars>>
OnlyAssistant == UNCHANGED <<scene, vars, accountVars>>

(* Organizations are founded in the order of their names, which stand for  *)
(* whatever identifiers the database gives.                                *)
InOrder == k2 \in founded' => k1 \in founded'

(* What the bounds leave nothing to do after: the calls of Meta, and the   *)
(* days, addresses and invitations of the organizations.                   *)
InboundOver ==
  /\ deliveries = MaxDeliveries \/ received
  /\ \A w \in Workers : position[w] = 0
  /\ UNCHANGED shopVars

AccountsOver ==
  /\ today = MaxDay
  /\ \A c \in AccountCalls : Available(c)
  /\ UNCHANGED shopVars

ShopNext ==
  \/ scene = "stock" /\ Next /\ OnlyInventory
  \/ scene = "accounts" /\ (AccountsOver \/ (AccountsNext /\ InOrder /\ OnlyAccounts))
  \/ scene = "page" /\ PageNext /\ OnlyAssistant
  \/ scene = "inbound" /\ (InboundOver \/ (InboundNext /\ OnlyAssistant))

(* What the fairness of each component requires of its i-th process.  A    *)
(* component whose scene is not played has nothing under way: in each      *)
(* behaviour one alternative matters, and weak fairness of their           *)
(* disjunction is that of the component (TLC's search is exponential in    *)
(* the number of fairness formulas).                                       *)
Duty(i) ==
  \/ scene = "stock" /\ Step(MCRequests[i]) /\ OnlyInventory
  \/ /\ scene = "accounts" /\ OnlyAccounts
     /\ i \in DOMAIN MCAccountCalls /\ InvitingSteps(MCAccountCalls[i])
  \/ scene = "page" /\ PageSteps(MCMutations[i]) /\ OnlyAssistant
  \/ /\ scene = "inbound" /\ OnlyAssistant
     /\ i \in DOMAIN MCWorkers /\ InboundSteps(MCWorkers[i])

ShopSpec ==
  /\ ShopInit /\ [][ShopNext]_shopVars
  /\ \A i \in 1..3 :
       /\ WF_shopVars(Duty(i))
       /\ WF_shopVars(scene = "stock" /\ TimeOut(MCRequests[i]) /\ OnlyInventory)

=============================================================================
