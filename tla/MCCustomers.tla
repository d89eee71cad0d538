---------------------------- MODULE MCCustomers ----------------------------
(***************************************************************************)
(* Who may do what, checked in one run: the subscriptions, authentication, *)
(* the screens with their guards, the back office and the catalogue with   *)
(* its imports share no state of the models, so each behaviour plays one   *)
(* scene, in which one of them moves and the others keep their initial     *)
(* state: the state spaces add instead of multiplying.  Sessions plays two *)
(* scenes: the calls about login challenges, and those about refresh       *)
(* tokens and links.                                                       *)
(***************************************************************************)
EXTENDS MCBilling, Sessions, Screens, Administration, Catalogue

CONSTANTS s1, s2, f1, f2

VARIABLE scene

customerVars == <<scene, vars, sessionVars, screenVars, administrationVars, catalogueVars>>

\* A file with a blank row, a row refused and a SKU repeated, and another.
MCContent == f1 :> <<s1, Blank, Bad, s1, s2>> @@ f2 :> <<s2>>

\* Every role on one query, and the owner on those that sales invalidate.
MCViewers ==
  [role: Role, standing: {"TRIAL"}, query: {"organization"}]
    \cup [role: {"OWNER"}, standing: {"TRIAL"}, query: {"movements", "purchases"}]

CustomersInit ==
  /\ scene \in {"billing", "challenges", "tokens", "screens", "administration", "catalogue"}
  /\ Init /\ SessionsInit /\ ScreensInit /\ AdministrationInit /\ CatalogueInit
  /\ scene # "billing" => sub = [o \in Org |-> NoSubscription]

OnlyBilling == UNCHANGED <<scene, sessionVars, screenVars, administrationVars, catalogueVars>>
OnlySessions == UNCHANGED <<scene, vars, screenVars, administrationVars, catalogueVars>>
OnlyScreens == UNCHANGED <<scene, vars, sessionVars, administrationVars, catalogueVars>>
OnlyAdministration == UNCHANGED <<scene, vars, sessionVars, screenVars, catalogueVars>>
OnlyCatalogue ==
  UNCHANGED <<scene, vars, sessionVars, screenVars, administrationVars>>

CustomersNext ==
  \/ scene = "billing" /\ Next /\ OnlyBilling
  \/ scene = "challenges" /\ ChallengeNext /\ OnlySessions
  \/ scene = "tokens" /\ TokenNext /\ OnlySessions
  \/ scene = "screens" /\ ScreensNext /\ OnlyScreens
  \/ scene = "administration" /\ AdministrationNext /\ OnlyAdministration
  \/ scene = "catalogue" /\ CatalogueNext /\ OnlyCatalogue

CustomersSpec == CustomersInit /\ [][CustomersNext]_customerVars

=============================================================================
