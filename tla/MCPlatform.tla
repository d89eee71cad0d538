----------------------------- MODULE MCPlatform -----------------------------
(***************************************************************************)
(* What users reach through the web, checked in one run: their             *)
(* subscription, while the provider loses answers and an administrator     *)
(* acts, the requests of a tab with the API that serves its session, and   *)
(* the routes.  The models share no state, so each behaviour plays one     *)
(* scene, in which one of them moves and the others keep their initial     *)
(* state: the state spaces add instead of multiplying.                     *)
(***************************************************************************)
EXTENDS MCBilling, WebClient, MCRouting

CONSTANTS c1, c2

VARIABLE scene

platformVars == <<scene, vars, webVars, routingVars>>

MCAuthCalls == <<c1, c2>>
MCWorkers == <<w1, w2>>

PlatformInit ==
  /\ scene \in {"billing", "web", "routing"}
  /\ Init /\ WebInit /\ RoutingInit
  /\ scene # "billing" => sub = [o \in Org |-> NoSubscription]

(* Only one component moves.                                               *)
OnlyBilling == UNCHANGED <<scene, webVars, routingVars>>
OnlyWeb == UNCHANGED <<scene, vars, routingVars>>
OnlyRouting == UNCHANGED <<scene, vars, webVars>>

PlatformNext ==
  \/ scene = "billing" /\ Next /\ OnlyBilling
  \/ scene = "web" /\ WebNext /\ OnlyWeb
  \/ scene = "routing" /\ RoutingNext /\ OnlyRouting

(* What the fairness of each component requires of its i-th process.  One  *)
(* scene is played in a behaviour, and in the others the processes are     *)
(* idle: weak fairness of the disjunction is that of the component (TLC's  *)
(* search is exponential in the number of formulas).                       *)
Duty(i) ==
  \/ scene = "billing" /\ Step(MCWorkers[i]) /\ OnlyBilling
  \/ /\ scene = "web" /\ OnlyWeb
     /\ TabSteps(MCAuthCalls[i]) \/ ServerSteps(MCAuthCalls[i])
  \/ /\ scene = "routing" /\ OnlyRouting
     /\ (i = 1 /\ Redirect) \/ (i = 2 /\ LookupSteps)

PlatformSpec ==
  /\ PlatformInit /\ [][PlatformNext]_platformVars
  /\ \A i \in 1..2 : WF_platformVars(Duty(i))
  /\ <>[][\A w \in Worker : ~(scene = "billing" /\ Abort(w))]_vars
  /\ \A x \in Payment : SF_vars(scene = "billing" /\ \E w \in Worker : Poll(w, x))

=============================================================================
