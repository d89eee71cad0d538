------------------------------- MODULE Routing -------------------------------
(***************************************************************************)
(* Where a user of the web application is sent: ProtectedRoute, HomeRoute  *)
(* and the pages of registration, onboarding, payment and expired          *)
(* subscriptions (apps/web/src/routes, apps/web/src/pages), which decide   *)
(* on the cached organization, and the organization itself                 *)
(* (apps/api/src/modules/organizations).  One tab, whose cache outlives a  *)
(* change of account.                                                      *)
(***************************************************************************)
EXTENDS Naturals, Sequences

CONSTANTS
  Firms,            \* organizations
  Nobody,           \* no account is signed in
  OnboardingSteps   \* the pages of the onboarding, in their order

(* Pages whose failure does not keep the user: TeamStepPage, ProductsStepPage. *)
Skippable == {"products", "team"}

ASSUME RoutingAssumption ==
  /\ Nobody \notin Firms
  /\ OnboardingSteps \in Seq({"company", "activity", "products", "team", "review"})
  /\ Len(OnboardingSteps) > 0
  /\ \A i, j \in DOMAIN OnboardingSteps :
       OnboardingSteps[i] = OnboardingSteps[j] => i = j
  /\ OnboardingSteps[Len(OnboardingSteps)] \notin Skippable

VARIABLES
  place,        \* the route displayed
  account,      \* the organization of the account signed in, or Nobody
  owner,        \* whether that account is its OWNER
  firms,        \* the organizations, as the API stores them
  cachedFirm,   \* the cache entry ['organization', 'me']
  lookup,       \* the request that fills it
  pendingPlan,  \* an offer is kept in sessionStorage
  saving,       \* the request of an onboarding page
  payment,      \* the payment window, or what its closing has yet to do
  owed          \* where a payment was seen whose user is on the way in; observes

routingVars ==
  <<place, account, owner, firms, cachedFirm, lookup, pendingPlan, saving, payment, owed>>

-----------------------------------------------------------------------------
Steps == {OnboardingSteps[i] : i \in DOMAIN OnboardingSteps}
FirstStep == OnboardingSteps[1]

Onboarding == Steps \cup {"welcome"}
Protected == Onboarding \cup {"app"}
Public == {"home", "tarifs", "login", "register", "checkout", "expired"}

(* pathForOnboardingStep: an unknown step is the first one.                *)
PathForOnboardingStep(step) == IF step = "done" THEN FirstStep ELSE step

LastStep(step) == step = OnboardingSteps[Len(OnboardingSteps)]

NextStep(step) ==
  OnboardingSteps[1 + CHOOSE i \in DOMAIN OnboardingSteps : OnboardingSteps[i] = step]

\* Variant: the last page goes on to "done", which has no page.
AfterStepDone(step) == IF LastStep(step) THEN "done" ELSE NextStep(step)

AfterStep(step) == IF LastStep(step) THEN "welcome" ELSE NextStep(step)

(* What the API says of the access of an organization: a suspension hides  *)
(* whether its subscription locks too.                                     *)
Firm ==
  [exists: BOOLEAN, access: {"open", "locked", "suspended"}, completed: BOOLEAN,
   step: Steps \cup {"done"}]

AccessLocked(firm) == firm.access # "open"

NewFirm(awaitsPayment) ==
  [exists |-> TRUE, access |-> IF awaitsPayment THEN "locked" ELSE "open",
   completed |-> FALSE, step |-> FirstStep]

NoFirm == [NewFirm(FALSE) EXCEPT !.exists = FALSE]

NoCache == [got |-> FALSE, firm |-> NoFirm]
NoLookup == [at |-> "none", firm |-> NoFirm]
NotSaving == [at |-> "none", from |-> FirstStep]

SignedIn == account # Nobody

(* The places whose components call useOrganization.                       *)
AsksFirm(p) == p = "expired" \/ (p \in Protected /\ SignedIn)

Looking == lookup.at # "none"

(* A component that is mounted joins the request in flight.                *)
Go(p) ==
  /\ place' = p
  /\ lookup' = IF AsksFirm(p) /\ ~Looking THEN [NoLookup EXCEPT !.at = "sent"] ELSE lookup

(* invalidateQueries(['organization']): the query is fetched again if a    *)
(* component displayed asks it, in place of the request in flight if there *)
(* is data already.                                                        *)
InvalidatedLookup ==
  IF AsksFirm(place) /\ (cachedFirm.got \/ ~Looking)
  THEN [NoLookup EXCEPT !.at = "sent"]
  ELSE lookup

-----------------------------------------------------------------------------
(* ProtectedRoute.                                                         *)
LoadingFirm == ~cachedFirm.got /\ Looking

LockedOut == cachedFirm.got /\ AccessLocked(cachedFirm.firm)

\* Variant: the onboarding pages themselves are not excepted.
MustOnboardAnywhere(p) == cachedFirm.got /\ ~cachedFirm.firm.completed

MustOnboard(p) == cachedFirm.got /\ ~cachedFirm.firm.completed /\ p \notin Onboarding

MustCheckout ==
  cachedFirm.got /\ cachedFirm.firm.completed /\ ~AccessLocked(cachedFirm.firm) /\ pendingPlan

Redirected ==
  CASE place = "home" -> SignedIn
    [] place \in Protected ->
         ~SignedIn \/ (~LoadingFirm /\ (LockedOut \/ MustOnboard(place) \/ MustCheckout))
    [] OTHER -> FALSE

RedirectHome ==
  /\ place = "home" /\ SignedIn
  /\ Go("app")
  /\ UNCHANGED pendingPlan

RedirectProtected ==
  /\ place \in Protected
  /\ \/ /\ ~SignedIn
        /\ Go("login") /\ UNCHANGED pendingPlan
     \/ /\ SignedIn /\ ~LoadingFirm /\ LockedOut
        /\ Go("expired") /\ UNCHANGED pendingPlan
     \/ /\ SignedIn /\ ~LoadingFirm /\ ~LockedOut /\ MustOnboard(place)
        /\ Go(PathForOnboardingStep(cachedFirm.firm.step)) /\ UNCHANGED pendingPlan
     \/ /\ SignedIn /\ ~LoadingFirm /\ ~LockedOut /\ ~MustOnboard(place) /\ MustCheckout
        /\ Go("checkout") /\ pendingPlan' = FALSE

Redirect ==
  /\ RedirectHome \/ RedirectProtected
  /\ UNCHANGED <<account, owner, firms, cachedFirm, saving, payment, owed>>

(* Nothing more will happen without the user.                              *)
Settled == ~Redirected /\ ~(place \in Protected /\ LoadingFirm)

-----------------------------------------------------------------------------
(* The request for the organization.  A payment window that was closed     *)
(* waits for it, or for the one that replaces it.                          *)
Awaited == IF payment = "closing" THEN "leaving" ELSE payment

AnswerLookup ==
  /\ lookup.at = "sent"
  /\ SignedIn
  /\ lookup' = [at |-> "read", firm |-> firms[account]]
  /\ UNCHANGED <<place, account, owner, firms, cachedFirm, pendingPlan, saving, payment, owed>>

ReceiveLookup ==
  /\ lookup.at = "read"
  /\ cachedFirm' = [got |-> TRUE, firm |-> lookup.firm]
  /\ lookup' = NoLookup
  /\ payment' = Awaited
  /\ UNCHANGED <<place, account, owner, firms, pendingPlan, saving, owed>>

FailLookup ==
  /\ Looking
  /\ lookup' = NoLookup
  /\ payment' = Awaited
  /\ owed' = "nowhere"
  /\ UNCHANGED <<place, account, owner, firms, cachedFirm, pendingPlan, saving>>

(* The whole page is loaded again at p: the memory of the tab is lost,     *)
(* not its storage.                                                        *)
LoadPage(p) ==
  /\ place' = p
  /\ cachedFirm' = NoCache
  /\ lookup' = IF AsksFirm(p) THEN [NoLookup EXCEPT !.at = "sent"] ELSE NoLookup
  /\ saving' = NotSaving
  /\ payment' = "none"
  /\ owed' = "nowhere"

Reload ==
  /\ LoadPage(place)
  /\ UNCHANGED <<account, owner, firms, pendingPlan>>

(* handleAuthAndSubscriptionRedirects: a call refused for the              *)
(* subscription, or without a session.  A suspension is refused with       *)
(* another code, on which nothing redirects.                               *)
RedirectExpired ==
  /\ place = "app" /\ Settled /\ SignedIn
  /\ firms[account].access = "locked"
  /\ LoadPage("expired")
  /\ UNCHANGED <<account, owner, firms, pendingPlan>>

RedirectUnauthorized ==
  /\ lookup.at = "sent" /\ ~SignedIn
  /\ LoadPage("login")
  /\ UNCHANGED <<account, owner, firms, pendingPlan>>

-----------------------------------------------------------------------------
(* A payment window goes with its page; once closed, what it has to do is  *)
(* done wherever the user is.                                              *)
Closed == payment \in {"closing", "leaving"}

PageLeft == IF Closed THEN payment ELSE "none"

(* Moves of the user: an address, a link or the history of the browser.    *)
(* Bound: while the navigation that follows a payment is still to come,    *)
(* the user may leave for a place that asks nothing or for one that does,  *)
(* and sends nothing (UserMoves).                                          *)
Walk ==
  /\ \E p \in IF Closed THEN {"home", "app"} ELSE Public \cup {"app"} :
       p # place /\ Go(p)
  /\ payment' = PageLeft
  /\ owed' = "nowhere"
  /\ UNCHANGED <<account, owner, firms, cachedFirm, pendingPlan, saving>>

(* SubscriptionExpiredPage opens the payment of the offer kept, if any.    *)
OpenPendingPlan ==
  /\ place = "expired" /\ pendingPlan /\ payment = "none"
  /\ pendingPlan' = FALSE
  /\ payment' = "open"
  /\ UNCHANGED <<place, account, owner, firms, cachedFirm, lookup, saving, owed>>

(* PricingPlansSection.                                                    *)
ChoosePlan ==
  /\ place \in {"home", "tarifs"}
  /\ \/ SignedIn /\ Go("checkout") /\ UNCHANGED pendingPlan
     \/ ~SignedIn /\ Go("register") /\ pendingPlan' = TRUE
     \/ Go("register") /\ pendingPlan' = FALSE      \* handleChooseFreeTrial
  /\ UNCHANGED <<account, owner, firms, cachedFirm, saving, payment, owed>>

(* RegisterPage: an organization that chose an offer awaits its payment.   *)
RegisterFirm ==
  /\ place = "register" /\ ~SignedIn
  /\ \E f \in Firms :
       /\ ~firms[f].exists
       /\ firms' = [firms EXCEPT ![f] = NewFirm(pendingPlan)]
       /\ account' = f
  /\ owner' = TRUE
  /\ place' = IF pendingPlan THEN "checkout" ELSE FirstStep
  /\ lookup' = IF ~pendingPlan /\ ~Looking THEN [NoLookup EXCEPT !.at = "sent"] ELSE lookup
  /\ pendingPlan' = FALSE
  /\ UNCHANGED <<cachedFirm, saving, payment, owed>>

(* LoginPage, DemoLoginPage and AcceptInvitePage go to the dashboard.      *)
SignInTo(f, owns) ==
  /\ ~SignedIn
  /\ firms[f].exists
  /\ account' = f
  /\ owner' = owns
  /\ place' = "app"
  /\ lookup' = IF Looking THEN lookup ELSE [NoLookup EXCEPT !.at = "sent"]
  /\ UNCHANGED <<firms, cachedFirm, pendingPlan, saving, payment, owed>>

LogIn == place = "login" /\ \E f \in Firms, owns \in BOOLEAN : SignInTo(f, owns)

AcceptInvite == place = "home" /\ \E f \in Firms : SignInTo(f, FALSE)

LogOut ==
  /\ SignedIn /\ Settled
  /\ place \in {"app", "expired"}
  /\ account' = Nobody
  /\ owner' = FALSE
  /\ owed' = "nowhere"
  /\ UNCHANGED <<place, firms, cachedFirm, lookup, pendingPlan, saving, payment>>

-----------------------------------------------------------------------------
(* The onboarding pages.  A failure keeps the user on the pages of the     *)
(* company, of its activity and of the review, not on the two others.      *)
SendStep ==
  /\ place \in Steps
  /\ Settled /\ SignedIn
  /\ saving = NotSaving
  /\ saving' = [at |-> "sent", from |-> place]
  /\ UNCHANGED <<place, account, owner, firms, cachedFirm, lookup, pendingPlan, payment, owed>>

(* OrganizationsService.update and completeOnboarding, for the OWNER.      *)
SaveStep ==
  /\ saving.at = "sent"
  /\ SignedIn /\ owner
  /\ saving' = [saving EXCEPT !.at = "saved"]
  /\ firms' = [firms EXCEPT ![account] =
                 IF LastStep(saving.from)
                 THEN [@ EXCEPT !.step = "done", !.completed = TRUE]
                 ELSE [@ EXCEPT !.step = NextStep(saving.from)]]
  /\ UNCHANGED <<place, account, owner, cachedFirm, lookup, pendingPlan, payment, owed>>

(* Navigation of a page that has saved its step, wherever the user is.     *)
Proceed ==
  /\ place' = AfterStep(saving.from)
  /\ payment' = PageLeft
  /\ owed' = "nowhere"

StepSaved ==
  /\ saving.at = "saved"
  /\ saving' = NotSaving
  /\ Proceed
  /\ lookup' = IF AsksFirm(place) THEN InvalidatedLookup
               ELSE IF SignedIn /\ ~Looking THEN [NoLookup EXCEPT !.at = "sent"] ELSE lookup
  /\ UNCHANGED <<account, owner, firms, cachedFirm, pendingPlan>>

(* The request is refused, fails or loses its answer.                      *)
StepFailed ==
  /\ saving.at # "none"
  /\ saving' = NotSaving
  /\ IF saving.from \in Skippable
     THEN /\ Proceed
          /\ lookup' = IF SignedIn /\ ~Looking THEN [NoLookup EXCEPT !.at = "sent"] ELSE lookup
     ELSE UNCHANGED <<place, lookup, payment, owed>>
  /\ UNCHANGED <<account, owner, firms, cachedFirm, pendingPlan>>

Welcome ==
  /\ place = "welcome" /\ Settled
  /\ Go("app")
  /\ UNCHANGED <<account, owner, firms, cachedFirm, pendingPlan, saving, payment, owed>>

-----------------------------------------------------------------------------
(* Payment, from the checkout or from the page of an expired subscription, *)
(* which shows no offer when it is a suspension.                           *)
OpenPayment ==
  /\ SignedIn
  /\ \/ place = "checkout"
     \/ place = "expired" /\ ~(cachedFirm.got /\ cachedFirm.firm.access = "suspended")
  /\ payment = "none"
  /\ payment' = "open"
  /\ UNCHANGED <<place, account, owner, firms, cachedFirm, lookup, pendingPlan, saving, owed>>

(* The subscription is activated, and a suspension stays.                  *)
PaymentSettles ==
  /\ payment = "open" /\ SignedIn
  /\ payment' = "paid"
  /\ firms' = [firms EXCEPT ![account].access = IF @ = "locked" THEN "open" ELSE @]
  /\ UNCHANGED <<place, account, owner, cachedFirm, lookup, pendingPlan, saving, owed>>

\* Variant: the window is closed without waiting for the organization.
ClosePaymentAtOnce ==
  /\ payment \in {"open", "paid"}
  /\ owed' = IF payment = "paid" /\ cachedFirm.got THEN place ELSE "nowhere"
  /\ payment' = "none"
  /\ place' = "app"
  /\ lookup' = InvalidatedLookup
  /\ UNCHANGED <<account, owner, firms, cachedFirm, pendingPlan, saving>>

(* handlePaymentModalClose: the organization is invalidated and, where it  *)
(* is asked, awaited; the navigation follows.                              *)
ClosePayment ==
  /\ payment \in {"open", "paid"}
  /\ owed' = IF payment = "paid" /\ cachedFirm.got THEN place ELSE "nowhere"
  /\ payment' = IF AsksFirm(place) THEN "closing" ELSE "leaving"
  /\ lookup' = InvalidatedLookup
  /\ UNCHANGED <<place, account, owner, firms, cachedFirm, pendingPlan, saving>>

LeavePayment ==
  /\ payment = "leaving"
  /\ Go("app")
  /\ payment' = "none"
  /\ UNCHANGED <<account, owner, firms, cachedFirm, pendingPlan, saving, owed>>

(* A trial ends, or an administrator suspends.                             *)
LockFirm ==
  /\ \E f \in Firms, access \in {"locked", "suspended"} :
       /\ firms[f].exists
       /\ firms[f].access # access /\ firms[f].access # "suspended"
       /\ firms' = [firms EXCEPT ![f].access = access]
  /\ owed' = "nowhere"
  /\ UNCHANGED <<place, account, owner, cachedFirm, lookup, pendingPlan, saving, payment>>

RoutingInit ==
  /\ place = "home"
  /\ account = Nobody
  /\ owner = FALSE
  /\ firms = [f \in Firms |-> NoFirm]
  /\ cachedFirm = NoCache
  /\ lookup = NoLookup
  /\ pendingPlan = FALSE
  /\ saving = NotSaving
  /\ payment = "none"
  /\ owed = "nowhere"

UserMoves ==
  \/ Walk \/ Reload \/ Welcome \/ ClosePayment
  \/ /\ ~Closed
     /\ \/ OpenPendingPlan \/ ChoosePlan \/ RegisterFirm \/ LogIn \/ AcceptInvite \/ LogOut
        \/ SendStep \/ OpenPayment

LookupSteps == AnswerLookup \/ ReceiveLookup \/ FailLookup

RoutingNext ==
  \/ UserMoves
  \/ Redirect
  \/ LookupSteps
  \/ RedirectExpired \/ RedirectUnauthorized
  \/ SaveStep \/ StepSaved \/ StepFailed
  \/ PaymentSettles \/ LeavePayment
  \/ LockFirm

(* React renders what it has to, and a request ends, if only by failing.   *)
RoutingFairness == WF_routingVars(Redirect) /\ WF_routingVars(LookupSteps)

RoutingSpec == RoutingInit /\ [][RoutingNext]_routingVars /\ RoutingFairness

-----------------------------------------------------------------------------
RoutingTypeOK ==
  /\ place \in Public \cup Protected
  /\ account \in Firms \cup {Nobody}
  /\ owner \in BOOLEAN
  /\ firms \in [Firms -> Firm]
  /\ cachedFirm \in [got: BOOLEAN, firm: Firm]
  /\ lookup \in [at: {"none", "sent", "read"}, firm: Firm]
  /\ pendingPlan \in BOOLEAN
  /\ saving \in [at: {"none", "sent", "saved"}, from: Steps]
  /\ payment \in {"none", "open", "paid", "closing", "leaving"}
  /\ owed \in {"nowhere", "checkout", "expired"}

(* Whoever pays on the page of an expired subscription and closes the      *)
(* window is not sent back to it, unless a suspension remains, access was  *)
(* locked or unlocked in the meantime or the organization could not be     *)
(* loaded (SubscriptionExpiredPage.tsx:41-54).                             *)
PaidCustomerEnters ==
  owed = "expired" /\ place = "expired" /\ payment = "none" => AccessLocked(firms[account])

(* The same of whoever pays on the page of an offer, which waits for the   *)
(* organization to be loaded again before it leaves (CheckoutPage.tsx:     *)
(* 32-35).                                                                 *)
PaidCheckoutEnters ==
  owed = "checkout" /\ place = "expired" /\ payment = "none" => AccessLocked(firms[account])

(* Redirections never chase each other: whatever the cached organization   *)
(* says, a user who waits ends on a page that is displayed                 *)
(* (ProtectedRoute.tsx).                                                   *)
RedirectsSettle == []<><<UserMoves>>_routingVars \/ []<>Settled

=============================================================================
