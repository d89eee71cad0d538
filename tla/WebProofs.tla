------------------------------ MODULE WebProofs ------------------------------
(***************************************************************************)
(* Theorems about what runs in a tab: the routes, the import of a file     *)
(* into the catalogue, the session with the API that serves it, and the    *)
(* screens.                                                                *)
(***************************************************************************)
EXTENDS Routing, Catalogue, WebClient, Screens, SessionsProofs

-----------------------------------------------------------------------------
(* Routing.                                                                *)

\* What follows a page of the onboarding is a page.
LEMMA OnboardingOrder ==
  /\ FirstStep \in Steps
  /\ Steps \subseteq {"company", "activity", "products", "team", "review"}
  /\ \A s \in Steps : (~LastStep(s) => NextStep(s) \in Steps)
                      /\ AfterStep(s) \in Steps \cup {"welcome"}
<1>1. /\ OnboardingSteps \in Seq({"company", "activity", "products", "team", "review"})
      /\ Len(OnboardingSteps) > 0 /\ Len(OnboardingSteps) \in Nat
      /\ DOMAIN OnboardingSteps = 1..Len(OnboardingSteps)
  BY RoutingAssumption
<1>2. FirstStep \in Steps
  BY <1>1 DEF FirstStep, Steps
<1>3. Steps \subseteq {"company", "activity", "products", "team", "review"}
  BY <1>1 DEF Steps
<1>4. ASSUME NEW s \in Steps, ~LastStep(s) PROVE NextStep(s) \in Steps
  <2> DEFINE n == CHOOSE i \in DOMAIN OnboardingSteps : OnboardingSteps[i] = s
  <2>1. \E i \in DOMAIN OnboardingSteps : OnboardingSteps[i] = s
    BY DEF Steps
  <2>2. n \in DOMAIN OnboardingSteps /\ OnboardingSteps[n] = s
    BY <2>1
  <2>3. n # Len(OnboardingSteps)
    BY <1>4, <2>2 DEF LastStep
  <2>4. 1 + n \in DOMAIN OnboardingSteps
    BY <1>1, <2>2, <2>3
  <2> QED
    BY <2>4 DEF NextStep, Steps
<1> QED
  BY <1>2, <1>3, <1>4 DEF AfterStep

Lookup == [at: {"none", "sent", "read"}, firm: Firm]

\* The records that nothing has filled are well typed.
LEMMA EmptyRecords ==
  /\ NoFirm \in Firm /\ NewFirm(TRUE) \in Firm /\ NewFirm(FALSE) \in Firm
  /\ NoLookup \in Lookup /\ [NoLookup EXCEPT !.at = "sent"] \in Lookup
  /\ NoCache \in [got: BOOLEAN, firm: Firm]
  /\ NotSaving \in [at: {"none", "sent", "saved"}, from: Steps]
  /\ NoLookup.at = "none" /\ [NoLookup EXCEPT !.at = "sent"].at = "sent"
<1>1. /\ NewFirm(TRUE) \in Firm /\ NewFirm(FALSE) \in Firm
  BY OnboardingOrder DEF NewFirm, Firm
<1>2. NoFirm \in Firm
  BY OnboardingOrder DEF NoFirm, NewFirm, Firm
<1>3. NotSaving \in [at: {"none", "sent", "saved"}, from: Steps]
  BY OnboardingOrder DEF NotSaving
<1> QED
  BY <1>1, <1>2, <1>3 DEF NoLookup, NoCache, Lookup

\* Going somewhere keeps or sends the request for the organization.
LEMMA GoesTo ==
  ASSUME RoutingTypeOK, NEW p \in Public \cup Protected, Go(p)
  PROVE  place' \in Public \cup Protected /\ place' = p /\ lookup' \in Lookup
  BY EmptyRecords DEF Go, RoutingTypeOK, Lookup

(* A payment window is open over the page of an offer, or of an expired    *)
(* subscription.                                                           *)
AtTheTill == payment \in {"open", "paid"} => place \in {"checkout", "expired"}

(* What is still known of a user who has paid on the page of an expired    *)
(* subscription: nobody signs in in the meantime; while the window waits,  *)
(* no answer older than the payment is under way; and once it lets the     *)
(* user go, neither the cache nor an answer says locked of an organization *)
(* that is not.                                                            *)
CacheFollows ==
  /\ ~AccessLocked(cachedFirm.firm)
  /\ lookup.at = "read" => ~AccessLocked(lookup.firm)

EntersOnceTold ==
  LET locked == AccessLocked(firms[account]) IN
  owed = "expired" =>
    /\ SignedIn \/ (payment = "closing" /\ lookup.at = "sent")
    /\ Closed => place = "expired"
    /\ payment = "closing" =>
         \/ locked
         \/ lookup.at = "sent"
         \/ lookup.at = "read" /\ ~AccessLocked(lookup.firm)
    /\ payment = "leaving" => locked \/ CacheFollows
    /\ payment = "none" => locked \/ (place # "expired" /\ CacheFollows)

RoutingInv == RoutingTypeOK /\ AtTheTill /\ EntersOnceTold

LEMMA RoutingTypeNext == RoutingTypeOK /\ AtTheTill /\ [RoutingNext]_routingVars => RoutingTypeOK'
<1> SUFFICES ASSUME RoutingTypeOK, AtTheTill, [RoutingNext]_routingVars PROVE RoutingTypeOK'
  OBVIOUS
<1> USE RoutingAssumption
<1>0. /\ Protected = Steps \cup {"welcome", "app"}
      /\ FirstStep \in Steps
      /\ InvalidatedLookup \in Lookup
      /\ [NoLookup EXCEPT !.at = "sent"] \in Lookup /\ NoLookup \in Lookup
  BY OnboardingOrder, EmptyRecords DEF Protected, Onboarding, InvalidatedLookup, RoutingTypeOK,
     Lookup
<1>1. ASSUME Redirect PROVE RoutingTypeOK'
  <2>1. PICK p \in Public \cup Protected : Go(p)
    BY <1>0, <1>1 DEF Redirect, RedirectHome, RedirectProtected, Public, PathForOnboardingStep,
       RoutingTypeOK, Firm
  <2>2. pendingPlan' \in BOOLEAN
    BY <1>1 DEF Redirect, RedirectHome, RedirectProtected, RoutingTypeOK
  <2> QED
    BY <1>1, <2>1, <2>2, GoesTo DEF Redirect, RoutingTypeOK, Lookup
<1>2. ASSUME AnswerLookup \/ ReceiveLookup \/ FailLookup PROVE RoutingTypeOK'
  <2>1. CASE AnswerLookup
    BY <2>1 DEF AnswerLookup, RoutingTypeOK, SignedIn
  <2>2. CASE ReceiveLookup
    BY <1>0, <2>2 DEF ReceiveLookup, Awaited, RoutingTypeOK, Lookup
  <2>3. CASE FailLookup
    BY <1>0, <2>3 DEF FailLookup, Awaited, RoutingTypeOK, Lookup
  <2> QED
    BY <1>2, <2>1, <2>2, <2>3
<1>3. ASSUME Reload \/ RedirectExpired \/ RedirectUnauthorized PROVE RoutingTypeOK'
  <2>1. PICK p \in Public \cup Protected : LoadPage(p)
    BY <1>3 DEF Reload, RedirectExpired, RedirectUnauthorized, Public, RoutingTypeOK
  <2>2. UNCHANGED <<account, owner, firms, pendingPlan>>
    BY <1>3 DEF Reload, RedirectExpired, RedirectUnauthorized
  <2>3. lookup' \in Lookup
    BY <1>0, <2>1 DEF LoadPage
  <2> QED
    BY <2>1, <2>2, <2>3, EmptyRecords DEF LoadPage, RoutingTypeOK, Lookup
<1>4. ASSUME Walk PROVE RoutingTypeOK'
  <2>1. PICK p \in Public \cup Protected : Go(p)
    BY <1>0, <1>4 DEF Walk, Public
  <2> QED
    BY <1>4, <2>1, GoesTo DEF Walk, PageLeft, RoutingTypeOK, Lookup
<1>5. ASSUME OpenPendingPlan \/ OpenPayment \/ LogOut \/ SendStep \/ LockFirm
      PROVE  RoutingTypeOK'
  <2>1. CASE OpenPendingPlan
    BY <2>1 DEF OpenPendingPlan, RoutingTypeOK
  <2>2. CASE OpenPayment
    BY <2>2 DEF OpenPayment, RoutingTypeOK
  <2>3. CASE LogOut
    BY <2>3 DEF LogOut, RoutingTypeOK
  <2>4. CASE SendStep
    BY <2>4 DEF SendStep, RoutingTypeOK
  <2>5. CASE LockFirm
    <3>1. PICK f \in Firms, access \in {"locked", "suspended"} :
             firms' = [firms EXCEPT ![f].access = access]
      BY <2>5 DEF LockFirm
    <3>2. [firms[f] EXCEPT !.access = access] \in Firm
      BY DEF RoutingTypeOK, Firm
    <3> QED
      BY <2>5, <3>1, <3>2 DEF LockFirm, RoutingTypeOK
  <2> QED
    BY <1>5, <2>1, <2>2, <2>3, <2>4, <2>5
<1>6. ASSUME ChoosePlan PROVE RoutingTypeOK'
  <2>1. PICK p \in Public \cup Protected : Go(p)
    BY <1>6 DEF ChoosePlan, Public
  <2>2. pendingPlan' \in BOOLEAN
    BY <1>6 DEF ChoosePlan, RoutingTypeOK
  <2> QED
    BY <1>6, <2>1, <2>2, GoesTo DEF ChoosePlan, RoutingTypeOK, Lookup
<1>7. ASSUME RegisterFirm PROVE RoutingTypeOK'
  <2>1. PICK f \in Firms : firms' = [firms EXCEPT ![f] = NewFirm(pendingPlan)] /\ account' = f
    BY <1>7 DEF RegisterFirm
  <2>2. firms' \in [Firms -> Firm]
    BY <2>1, EmptyRecords DEF RoutingTypeOK
  <2>3. lookup' \in Lookup
    BY <1>0, <1>7 DEF RegisterFirm, RoutingTypeOK, Lookup
  <2>4. place' \in Public \cup Protected
    BY <1>0, <1>7 DEF RegisterFirm, Public
  <2> QED
    BY <1>7, <2>1, <2>2, <2>3, <2>4 DEF RegisterFirm, RoutingTypeOK, Lookup
<1>8. ASSUME LogIn \/ AcceptInvite PROVE RoutingTypeOK'
  <2>1. PICK f \in Firms, owns \in BOOLEAN : SignInTo(f, owns)
    BY <1>8 DEF LogIn, AcceptInvite
  <2>2. lookup' \in Lookup
    BY <1>0, <2>1 DEF SignInTo, RoutingTypeOK, Lookup
  <2> QED
    BY <1>0, <2>1, <2>2 DEF SignInTo, RoutingTypeOK, Lookup
<1>9. ASSUME SaveStep PROVE RoutingTypeOK'
  <2>1. saving' \in [at: {"none", "sent", "saved"}, from: Steps]
    BY <1>9 DEF SaveStep, RoutingTypeOK
  <2>2. account \in Firms /\ saving.from \in Steps
    BY <1>9 DEF SaveStep, RoutingTypeOK, SignedIn
  <2>3. firms \in [Firms -> Firm] /\ firms[account] \in Firm
    BY <2>2 DEF RoutingTypeOK
  <2>4. firms' \in [Firms -> Firm]
    <3>1. CASE LastStep(saving.from)
      <4>1. firms' = [firms EXCEPT ![account] =
                        [firms[account] EXCEPT !.step = "done", !.completed = TRUE]]
        BY <1>9, <3>1 DEF SaveStep
      <4> QED
        BY <2>2, <2>3, <4>1 DEF RoutingTypeOK, Firm
    <3>2. CASE ~LastStep(saving.from)
      <4>1. firms' = [firms EXCEPT ![account] =
                        [firms[account] EXCEPT !.step = NextStep(saving.from)]]
        BY <1>9, <3>2 DEF SaveStep
      <4>2. NextStep(saving.from) \in Steps
        BY <2>2, <3>2, OnboardingOrder
      <4> QED
        BY <2>2, <2>3, <4>1, <4>2 DEF RoutingTypeOK, Firm
    <3> QED
      BY <3>1, <3>2
  <2> QED
    BY <1>9, <2>1, <2>4 DEF SaveStep, RoutingTypeOK
<1>10. ASSUME StepSaved \/ StepFailed PROVE RoutingTypeOK'
  <2>1. saving.from \in Steps
    BY DEF RoutingTypeOK
  <2>2. Proceed => place' \in Public \cup Protected
    BY <1>0, <2>1, OnboardingOrder DEF Proceed
  <2>3. lookup' \in Lookup
    BY <1>0, <1>10 DEF StepSaved, StepFailed, RoutingTypeOK, Lookup
  <2> QED
    BY <1>10, <2>2, <2>3, EmptyRecords DEF StepSaved, StepFailed, Proceed, PageLeft, RoutingTypeOK,
       Lookup
<1>11. ASSUME Welcome \/ LeavePayment PROVE RoutingTypeOK'
  <2>1. Go("app") /\ "app" \in Public \cup Protected
    BY <1>0, <1>11 DEF Welcome, LeavePayment
  <2> QED
    BY <1>11, <2>1, GoesTo DEF Welcome, LeavePayment, RoutingTypeOK, Lookup
<1>12. ASSUME PaymentSettles PROVE RoutingTypeOK'
  <2>1. PICK access \in {"open", "suspended"} : firms' = [firms EXCEPT ![account].access = access]
    <3>1. account \in Firms /\ firms[account] \in Firm
      BY <1>12 DEF PaymentSettles, RoutingTypeOK, SignedIn
    <3>2. CASE firms[account].access = "locked"
      BY <1>12, <3>2 DEF PaymentSettles
    <3>3. CASE firms[account].access # "locked"
      BY <1>12, <3>1, <3>3 DEF PaymentSettles, Firm
    <3> QED
      BY <3>2, <3>3
  <2>2. account \in Firms /\ [firms[account] EXCEPT !.access = access] \in Firm
    BY <1>12 DEF PaymentSettles, RoutingTypeOK, SignedIn, Firm
  <2> QED
    BY <1>12, <2>1, <2>2 DEF PaymentSettles, RoutingTypeOK
<1>13. ASSUME ClosePayment PROVE RoutingTypeOK'
  BY <1>0, <1>13 DEF ClosePayment, RoutingTypeOK, AtTheTill, Lookup
<1>14. ASSUME UNCHANGED routingVars PROVE RoutingTypeOK'
  BY <1>14 DEF routingVars, RoutingTypeOK
<1> QED
  BY <1>1, <1>2, <1>3, <1>4, <1>5, <1>6, <1>7, <1>8, <1>9, <1>10, <1>11, <1>12, <1>13, <1>14
     DEF RoutingNext, UserMoves, LookupSteps

\* Whoever leaves the page where the window is open closes it.
LEMMA TillNext ==
  ASSUME RoutingTypeOK, AtTheTill, [RoutingNext]_routingVars
  PROVE  AtTheTill'
<1>0. "welcome" \notin {"checkout", "expired"} /\ Protected \cap {"checkout", "expired"} = {}
  BY OnboardingOrder DEF Protected, Onboarding
<1>1. ASSUME place' = place, payment' \in {"open", "paid"} => place \in {"checkout", "expired"}
      PROVE  AtTheTill'
  BY <1>1 DEF AtTheTill
<1>2. ASSUME payment' \notin {"open", "paid"} PROVE AtTheTill'
  BY <1>2 DEF AtTheTill
<1>3. ASSUME place \notin {"checkout", "expired"}, payment' = payment PROVE AtTheTill'
  BY <1>3 DEF AtTheTill
<1>4. ASSUME Redirect PROVE AtTheTill'
  BY <1>0, <1>3, <1>4 DEF Redirect, RedirectHome, RedirectProtected
<1>5. ASSUME Reload \/ RedirectExpired \/ RedirectUnauthorized \/ Walk \/ LeavePayment
             \/ ClosePayment \/ StepSaved
      PROVE  AtTheTill'
  BY <1>2, <1>5 DEF Reload, RedirectExpired, RedirectUnauthorized, LoadPage, Walk, LeavePayment,
     ClosePayment, StepSaved, Proceed, PageLeft, Closed
<1>6. ASSUME ChoosePlan \/ RegisterFirm \/ LogIn \/ AcceptInvite \/ Welcome PROVE AtTheTill'
  BY <1>3, <1>6 DEF ChoosePlan, RegisterFirm, LogIn, AcceptInvite, SignInTo, Welcome
<1>7. ASSUME AnswerLookup \/ ReceiveLookup \/ FailLookup \/ OpenPendingPlan \/ OpenPayment
             \/ PaymentSettles \/ LogOut \/ SendStep \/ SaveStep \/ LockFirm
             \/ UNCHANGED routingVars
      PROVE  AtTheTill'
  BY <1>1, <1>7 DEF AtTheTill, AnswerLookup, ReceiveLookup, FailLookup, Awaited, OpenPendingPlan,
     OpenPayment, PaymentSettles, LogOut, SendStep, SaveStep, LockFirm, routingVars
<1>8. ASSUME StepFailed PROVE AtTheTill'
  BY <1>1, <1>2, <1>8 DEF StepFailed, Proceed, PageLeft, Closed, AtTheTill
<1> QED
  BY <1>4, <1>5, <1>6, <1>7, <1>8 DEF RoutingNext, UserMoves, LookupSteps

\* Steps that forget the user who pays, or leave alone what is known of it.
LEMMA Forgotten ==
  ASSUME owed' # "expired"
  PROVE  EntersOnceTold'
  BY DEF EntersOnceTold

LEMMA EntersNext ==
  ASSUME RoutingTypeOK, AtTheTill, EntersOnceTold, [RoutingNext]_routingVars
  PROVE  EntersOnceTold'
<1> USE RoutingAssumption
<1>1. ASSUME Redirect PROVE EntersOnceTold'
  <2>1. ASSUME owed = "expired"
        PROVE  SignedIn /\ ~Closed /\ place # "expired"
    BY <1>1, <2>1, OnboardingOrder DEF EntersOnceTold, Closed, Redirect, RedirectHome,
       RedirectProtected, Protected, Onboarding
  <2>2. PICK p : Go(p) /\ (p # "expired" \/ (SignedIn /\ LockedOut))
    BY <1>1, OnboardingOrder DEF Redirect, RedirectHome, RedirectProtected, PathForOnboardingStep,
       RoutingTypeOK, Firm
  <2>3. lookup'.at = "read" => lookup' = lookup
    BY <2>2, EmptyRecords DEF Go
  <2> QED
    BY <1>1, <2>1, <2>2, <2>3 DEF Redirect, Go, EntersOnceTold, CacheFollows, Closed, LockedOut,
       SignedIn
<1>2. ASSUME AnswerLookup PROVE EntersOnceTold'
  BY <1>2 DEF AnswerLookup, EntersOnceTold, CacheFollows, Closed, SignedIn
<1>3. ASSUME ReceiveLookup PROVE EntersOnceTold'
  <2>1. lookup'.at = "none" /\ cachedFirm'.firm = lookup.firm
    BY <1>3, EmptyRecords DEF ReceiveLookup
  <2>2. UNCHANGED <<place, account, firms, owed>> /\ lookup.at = "read"
    BY <1>3 DEF ReceiveLookup
  <2>3. /\ payment' # "closing"
        /\ payment' = "leaving" => payment \in {"closing", "leaving"}
        /\ payment' = "none" => payment = "none"
    BY <1>3 DEF ReceiveLookup, Awaited
  <2> QED
    BY <2>1, <2>2, <2>3 DEF EntersOnceTold, CacheFollows, Closed, SignedIn
<1>4. ASSUME FailLookup \/ Walk \/ Reload \/ RedirectExpired \/ RedirectUnauthorized \/ LogOut
             \/ LockFirm \/ StepSaved
      PROVE  EntersOnceTold'
  BY <1>4, Forgotten DEF FailLookup, Walk, Reload, RedirectExpired, RedirectUnauthorized,
     LoadPage, LogOut, LockFirm, StepSaved, Proceed
<1>5. ASSUME OpenPendingPlan \/ OpenPayment PROVE EntersOnceTold'
  BY <1>5 DEF OpenPendingPlan, OpenPayment, EntersOnceTold, Closed, SignedIn
<1>6. ASSUME PaymentSettles PROVE EntersOnceTold'
  BY <1>6 DEF PaymentSettles, EntersOnceTold, Closed, SignedIn
<1>7. ASSUME ChoosePlan, ~Closed PROVE EntersOnceTold'
  <2>1. PICK p \in {"checkout", "register"} : Go(p)
    BY <1>7 DEF ChoosePlan
  <2>2. lookup'.at = "read" => lookup' = lookup
    BY <2>1, EmptyRecords DEF Go
  <2> QED
    BY <1>7, <2>1, <2>2 DEF ChoosePlan, Go, EntersOnceTold, CacheFollows, Closed, SignedIn
<1>8. ASSUME RegisterFirm \/ LogIn \/ AcceptInvite PROVE EntersOnceTold'
  <2>1. ~SignedIn /\ place # "expired" /\ owed' = owed
    BY <1>8 DEF RegisterFirm, LogIn, AcceptInvite, SignInTo
  <2>2. owed # "expired"
    BY <2>1 DEF EntersOnceTold, Closed
  <2> QED
    BY <2>1, <2>2, Forgotten
<1>9. ASSUME SendStep PROVE EntersOnceTold'
  BY <1>9 DEF SendStep, EntersOnceTold, CacheFollows, Closed, SignedIn
<1>10. ASSUME SaveStep PROVE EntersOnceTold'
  <2>1. account \in Firms
    BY <1>10 DEF SaveStep, SignedIn, RoutingTypeOK
  <2>2. firms'[account].access = firms[account].access
    BY <1>10, <2>1 DEF SaveStep, RoutingTypeOK, Firm
  <2>3. UNCHANGED <<place, account, cachedFirm, lookup, payment, owed>>
    BY <1>10 DEF SaveStep
  <2> QED
    BY <2>2, <2>3 DEF EntersOnceTold, CacheFollows, AccessLocked, Closed, SignedIn
<1>11. ASSUME StepFailed PROVE EntersOnceTold'
  <2>1. CASE saving.from \in Skippable
    BY <1>11, <2>1, Forgotten DEF StepFailed, Proceed
  <2>2. CASE saving.from \notin Skippable
    BY <1>11, <2>2 DEF StepFailed, EntersOnceTold, CacheFollows, Closed, SignedIn
  <2> QED
    BY <2>1, <2>2
<1>12. ASSUME Welcome PROVE EntersOnceTold'
  <2>1. lookup'.at = "read" => lookup' = lookup
    BY <1>12, EmptyRecords DEF Welcome, Go
  <2> QED
    BY <1>12, <2>1, OnboardingOrder DEF Welcome, Go, EntersOnceTold, CacheFollows, Closed, SignedIn
<1>13. ASSUME ClosePayment PROVE EntersOnceTold'
  <2>1. owed' = "expired" => place = "expired" /\ cachedFirm.got
    BY <1>13 DEF ClosePayment
  <2>2. owed' = "expired" => lookup'.at = "sent" /\ place' = "expired"
    BY <1>13, <2>1, EmptyRecords DEF ClosePayment, InvalidatedLookup, AsksFirm
  <2> QED
    BY <1>13, <2>1, <2>2 DEF ClosePayment, AsksFirm, EntersOnceTold, Closed
<1>14. ASSUME LeavePayment PROVE EntersOnceTold'
  <2>1. SUFFICES ASSUME owed = "expired" PROVE EntersOnceTold'
    BY <1>14, Forgotten DEF LeavePayment
  <2>2. lookup'.at = "read" => lookup' = lookup
    BY <1>14, EmptyRecords DEF LeavePayment, Go
  <2>3. place' = "app" /\ payment' = "none" /\ UNCHANGED <<account, firms, cachedFirm, owed>>
    BY <1>14 DEF LeavePayment, Go
  <2>4. AccessLocked(firms[account]) \/ CacheFollows
    BY <1>14, <2>1 DEF LeavePayment, EntersOnceTold
  <2>5. SignedIn
    BY <1>14, <2>1 DEF LeavePayment, EntersOnceTold
  <2> QED
    BY <2>2, <2>3, <2>4, <2>5 DEF EntersOnceTold, CacheFollows, Closed, SignedIn
<1>15. ASSUME UNCHANGED routingVars PROVE EntersOnceTold'
  BY <1>15 DEF routingVars, EntersOnceTold, CacheFollows, Closed, SignedIn
<1> QED
  BY <1>1, <1>2, <1>3, <1>4, <1>5, <1>6, <1>7, <1>8, <1>9, <1>10, <1>11, <1>12, <1>13, <1>14, <1>15
     DEF RoutingNext, UserMoves, LookupSteps

LEMMA RoutingInvariant == RoutingSpec => []RoutingInv
<1>1. ASSUME RoutingInit PROVE RoutingInv
  <2>1. RoutingTypeOK
    BY <1>1, EmptyRecords DEF RoutingInit, RoutingTypeOK, Public, Lookup
  <2> QED
    BY <1>1, <2>1 DEF RoutingInit, RoutingInv, AtTheTill, EntersOnceTold
<1>2. RoutingInv /\ [RoutingNext]_routingVars => RoutingInv'
  BY RoutingTypeNext, TillNext, EntersNext DEF RoutingInv
<1> QED
  BY <1>1, <1>2, PTL DEF RoutingSpec

(* Every route, request and window the tab can reach is one of those of    *)
(* the code, for any pages of onboarding and any organizations.            *)
THEOREM RoutingTypeCorrect == RoutingSpec => []RoutingTypeOK
<1>1. RoutingInv => RoutingTypeOK
  BY DEF RoutingInv
<1> QED
  BY <1>1, RoutingInvariant, PTL

(* Whoever pays on the page of an expired subscription is not sent back to *)
(* it by what the cache kept, unless access was locked again or the        *)
(* organization could not be loaded (SubscriptionExpiredPage.tsx:41-54).   *)
THEOREM WhoPaidEnters == RoutingSpec => []PaidCustomerEnters
<1>1. RoutingInv => PaidCustomerEnters
  BY DEF RoutingInv, EntersOnceTold, PaidCustomerEnters
<1> QED
  BY <1>1, RoutingInvariant, PTL

-----------------------------------------------------------------------------
(* Catalogue.                                                              *)

\* The lines of a file are numbers, finitely many, each with its row.
LEMMA FileLines ==
  ASSUME NEW f \in Files
  PROVE  /\ Lines(f) \in SUBSET Nat /\ IsFiniteSet(Lines(f))
         /\ \A l \in Lines(f) : RowAt(f, l) \in Skus \cup {Bad}
         /\ Parsed(f) \subseteq Lines(f)
         /\ \A l \in Parsed(f) : RowAt(f, l) \in Skus
<1> DEFINE kept == {i \in DOMAIN Content[f] : Content[f][i] # Blank}
<1>1. Content[f] \in Seq(Skus \cup {Blank, Bad})
  BY CatalogueAssumption
<1>2. /\ DOMAIN Content[f] = 1..Len(Content[f]) /\ Len(Content[f]) \in Nat
      /\ IsFiniteSet(DOMAIN Content[f])
  BY <1>1, FS_Interval
<1>3. kept \in SUBSET Nat /\ IsFiniteSet(kept) /\ kept \in SUBSET DOMAIN Content[f]
  BY <1>2, FS_Subset
<1>4. /\ Cardinality(kept) \in Nat
      /\ \A k \in 1..Cardinality(kept) : Nth(kept, k) \in kept
  BY <1>3, Ranks
<1>5. \A k \in 1..Cardinality(kept) : Content[f][Nth(kept, k)] \in Skus \cup {Bad}
  <2>1. \A i \in DOMAIN Content[f] : Content[f][i] \in Skus \cup {Blank, Bad}
    BY <1>1
  <2>2. \A i \in kept : Content[f][i] \in Skus \cup {Bad}
    BY <2>1
  <2> QED
    BY <1>4, <2>2
<1>6. /\ DOMAIN Rows(f) = 1..Cardinality(kept)
      /\ \A k \in 1..Cardinality(kept) : Rows(f)[k] = Content[f][Nth(kept, k)]
  BY DEF Rows, Chosen
<1>7. Lines(f) \subseteq 1..(Cardinality(kept) + 1) /\ \A l \in Lines(f) : l - 1 \in DOMAIN Rows(f)
  <2> DEFINE n == Cardinality(kept)
  <2>1. n \in Nat /\ Lines(f) = {i + 1 : i \in 1..n}
    BY <1>4, <1>6 DEF Lines
  <2> HIDE DEF n
  <2>2. Lines(f) \subseteq 1..(n + 1) /\ \A l \in Lines(f) : l - 1 \in 1..n
    BY <2>1
  <2> QED
    BY <1>6, <2>2 DEF n
<1>8. IsFiniteSet(Lines(f))
  <2>1. IsFiniteSet(1..(Cardinality(kept) + 1))
    BY <1>4, FS_Interval
  <2> QED
    BY <1>7, <2>1, FS_Subset
<1>9. \A l \in Lines(f) : RowAt(f, l) \in Skus \cup {Bad}
  BY <1>5, <1>6, <1>7 DEF RowAt
<1> QED
  BY <1>4, <1>7, <1>8, <1>9 DEF Parsed, Valid

(* What an import has not yet done: until it answers it has created        *)
(* nothing, and the rows it has chosen are rows of its file, the others    *)
(* being its errors.                                                       *)
Undecided ==
  \A n \in DOMAIN imports :
    /\ imports[n].at # "answer" => imports[n].count = 0 /\ CreatedBy(n) = {}
    /\ imports[n].at = "insert" =>
         /\ imports[n].chosen \subseteq Parsed(imports[n].file)
         /\ imports[n].errors = Lines(imports[n].file) \ imports[n].chosen

\* Products come from imports that were clicked.
KnownImports == \A p \in DOMAIN products : products[p].from \in 0..Len(imports)

\* A file is previewed once every required field has a column.
PreviewMapped == wizard.step = "preview" => wizard.complete

CatalogueInv ==
  CatalogueTypeOK /\ Undecided /\ KnownImports /\ PreviewMapped /\ NothingUnmapped
    /\ ImportAccounted

\* The products of some lines of a file: one each, which names its line.
LEMMA CreatedRows ==
  ASSUME CatalogueTypeOK, NEW n \in DOMAIN imports, NEW L \in SUBSET Parsed(imports[n].file)
  PROVE  /\ Cardinality(L) \in Nat
         /\ Created(n, L) \in Seq(CatalogueProduct) /\ Len(Created(n, L)) = Cardinality(L)
         /\ \A k \in 1..Cardinality(L) :
              Created(n, L)[k].from = n /\ Created(n, L)[k].line = Nth(L, k)
         /\ L = {Nth(L, k) : k \in 1..Cardinality(L)}
<1> DEFINE f == imports[n].file
           c == Cardinality(L)
<1>1. f \in Files /\ n \in Nat
  <2>1. imports \in Seq(Import)
    BY DEF CatalogueTypeOK
  <2>2. imports[n] \in Import /\ n \in Nat
    BY <2>1
  <2> QED
    BY <2>2 DEF Import
<1>2. L \in SUBSET Lines(f) /\ L \in SUBSET Nat /\ \A l \in L : RowAt(f, l) \in Skus
  BY <1>1, FileLines
<1>3. IsFiniteSet(L)
  BY <1>1, <1>2, FileLines, FS_Subset
<1>4. c \in Nat /\ (\A k \in 1..c : Nth(L, k) \in L) /\ \A l \in L : \E k \in 1..c : Nth(L, k) = l
  BY <1>2, <1>3, Ranks
<1>5. ASSUME NEW k \in 1..c
      PROVE  [sku |-> RowAt(f, Nth(L, k)), from |-> n, line |-> Nth(L, k)] \in CatalogueProduct
  BY <1>1, <1>2, <1>4 DEF CatalogueProduct
<1>6. Created(n, L) \in [1..c -> CatalogueProduct]
  BY <1>5 DEF Created
<1>7. Created(n, L) \in Seq(CatalogueProduct) /\ Len(Created(n, L)) = c
  BY <1>4, <1>6
<1>8. \A k \in 1..c : Created(n, L)[k].from = n /\ Created(n, L)[k].line = Nth(L, k)
  BY DEF Created
<1>9. L = {Nth(L, k) : k \in 1..c}
  BY <1>4
<1> QED
  BY <1>4, <1>7, <1>8, <1>9

\* A successful insertion adds the products of the rows chosen.
LEMMA Inserted ==
  ASSUME CatalogueTypeOK, NEW n \in DOMAIN imports, NEW L \in SUBSET Parsed(imports[n].file),
         products' = products \o Created(n, L)
  PROVE  /\ products' \in Seq(CatalogueProduct)
         /\ DOMAIN products \subseteq DOMAIN products'
         /\ \A p \in DOMAIN products : products'[p] = products[p]
         /\ \A p \in DOMAIN products' \ DOMAIN products :
              products'[p].from = n /\ products'[p].line \in L
         /\ \A l \in L : \E p \in DOMAIN products' \ DOMAIN products : products'[p].line = l
         /\ IsFiniteSet(DOMAIN products' \ DOMAIN products)
         /\ Cardinality(DOMAIN products' \ DOMAIN products) = Cardinality(L)
<1> DEFINE c == Cardinality(L)
           len == Len(products)
<1>1. products \in Seq(CatalogueProduct) /\ len \in Nat /\ DOMAIN products = 1..len
  BY DEF CatalogueTypeOK
<1>2. /\ c \in Nat /\ Created(n, L) \in Seq(CatalogueProduct) /\ Len(Created(n, L)) = c
      /\ \A k \in 1..c : Created(n, L)[k].from = n /\ Created(n, L)[k].line = Nth(L, k)
      /\ L = {Nth(L, k) : k \in 1..c}
  BY CreatedRows
<1>3. /\ products' \in Seq(CatalogueProduct) /\ Len(products') = len + c
      /\ \A p \in 1..(len + c) :
           products'[p] = IF p <= len THEN products[p] ELSE Created(n, L)[p - len]
  BY <1>1, <1>2, ConcatProperties
<1> HIDE DEF c, len
<1>4. DOMAIN products' = 1..(len + c)
  BY <1>3
<1>5. DOMAIN products' \ DOMAIN products = (len + 1)..(len + c)
  <2>1. \A p \in Nat : (p \in 1..(len + c) /\ p \notin 1..len) <=> p \in (len + 1)..(len + c)
    BY <1>1, <1>2
  <2>2. 1..(len + c) \subseteq Nat /\ (len + 1)..(len + c) \subseteq Nat
    BY <1>1, <1>2
  <2> QED
    BY <1>1, <1>4, <2>1, <2>2
<1>6. \A p \in (len + 1)..(len + c) : p - len \in 1..c /\ products'[p] = Created(n, L)[p - len]
  BY <1>1, <1>2, <1>3
<1>7. \A k \in 1..c : k + len \in (len + 1)..(len + c) /\ (k + len) - len = k
  BY <1>1, <1>2
<1>8. /\ IsFiniteSet((len + 1)..(len + c))
      /\ Cardinality((len + 1)..(len + c)) = c
  <2>1. len \in Nat /\ c \in Nat /\ len + 1 \in Int /\ len + c \in Int
    BY <1>1, <1>2
  <2>2. /\ IsFiniteSet((len + 1)..(len + c))
        /\ Cardinality((len + 1)..(len + c))
             = IF len + 1 > len + c THEN 0 ELSE (len + c) - (len + 1) + 1
    BY <2>1, FS_Interval
  <2> QED
    BY <2>1, <2>2
<1>9. \A l \in L : \E p \in (len + 1)..(len + c) : products'[p].line = l
  <2>1. ASSUME NEW l \in L PROVE \E p \in (len + 1)..(len + c) : products'[p].line = l
    <3>1. PICK k \in 1..c : l = Nth(L, k)
      BY <1>2
    <3>2. products'[k + len].line = l
      BY <1>2, <1>6, <1>7, <3>1
    <3> QED
      BY <1>7, <3>2
  <2> QED
    BY <2>1
<1>10. \A p \in DOMAIN products : products'[p] = products[p]
  BY <1>1, <1>2, <1>3
<1>11. \A p \in (len + 1)..(len + c) : products'[p].from = n /\ products'[p].line \in L
  <2>1. \A k \in 1..c : Nth(L, k) \in L
    BY <1>2
  <2>2. ASSUME NEW p \in (len + 1)..(len + c)
        PROVE  products'[p].from = n /\ products'[p].line \in L
    <3>1. p - len \in 1..c /\ products'[p] = Created(n, L)[p - len]
      BY <1>6
    <3>2. /\ Created(n, L)[p - len].from = n
          /\ Created(n, L)[p - len].line = Nth(L, p - len)
      BY <1>2, <3>1
    <3> QED
      BY <2>1, <3>1, <3>2
  <2> QED
    BY <2>2
<1>12. DOMAIN products \subseteq DOMAIN products'
  BY <1>1, <1>2, <1>4
<1> QED
  BY <1>3, <1>5, <1>8, <1>9, <1>10, <1>11, <1>12 DEF c

LEMMA CatalogueTypeNext ==
  ASSUME CatalogueTypeOK, Undecided, [CatalogueNext]_catalogueVars
  PROVE  CatalogueTypeOK'
<1>0. /\ products \in Seq(CatalogueProduct) /\ imports \in Seq(Import)
      /\ \A n \in DOMAIN imports : imports[n] \in Import /\ n \in Nat
      /\ \A p \in DOMAIN products : products[p] \in CatalogueProduct /\ p \in Nat
      /\ wizard \in Wizard /\ shop \in [ShopCalls -> ShopCall]
  <2>1. products \in Seq(CatalogueProduct) /\ imports \in Seq(Import)
    BY DEF CatalogueTypeOK
  <2> QED
    BY <2>1 DEF CatalogueTypeOK
<1>1. ASSUME NEW f \in Files, ChooseFile(f) PROVE CatalogueTypeOK'
  BY <1>1 DEF ChooseFile, CatalogueTypeOK
<1>2. ASSUME NEW f \in Files, FileRead(f) PROVE CatalogueTypeOK'
  <2>1. wizard' \in Wizard
    BY <1>0, <1>2 DEF FileRead, Wizard
  <2> QED
    BY <1>2, <2>1 DEF FileRead, CatalogueTypeOK
<1>3. ASSUME \/ Associate \/ Preview \/ BackToMapping \/ ResetWizard \/ RemountWizard
             \/ \E n \in DOMAIN imports : ImportAnswered(n) \/ LoseImport(n)
      PROVE  CatalogueTypeOK'
  <2>1. wizard' \in Wizard
    <3>1. CASE Associate \/ Preview \/ BackToMapping
      BY <1>0, <3>1 DEF Associate, Preview, BackToMapping, Wizard
    <3>2. CASE ResetWizard \/ RemountWizard
      <4>1. wizard.waiting \in Nat
        BY <1>0 DEF Wizard
      <4>2. FreshWizard \in Wizard /\ [FreshWizard EXCEPT !.waiting = wizard.waiting] \in Wizard
        BY <4>1 DEF FreshWizard, Wizard
      <4> QED
        BY <3>2, <4>2 DEF ResetWizard, RemountWizard
    <3>3. CASE \E n \in DOMAIN imports : ImportAnswered(n) \/ LoseImport(n)
      <4>1. /\ [wizard EXCEPT !.waiting = 0] \in Wizard
            /\ [wizard EXCEPT !.waiting = 0, !.step = "result"] \in Wizard
        BY <1>0 DEF Wizard
      <4> QED
        BY <3>3, <4>1 DEF ImportAnswered, LoseImport
    <3> QED
      BY <1>3, <3>1, <3>2, <3>3
  <2>2. reading' \subseteq Files
    BY <1>3 DEF Associate, Preview, BackToMapping, ResetWizard, RemountWizard,
       ImportAnswered, LoseImport, CatalogueTypeOK
  <2>3. UNCHANGED <<products, imports, shop>>
    BY <1>3 DEF Associate, Preview, BackToMapping, ResetWizard, RemountWizard,
       ImportAnswered, LoseImport
  <2> QED
    BY <2>1, <2>2, <2>3 DEF CatalogueTypeOK
<1>4. ASSUME ClickImport PROVE CatalogueTypeOK'
  <2> DEFINE new == [at |-> "sent", file |-> wizard.parsed, mapped |-> wizard.complete,
                     chosen |-> {}, errors |-> {}, count |-> 0]
  <2>1. new \in Import
    BY <1>0, <1>4 DEF ClickImport, Wizard, Import
  <2>2. imports' \in Seq(Import) /\ Len(imports) \in Nat
    BY <1>0, <1>4, <2>1, Appended DEF ClickImport
  <2>3. wizard' \in Wizard
    BY SMTT(30), <1>0, <1>4, <2>2 DEF ClickImport, Wizard
  <2> QED
    BY <1>4, <2>2, <2>3 DEF ClickImport, CatalogueTypeOK
<1>5. ASSUME NEW n \in DOMAIN imports, ReadExisting(n) PROVE CatalogueTypeOK'
  <2> DEFINE f == imports[n].file
             new == {l \in Parsed(f) : Holder(RowAt(f, l)) = {}}
             next == [imports[n] EXCEPT !.chosen = new, !.errors = Lines(f) \ new,
                                        !.at = IF new = {} THEN "answer" ELSE "insert"]
  <2>0. imports[n] \in Import
    BY <1>0
  <2>1. f \in Files
    BY <2>0 DEF Import
  <2>2. new \in SUBSET Nat /\ Lines(f) \ new \in SUBSET Nat
    BY <2>1, FileLines
  <2> HIDE DEF new
  <2>3. next \in Import
    BY <2>0, <2>2 DEF Import
  <2>4. imports' = [imports EXCEPT ![n] = next]
    BY <1>5 DEF ReadExisting, new
  <2>5. imports' \in Seq(Import)
    BY <1>0, <2>3, <2>4, OneReplaced
  <2> QED
    BY <1>5, <2>5 DEF ReadExisting, CatalogueTypeOK
<1>6. ASSUME NEW n \in DOMAIN imports, InsertRows(n) PROVE CatalogueTypeOK'
  <2>0. imports[n].chosen \in SUBSET Parsed(imports[n].file)
    BY <1>6 DEF InsertRows, Undecided
  <2>1. Cardinality(imports[n].chosen) \in Nat
    BY <2>0, CreatedRows
  <2>2. products' \in Seq(CatalogueProduct)
    BY <1>0, <1>6, <2>0, Inserted DEF InsertRows
  <2>3. PICK new \in Import : imports' = [imports EXCEPT ![n] = new]
    <3>1. /\ [imports[n] EXCEPT !.at = "answer", !.count = Cardinality(imports[n].chosen)] \in Import
          /\ [imports[n] EXCEPT !.at = "answer", !.errors = @ \cup {0}] \in Import
      <4>0. imports[n] \in Import
        BY <1>0
      <4>1. imports[n].errors \in SUBSET Nat
        BY <4>0 DEF Import
      <4>2. imports[n].errors \cup {0} \in SUBSET Nat
        BY <4>1
      <4>3. [imports[n] EXCEPT !.at = "answer", !.errors = imports[n].errors \cup {0}] \in Import
        BY <4>0, <4>2 DEF Import
      <4>4. [imports[n] EXCEPT !.at = "answer", !.count = Cardinality(imports[n].chosen)]
              \in Import
        BY <4>0, <2>1 DEF Import
      <4> QED
        BY <4>3, <4>4
    <3> QED
      BY <1>6, <3>1 DEF InsertRows
  <2>4. imports' \in Seq(Import)
    BY <1>0, <2>3, OneReplaced
  <2> QED
    BY <1>6, <2>2, <2>4 DEF InsertRows, CatalogueTypeOK
<1>7. NoShopCall \in ShopCall
  BY CatalogueAssumption DEF NoShopCall, ShopCall
<1>8. ASSUME NEW c \in ShopCalls, TestSku(c) PROVE CatalogueTypeOK'
  <2>1. shop' \in [ShopCalls -> ShopCall]
    <3>1. PICK s \in Skus, i \in Nat, at \in {"create", "update"} :
            shop' = [shop EXCEPT ![c] = [at |-> at, sku |-> s, id |-> i]]
      BY <1>0, <1>8 DEF TestSku
    <3>2. [at |-> at, sku |-> s, id |-> i] \in ShopCall
      BY DEF ShopCall
    <3> QED
      BY <1>0, <3>1, <3>2
  <2> QED
    BY <1>8, <2>1 DEF TestSku, CatalogueTypeOK
<1>9. ASSUME NEW c \in ShopCalls, CreateProduct(c) PROVE CatalogueTypeOK'
  <2>1. [sku |-> shop[c].sku, from |-> 0, line |-> 0] \in CatalogueProduct
    BY <1>0 DEF ShopCall, CatalogueProduct
  <2>2. products' \in Seq(CatalogueProduct)
    BY <1>0, <1>9, <2>1, Appended DEF CreateProduct
  <2> QED
    BY <1>0, <1>7, <1>9, <2>2 DEF CreateProduct, CatalogueTypeOK
<1>10. ASSUME NEW c \in ShopCalls, UpdateProduct(c) PROVE CatalogueTypeOK'
  <2> DEFINE i == shop[c].id
             new == [products[i] EXCEPT !.sku = shop[c].sku]
  <2>1. i \in DOMAIN products => new \in CatalogueProduct
    BY <1>0 DEF ShopCall, CatalogueProduct
  <2>2. products \in Seq(CatalogueProduct)
    BY <1>0
  <2>3. products' \in Seq(CatalogueProduct)
    <3>1. products' = products \/ products' = [products EXCEPT ![i] = new]
      BY <1>10 DEF UpdateProduct
    <3> HIDE DEF new, i
    <3>2. [products EXCEPT ![i] = new] \in Seq(CatalogueProduct)
      BY <2>1, <2>2, OneReplaced
    <3> QED
      BY <2>2, <3>1, <3>2
  <2> QED
    BY <1>0, <1>7, <1>10, <2>3 DEF UpdateProduct, CatalogueTypeOK
<1>11. ASSUME UNCHANGED catalogueVars PROVE CatalogueTypeOK'
  BY <1>11 DEF catalogueVars, CatalogueTypeOK
<1> QED
  BY <1>1, <1>2, <1>3, <1>4, <1>5, <1>6, <1>8, <1>9, <1>10, <1>11 DEF CatalogueNext, ImportSteps

\* The wizard alone decides what is previewed, and what an import maps.
LEMMA MappedNext ==
  ASSUME CatalogueTypeOK, PreviewMapped, NothingUnmapped, [CatalogueNext]_catalogueVars
  PROVE  PreviewMapped' /\ NothingUnmapped'
<1>0. imports \in Seq(Import) /\ wizard \in Wizard
  BY DEF CatalogueTypeOK
<1>1. ASSUME ClickImport PROVE PreviewMapped' /\ NothingUnmapped'
  <2> DEFINE new == [at |-> "sent", file |-> wizard.parsed, mapped |-> wizard.complete,
                     chosen |-> {}, errors |-> {}, count |-> 0]
  <2>1. wizard.complete
    BY <1>1 DEF ClickImport, PreviewMapped
  <2>2. new \in Import /\ new.mapped
    BY <1>0, <1>1, <2>1 DEF ClickImport, Wizard, Import
  <2> HIDE DEF new
  <2>3. imports' = Append(imports, new) /\ wizard' = [wizard EXCEPT !.waiting = Len(imports) + 1]
    BY <1>1 DEF ClickImport, new
  <2>4. NothingUnmapped'
    BY <1>0, <2>2, <2>3, Appended DEF NothingUnmapped
  <2> QED
    BY <1>0, <2>1, <2>3, <2>4 DEF PreviewMapped, Wizard
<1>2. ASSUME NEW n \in DOMAIN imports, ReadExisting(n) \/ InsertRows(n)
      PROVE  PreviewMapped' /\ NothingUnmapped'
  <2>1. \E new : imports' = [imports EXCEPT ![n] = new] /\ new.mapped = imports[n].mapped
    <3>1. imports[n] \in Import
      BY <1>0
    <3> QED
      BY <1>2, <3>1 DEF ReadExisting, InsertRows, Import
  <2>2. NothingUnmapped'
    BY <2>1 DEF NothingUnmapped
  <2> QED
    BY <1>2, <2>2 DEF ReadExisting, InsertRows, PreviewMapped
<1>3. ASSUME UNCHANGED imports, wizard'.step = "preview" => wizard'.complete
      PROVE  PreviewMapped' /\ NothingUnmapped'
  BY <1>3 DEF PreviewMapped, NothingUnmapped
<1>4. ASSUME UNCHANGED <<imports, wizard>> PROVE PreviewMapped' /\ NothingUnmapped'
  BY <1>4 DEF PreviewMapped, NothingUnmapped
<1>5. ASSUME NEW f \in Files, FileRead(f) PROVE PreviewMapped' /\ NothingUnmapped'
  BY <1>0, <1>3, <1>5 DEF FileRead, Wizard, PreviewMapped
<1>6. ASSUME \/ Associate \/ Preview \/ BackToMapping \/ ResetWizard \/ RemountWizard
             \/ \E n \in DOMAIN imports : ImportAnswered(n) \/ LoseImport(n)
      PROVE  PreviewMapped' /\ NothingUnmapped'
  <2>1. UNCHANGED imports
    BY <1>6 DEF Associate, Preview, BackToMapping, ResetWizard, RemountWizard, ImportAnswered,
       LoseImport
  <2>2. wizard'.step = "preview" => wizard'.complete
    <3>1. CASE Associate \/ Preview \/ BackToMapping
      BY <1>0, <3>1 DEF Associate, Preview, BackToMapping, Wizard
    <3>2. CASE ResetWizard \/ RemountWizard
      BY <3>2 DEF ResetWizard, RemountWizard, FreshWizard
    <3>3. CASE \E n \in DOMAIN imports : ImportAnswered(n) \/ LoseImport(n)
      <4>1. /\ [wizard EXCEPT !.waiting = 0].step = wizard.step
            /\ [wizard EXCEPT !.waiting = 0].complete = wizard.complete
            /\ [wizard EXCEPT !.waiting = 0, !.step = "result"].step = "result"
        BY <1>0 DEF Wizard
      <4> QED
        BY <3>3, <4>1 DEF ImportAnswered, LoseImport, PreviewMapped
    <3> QED
      BY <1>6, <3>1, <3>2, <3>3
  <2> QED
    BY <1>3, <2>1, <2>2
<1>7. ASSUME \/ \E f \in Files : ChooseFile(f)
             \/ \E c \in ShopCalls : TestSku(c) \/ CreateProduct(c) \/ UpdateProduct(c)
             \/ UNCHANGED catalogueVars
      PROVE  PreviewMapped' /\ NothingUnmapped'
  BY <1>4, <1>7 DEF ChooseFile, TestSku, CreateProduct, UpdateProduct, catalogueVars
<1> QED
  BY <1>1, <1>2, <1>5, <1>6, <1>7 DEF CatalogueNext, ImportSteps

\* Steps that create nothing for an import leave what is known of it.
LEMMA SameCreations ==
  ASSUME imports' = imports, Undecided, KnownImports, ImportAccounted,
         \A n \in DOMAIN imports : CreatedBy(n)' = CreatedBy(n),
         \A n \in DOMAIN imports : \A p \in CreatedBy(n) : products'[p].line = products[p].line,
         \A p \in DOMAIN products' : products'[p].from \in 0..Len(imports)
  PROVE  Undecided' /\ KnownImports' /\ ImportAccounted'
<1>1. ASSUME NEW n \in DOMAIN imports
      PROVE  {products[p].line : p \in CreatedBy(n)}' = {products[p].line : p \in CreatedBy(n)}
  BY <1>1
<1>2. \A f : Lines(f)' = Lines(f) /\ Parsed(f)' = Parsed(f)
  BY DEF Lines, Parsed, Rows, Valid, Repeated, RowAt
<1> QED
  BY <1>1, <1>2 DEF Undecided, KnownImports, ImportAccounted

\* So do steps that change one import alone, which then keeps its own.
LEMMA OneImport ==
  ASSUME Undecided, ImportAccounted, NEW n \in DOMAIN imports, NEW new,
         imports' = [imports EXCEPT ![n] = new],
         \A m \in DOMAIN imports \ {n} : CreatedBy(m)' = CreatedBy(m),
         \A m \in DOMAIN imports \ {n} :
           \A p \in CreatedBy(m) : products'[p].line = products[p].line,
         new.at # "answer" => new.count = 0 /\ CreatedBy(n)' = {},
         new.at = "insert" => /\ new.chosen \subseteq Parsed(new.file)
                              /\ new.errors = Lines(new.file) \ new.chosen,
         new.at = "answer" =>
           /\ new.count = Cardinality(CreatedBy(n)')
           /\ \/ 0 \in new.errors /\ CreatedBy(n)' = {}
              \/ Lines(new.file) \ new.errors = {products[p].line : p \in CreatedBy(n)}'
  PROVE  Undecided' /\ ImportAccounted'
<1>1. DOMAIN imports' = DOMAIN imports
  OBVIOUS
<1>2. imports'[n] = new /\ \A m \in DOMAIN imports \ {n} : imports'[m] = imports[m]
  OBVIOUS
<1>3. ASSUME NEW m \in DOMAIN imports \ {n}
      PROVE  {products[p].line : p \in CreatedBy(m)}' = {products[p].line : p \in CreatedBy(m)}
  OBVIOUS
<1>4. Undecided'
  BY <1>1, <1>2 DEF Undecided
<1>5. ImportAccounted'
  BY <1>1, <1>2, <1>3 DEF ImportAccounted
<1> QED
  BY <1>4, <1>5

LEMMA AccountedNext ==
  ASSUME CatalogueTypeOK, Undecided, KnownImports, ImportAccounted,
         [CatalogueNext]_catalogueVars
  PROVE  Undecided' /\ KnownImports' /\ ImportAccounted'
<1> DEFINE Goal == Undecided' /\ KnownImports' /\ ImportAccounted'
<1>0. /\ products \in Seq(CatalogueProduct) /\ imports \in Seq(Import)
      /\ \A n \in DOMAIN imports : imports[n] \in Import /\ n \in 1..Len(imports)
      /\ \A p \in DOMAIN products : products[p] \in CatalogueProduct
      /\ Len(imports) \in Nat
  <2>1. products \in Seq(CatalogueProduct) /\ imports \in Seq(Import)
    BY DEF CatalogueTypeOK
  <2> QED
    BY <2>1
<1>1. ASSUME UNCHANGED <<products, imports>> PROVE Goal
  <2>1. \A n \in DOMAIN imports : CreatedBy(n)' = CreatedBy(n)
    BY <1>1 DEF CreatedBy
  <2> QED
    BY <1>1, <2>1, SameCreations DEF KnownImports
<1>2. ASSUME ClickImport PROVE Goal
  <2> DEFINE n == Len(imports) + 1
             new == [at |-> "sent", file |-> wizard.parsed, mapped |-> wizard.complete,
                     chosen |-> {}, errors |-> {}, count |-> 0]
  <2>1. new \in Import /\ new.at = "sent" /\ new.count = 0
    BY <1>2 DEF ClickImport, CatalogueTypeOK, Wizard, Import
  <2> HIDE DEF new
  <2>2. imports' = Append(imports, new) /\ products' = products
    BY <1>2 DEF ClickImport, new
  <2>3. /\ DOMAIN imports' = DOMAIN imports \cup {n} /\ n \notin DOMAIN imports
        /\ imports'[n] = new /\ \A m \in DOMAIN imports : imports'[m] = imports[m]
        /\ Len(imports') = n
    BY <1>0, <2>1, <2>2, Appended
  <2>4. \A m : CreatedBy(m)' = CreatedBy(m)
    BY <2>2 DEF CreatedBy
  <2>5. CreatedBy(n) = {}
    BY <1>0 DEF CreatedBy, KnownImports
  <2>6. Undecided'
    BY <2>1, <2>3, <2>4, <2>5 DEF Undecided
  <2>7. KnownImports'
    BY <1>0, <2>2, <2>3 DEF KnownImports
  <2>8. \A m : {products[p].line : p \in CreatedBy(m)}' = {products[p].line : p \in CreatedBy(m)}
    BY <2>2, <2>4
  <2>9. ImportAccounted'
    BY <2>1, <2>3, <2>4, <2>8 DEF ImportAccounted
  <2> QED
    BY <2>6, <2>7, <2>9
<1>3. ASSUME NEW n \in DOMAIN imports, ReadExisting(n) PROVE Goal
  <2> DEFINE f == imports[n].file
             chosen == {l \in Parsed(f) : Holder(RowAt(f, l)) = {}}
             new == [imports[n] EXCEPT !.chosen = chosen, !.errors = Lines(f) \ chosen,
                                       !.at = IF chosen = {} THEN "answer" ELSE "insert"]
  <2>1. chosen \subseteq Parsed(f) /\ Parsed(f) \subseteq Lines(f)
    BY DEF Parsed
  <2> HIDE DEF chosen
  <2>2. /\ new.file = f /\ new.chosen = chosen /\ new.errors = Lines(f) \ chosen
        /\ new.at = (IF chosen = {} THEN "answer" ELSE "insert") /\ new.count = imports[n].count
    BY <1>0 DEF Import
  <2>3. /\ imports' = [imports EXCEPT ![n] = new] /\ products' = products
        /\ imports[n].at = "sent"
    BY <1>3 DEF ReadExisting, chosen
  <2>4. imports[n].count = 0 /\ CreatedBy(n) = {}
    BY <2>3 DEF Undecided
  <2>5. \A m : CreatedBy(m)' = CreatedBy(m)
    BY <2>3 DEF CreatedBy
  <2>6. Cardinality(CreatedBy(n)') = 0 /\ {products[p].line : p \in CreatedBy(n)}' = {}
    BY <2>4, <2>5, FS_EmptySet
  <2>7. chosen = {} => Lines(f) \ new.errors = {}
    BY <2>2
  <2> HIDE DEF new
  <2>8. Undecided' /\ ImportAccounted'
    BY <2>1, <2>2, <2>3, <2>4, <2>5, <2>6, <2>7, OneImport
  <2>9. Len(imports') = Len(imports)
    BY <1>0, <2>3
  <2> QED
    BY <2>3, <2>8, <2>9 DEF KnownImports
<1>4. ASSUME NEW n \in DOMAIN imports, InsertRows(n) PROVE Goal
  <2> DEFINE f == imports[n].file
             L == imports[n].chosen
  <2>0. /\ imports[n].at = "insert" /\ L \in SUBSET Parsed(f) /\ Parsed(f) \subseteq Lines(f)
        /\ imports[n].errors = Lines(f) \ L /\ CreatedBy(n) = {} /\ imports[n].count = 0
        /\ n \in Nat /\ n # 0
    BY <1>0, <1>4 DEF InsertRows, Undecided, Parsed
  <2>1. CASE /\ products' = products \o Created(n, L)
             /\ imports' = [imports EXCEPT ![n].at = "answer", ![n].count = Cardinality(L)]
    <3> DEFINE new == [imports[n] EXCEPT !.at = "answer", !.count = Cardinality(L)]
               added == DOMAIN products' \ DOMAIN products
    <3>0. products' = products \o Created(n, L) /\ L \in SUBSET Parsed(imports[n].file)
      BY <2>0, <2>1
    <3> HIDE DEF L, new
    <3>1. /\ products' \in Seq(CatalogueProduct)
          /\ DOMAIN products \subseteq DOMAIN products'
          /\ \A p \in DOMAIN products : products'[p] = products[p]
          /\ \A p \in added : products'[p].from = n /\ products'[p].line \in L
          /\ \A l \in L : \E p \in added : products'[p].line = l
          /\ Cardinality(added) = Cardinality(L)
      BY <3>0, Inserted
    <3> USE DEF L, new
    <3>2. CreatedBy(n)' = added
      BY <2>0, <3>1 DEF CreatedBy
    <3>3. \A m \in DOMAIN imports \ {n} : CreatedBy(m)' = CreatedBy(m)
      BY <3>1 DEF CreatedBy
    <3>4. \A m \in DOMAIN imports \ {n} :
            \A p \in CreatedBy(m) : products'[p].line = products[p].line
      BY <3>1 DEF CreatedBy
    <3>5. /\ new.at = "answer" /\ new.count = Cardinality(CreatedBy(n)')
          /\ new.errors = Lines(f) \ L /\ new.file = f
      BY <1>0, <2>0, <3>1, <3>2 DEF Import
    <3>6. {products[p].line : p \in CreatedBy(n)}' = L
      BY <3>1, <3>2
    <3>7. Lines(f) \ new.errors = {products[p].line : p \in CreatedBy(n)}'
      BY <2>0, <3>5, <3>6
    <3>8. imports' = [imports EXCEPT ![n] = new]
      BY <2>1
    <3> HIDE DEF new, added
    <3>9. Undecided' /\ ImportAccounted'
      BY <3>3, <3>4, <3>5, <3>7, <3>8, OneImport
    <3>10. \A p \in DOMAIN products' : products'[p].from \in 0..Len(imports)
      BY <1>0, <3>1 DEF KnownImports, added
    <3>11. Len(imports') = Len(imports)
      BY <1>0, <3>8
    <3> QED
      BY <3>9, <3>10, <3>11 DEF KnownImports
  <2>2. CASE /\ imports' = [imports EXCEPT ![n].at = "answer", ![n].errors = @ \cup {0}]
             /\ products' = products
    <3> DEFINE new == [imports[n] EXCEPT !.at = "answer", !.errors = imports[n].errors \cup {0}]
    <3>1. new.at = "answer" /\ 0 \in new.errors /\ new.count = 0
      BY <1>0, <2>0 DEF Import
    <3>2. imports' = [imports EXCEPT ![n] = new]
      BY <2>2
    <3> HIDE DEF new
    <3>3. \A m : CreatedBy(m)' = CreatedBy(m)
      BY <2>2 DEF CreatedBy
    <3>4. CreatedBy(n)' = {} /\ Cardinality(CreatedBy(n)') = 0
      BY <2>0, <3>3, FS_EmptySet
    <3>5. Undecided' /\ ImportAccounted'
      BY <2>2, <3>1, <3>2, <3>3, <3>4, OneImport
    <3>6. Len(imports') = Len(imports)
      BY <1>0, <3>2
    <3> QED
      BY <2>2, <3>5, <3>6 DEF KnownImports
  <2> QED
    BY <1>4, <2>1, <2>2 DEF InsertRows
<1>5. ASSUME NEW c \in ShopCalls, CreateProduct(c) PROVE Goal
  <2>1. CASE UNCHANGED products
    BY <1>1, <1>5, <2>1 DEF CreateProduct
  <2>2. CASE products' = Append(products, [sku |-> shop[c].sku, from |-> 0, line |-> 0])
    <3> DEFINE new == [sku |-> shop[c].sku, from |-> 0, line |-> 0]
    <3>1. new \in CatalogueProduct /\ new.from = 0
      BY DEF CatalogueTypeOK, ShopCall, CatalogueProduct
    <3> HIDE DEF new
    <3>2. /\ DOMAIN products' = DOMAIN products \cup {Len(products) + 1}
          /\ Len(products) + 1 \notin DOMAIN products
          /\ products'[Len(products) + 1] = new
          /\ \A p \in DOMAIN products : products'[p] = products[p]
      BY <1>0, <2>2, <3>1, Appended DEF new
    <3>3. \A n \in DOMAIN imports : n # 0
      BY <1>0
    <3>4. \A n \in DOMAIN imports : CreatedBy(n)' = CreatedBy(n)
      BY <3>1, <3>2, <3>3 DEF CreatedBy
    <3>5. \A n \in DOMAIN imports : \A p \in CreatedBy(n) : products'[p].line = products[p].line
      BY <3>2 DEF CreatedBy
    <3>6. \A p \in DOMAIN products' : products'[p].from \in 0..Len(imports)
      BY <1>0, <3>1, <3>2 DEF KnownImports
    <3> QED
      BY <1>5, <3>4, <3>5, <3>6, SameCreations DEF CreateProduct
  <2> QED
    BY <1>5, <2>1, <2>2 DEF CreateProduct
<1>6. ASSUME NEW c \in ShopCalls, UpdateProduct(c) PROVE Goal
  <2>1. /\ DOMAIN products' = DOMAIN products
        /\ \A p \in DOMAIN products : /\ products'[p].from = products[p].from
                                      /\ products'[p].line = products[p].line
    BY <1>0, <1>6 DEF UpdateProduct, CatalogueProduct
  <2>2. \A n \in DOMAIN imports : CreatedBy(n)' = CreatedBy(n)
    BY <2>1 DEF CreatedBy
  <2>3. \A n \in DOMAIN imports : \A p \in CreatedBy(n) : products'[p].line = products[p].line
    BY <2>1 DEF CreatedBy
  <2> QED
    BY <1>6, <2>1, <2>2, <2>3, SameCreations DEF UpdateProduct, KnownImports
<1>7. ASSUME \/ \E f \in Files : ChooseFile(f) \/ FileRead(f)
             \/ Associate \/ Preview \/ BackToMapping \/ ResetWizard \/ RemountWizard
             \/ \E n \in DOMAIN imports : ImportAnswered(n) \/ LoseImport(n)
             \/ \E c \in ShopCalls : TestSku(c)
             \/ UNCHANGED catalogueVars
      PROVE  UNCHANGED <<products, imports>>
  BY <1>7 DEF ChooseFile, FileRead, Associate, Preview, BackToMapping, ResetWizard,
     RemountWizard, ImportAnswered, LoseImport, TestSku, catalogueVars
<1> QED
  BY <1>1, <1>2, <1>3, <1>4, <1>5, <1>6, <1>7 DEF CatalogueNext, ImportSteps

LEMMA CatalogueInvariant == CatalogueSpec => []CatalogueInv
<1>1. ASSUME CatalogueInit PROVE CatalogueInv
  <2>1. NoShopCall \in ShopCall
    BY CatalogueAssumption DEF NoShopCall, ShopCall
  <2>2. products \in Seq(CatalogueProduct) /\ imports \in Seq(Import)
        /\ DOMAIN products = {} /\ DOMAIN imports = {}
    BY <1>1 DEF CatalogueInit
  <2>3. CatalogueTypeOK
    BY <1>1, <2>1, <2>2 DEF CatalogueInit, CatalogueTypeOK, FreshWizard, Wizard
  <2> QED
    BY <1>1, <2>2, <2>3 DEF CatalogueInit, CatalogueInv, Undecided, KnownImports, PreviewMapped,
       FreshWizard, NothingUnmapped, ImportAccounted
<1>2. CatalogueInv /\ [CatalogueNext]_catalogueVars => CatalogueInv'
  BY CatalogueTypeNext, MappedNext, AccountedNext DEF CatalogueInv
<1> QED
  BY <1>1, <1>2, PTL DEF CatalogueSpec

(* The catalogue, the imports, the calls and the wizard are well typed;    *)
(* what an import inserts are rows of its file that bear a SKU.            *)
THEOREM CatalogueTypeCorrect == CatalogueSpec => []CatalogueTypeOK
<1>1. CatalogueInv => CatalogueTypeOK
  BY DEF CatalogueInv
<1> QED
  BY <1>1, CatalogueInvariant, PTL

(* What an import answers accounts for every row of its file, whatever it  *)
(* raced (products-import.service.ts:87-119).                              *)
THEOREM ImportsAreAccounted == CatalogueSpec => []ImportAccounted
<1>1. CatalogueInv => ImportAccounted
  BY DEF CatalogueInv
<1> QED
  BY <1>1, CatalogueInvariant, PTL

(* Nothing is imported while a required field has no column                *)
(* (ImportWizard.tsx:98-124, 289-291).                                     *)
THEOREM NothingIsUnmapped == CatalogueSpec => []NothingUnmapped
<1>1. CatalogueInv => NothingUnmapped
  BY DEF CatalogueInv
<1> QED
  BY <1>1, CatalogueInvariant, PTL

-----------------------------------------------------------------------------
(* WebClient.                                                              *)

\* The request of call c exchanges the token i, or is about to.
Exchanging(c, i) == request[c].at = "refreshing" /\ request[c].refresh = i

Exchanges(c) == request[c].at \in {"asking", "refreshing"}

\* The API has answered c with a token the tab has not read yet.
Unread(c) == Ready(c) /\ request[c].at \in {"opening", "refreshing"} /\ job[c].id # 0

\* The tokens the tab and the calls name exist.
TokensKnown ==
  /\ store.refresh \in 0..Len(refreshTokens)
  /\ \A c \in AuthCalls :
       /\ Exchanges(c) => request[c].refresh \in DOMAIN refreshTokens
       /\ job[c].at = "revoke" \/ Unread(c) => job[c].id \in DOMAIN refreshTokens

(* A token that an answer brings is alive, and nobody else has it: neither *)
(* the store, nor an exchange, nor another answer.                         *)
AnswersFresh ==
  \A c \in AuthCalls : Unread(c) =>
    /\ ~refreshTokens[job[c].id].revoked
    /\ store.refresh # job[c].id
    /\ \A d \in AuthCalls :
         /\ Exchanges(d) => request[d].refresh # job[c].id
         /\ job[d].at = "revoke" \/ (Unread(d) /\ d # c) => job[d].id # job[c].id

(* Whoever is about to revoke the token of the store does it for a request *)
(* the tab waits for, or has forgotten by loading its page again.          *)
RevokedByOwner ==
  store.refresh # 0 =>
    \A d \in AuthCalls :
      job[d].at = "revoke" /\ job[d].id = store.refresh =>
        Exchanging(d, store.refresh) \/ store.refresh \in abandoned

WebInv ==
  SessionsTypeOK /\ WebTypeOK /\ TokensKnown /\ AnswersFresh /\ RevokedByOwner
    /\ StoredTokenLives

TokenPair == [access: Nat, refresh: Nat]

\* A request that is sent, or that ends, is well typed and asks no exchange.
LEMMA RequestsTyped ==
  /\ NoTokens \in TokenPair
  /\ NoRequest \in Request /\ NoRequest.at = "idle"
  /\ \A kind \in {"me", "session", "query"}, left \in 0..QueryRetries,
        retry \in BOOLEAN, access \in Nat :
       /\ Sent(kind, left, retry, access) \in Request
       /\ Sent(kind, left, retry, access).at = "sent"
<1>1. NoRequest \in Request /\ NoRequest.at = "idle"
  BY WebClientAssumption DEF NoRequest, Request
<1>2. ASSUME NEW kind \in {"me", "session", "query"}, NEW left \in 0..QueryRetries,
             NEW retry \in BOOLEAN, NEW access \in Nat
      PROVE  Sent(kind, left, retry, access) \in Request
             /\ Sent(kind, left, retry, access).at = "sent"
  BY <1>1, <1>2 DEF Sent, Request
<1> QED
  BY <1>1, <1>2 DEF NoTokens, TokenPair

ClientTyped ==
  /\ store' \in TokenPair /\ request' \in [AuthCalls -> Request]
  /\ user' \in BOOLEAN /\ loading' \in BOOLEAN /\ abandoned' \subseteq Nat

\* What loading the page leaves: no request that exchanges anything.
LEMMA TabLoaded ==
  ASSUME WebTypeOK, NEW tokens \in TokenPair, LoadTab(tokens)
  PROVE  /\ ClientTyped /\ store' = tokens /\ abandoned \subseteq abandoned'
         /\ \A d \in AuthCalls : request'[d].at \in {"idle", "sent"}
         /\ \A d \in AuthCalls : request[d].refresh # 0 => request[d].refresh \in abandoned'
<1>1. abandoned' \subseteq Nat
  <2>1. abandoned \subseteq Nat /\ \A d \in AuthCalls : request[d].refresh \in Nat
    BY DEF WebTypeOK, Request
  <2> QED
    BY <2>1 DEF LoadTab
<1>2. \A d \in AuthCalls : request[d].refresh # 0 => request[d].refresh \in abandoned'
  BY DEF LoadTab
<1>3. tokens.access \in Nat /\ 0 \in 0..QueryRetries
  BY WebClientAssumption DEF TokenPair
<1>4. /\ request' \in [AuthCalls -> Request]
      /\ \A d \in AuthCalls : request'[d].at \in {"idle", "sent"}
  <2>1. CASE tokens.access = 0
    BY <2>1, RequestsTyped DEF LoadTab
  <2>2. CASE tokens.access # 0
    <3>1. PICK c \in AuthCalls :
            request' = [d \in AuthCalls |->
                          IF d = c THEN Sent("me", 0, TRUE, tokens.access) ELSE NoRequest]
      BY <2>2 DEF LoadTab
    <3>2. /\ Sent("me", 0, TRUE, tokens.access) \in Request /\ NoRequest \in Request
          /\ Sent("me", 0, TRUE, tokens.access).at = "sent" /\ NoRequest.at = "idle"
      BY <1>3, RequestsTyped
    <3> QED
      BY <3>1, <3>2
  <2> QED
    BY <2>1, <2>2
<1> QED
  BY <1>1, <1>2, <1>4 DEF LoadTab, ClientTyped

\* A 401 ends or repeats the request, or loads the page without tokens.
LEMMA ErrorShown ==
  ASSUME WebTypeOK, NEW c \in AuthCalls, NEW tokens \in TokenPair, Unauthorized(c, tokens)
  PROVE  /\ ClientTyped /\ store' \in {tokens, NoTokens} /\ abandoned \subseteq abandoned'
         /\ request'[c].at \in {"idle", "sent"}
         /\ \A d \in AuthCalls : request'[d] = request[d] \/ request'[d].at \in {"idle", "sent"}
         /\ store'.refresh # 0 => \A d \in AuthCalls \ {c} : request'[d] = request[d]
<1>1. request \in [AuthCalls -> Request] /\ store \in TokenPair /\ request[c] \in Request
  BY DEF WebTypeOK, TokenPair
<1>2. /\ user \in BOOLEAN /\ loading \in BOOLEAN /\ abandoned \subseteq Nat
      /\ NoRequest \in Request /\ NoRequest.at = "idle" /\ NoTokens \in TokenPair
      /\ NoTokens.refresh = 0
  BY RequestsTyped DEF WebTypeOK, NoTokens
<1>3. CASE request[c].kind = "me"
  BY <1>1, <1>2, <1>3 DEF Unauthorized, ForgetSession, EndRequest, ClientTyped
<1>4. CASE request[c].kind = "session"
  BY <1>1, <1>2, <1>4 DEF Unauthorized, EndRequest, ClientTyped
<1>5. CASE request[c].kind \notin {"me", "session"} /\ request[c].left > 0
  <2>1. request[c].left - 1 \in 0..QueryRetries /\ tokens.access \in Nat
    BY <1>1, <1>5, WebClientAssumption DEF Request, TokenPair
  <2> DEFINE again == Sent("query", request[c].left - 1, TRUE, tokens.access)
  <2>2. again \in Request /\ again.at = "sent"
    BY <2>1, RequestsTyped
  <2>3. store' = tokens /\ request' = [request EXCEPT ![c] = again]
        /\ UNCHANGED <<user, loading, abandoned>>
    BY <1>5 DEF Unauthorized, SendRequest
  <2> QED
    BY <1>1, <1>2, <2>2, <2>3 DEF ClientTyped
<1>6. CASE request[c].kind \notin {"me", "session"} /\ ~(request[c].left > 0)
  <2>1. LoadTab(NoTokens)
    BY <1>6 DEF Unauthorized
  <2> QED
    BY <1>2, <2>1, TabLoaded
<1> QED
  BY <1>3, <1>4, <1>5, <1>6

\* What a step that brings no token and begins no exchange preserves.
LEMMA NothingBrought ==
  ASSUME WebInv, UNCHANGED refreshTokens, abandoned \subseteq abandoned',
         store'.refresh \in {store.refresh, 0},
         \A d \in AuthCalls :
           job'[d] = job[d] \/ (job'[d].at # "revoke" /\ (job'[d].at = "idle" => job'[d].id = 0)),
         \A d \in AuthCalls :
           \/ request'[d] = request[d]
           \/ request'[d].at \in {"idle", "sent", "denied"}
           \/ request'[d].at = "opening" /\ job'[d].at # "idle",
         store'.refresh # 0 => \A d \in AuthCalls :
           Exchanging(d, store.refresh) =>
             request'[d] = request[d] \/ store.refresh \in abandoned'
  PROVE  TokensKnown' /\ AnswersFresh' /\ RevokedByOwner' /\ StoredTokenLives'
<1>u. \A d \in AuthCalls : Unread(d)' => Unread(d) /\ job'[d] = job[d]
  BY DEF Unread, Ready
<1>e. \A d \in AuthCalls : Exchanges(d)' => Exchanges(d) /\ request'[d] = request[d]
  BY DEF Exchanges
<1>r. \A d \in AuthCalls : job'[d].at = "revoke" => job'[d] = job[d]
  OBVIOUS
<1>s. store'.refresh = store.refresh \/ store'.refresh = 0
  OBVIOUS
<1>n. Len(refreshTokens) \in Nat
  BY DEF WebInv, SessionsTypeOK
<1>1. TokensKnown'
  <2>1. TokensKnown
    BY DEF WebInv
  <2>2. store'.refresh \in 0..Len(refreshTokens')
    BY <1>s, <1>n, <2>1 DEF TokensKnown
  <2>3. ASSUME NEW d \in AuthCalls
        PROVE  /\ Exchanges(d)' => request'[d].refresh \in DOMAIN refreshTokens'
               /\ job'[d].at = "revoke" \/ Unread(d)' => job'[d].id \in DOMAIN refreshTokens'
    BY <1>u, <1>e, <1>r, <2>1 DEF TokensKnown
  <2> QED
    BY <2>2, <2>3 DEF TokensKnown
<1>2. AnswersFresh'
  <2> SUFFICES ASSUME NEW c \in AuthCalls, Unread(c)'
               PROVE  /\ ~refreshTokens'[job'[c].id].revoked
                      /\ store'.refresh # job'[c].id
                      /\ \A d \in AuthCalls :
                           /\ Exchanges(d)' => request'[d].refresh # job'[c].id
                           /\ job'[d].at = "revoke" \/ (Unread(d)' /\ d # c) => job'[d].id # job'[c].id
    BY DEF AnswersFresh
  <2>1. Unread(c) /\ job'[c] = job[c] /\ job[c].id # 0
    BY <1>u DEF Unread
  <2>2. /\ ~refreshTokens[job[c].id].revoked
        /\ store.refresh # job[c].id
        /\ \A d \in AuthCalls :
             /\ Exchanges(d) => request[d].refresh # job[c].id
             /\ job[d].at = "revoke" \/ (Unread(d) /\ d # c) => job[d].id # job[c].id
    BY <2>1 DEF WebInv, AnswersFresh
  <2> QED
    BY <1>u, <1>e, <1>r, <1>s, <2>1, <2>2
<1>k. store'.refresh # 0 =>
        \A d \in AuthCalls :
          Exchanging(d, store.refresh) =>
            (request'[d].at = "refreshing" /\ request'[d].refresh = store'.refresh)
              \/ store'.refresh \in abandoned'
  BY <1>s DEF Exchanging
<1>3. RevokedByOwner'
  <2> SUFFICES ASSUME store'.refresh # 0, NEW d \in AuthCalls,
                      job'[d].at = "revoke", job'[d].id = store'.refresh
               PROVE  \/ request'[d].at = "refreshing" /\ request'[d].refresh = store'.refresh
                      \/ store'.refresh \in abandoned'
    BY DEF RevokedByOwner, Exchanging
  <2>1. Exchanging(d, store.refresh) \/ store.refresh \in abandoned
    BY <1>r, <1>s DEF WebInv, RevokedByOwner
  <2> QED
    BY <1>k, <1>s, <2>1
<1>4. StoredTokenLives'
  <2> SUFFICES ASSUME store'.refresh # 0, refreshTokens'[store'.refresh].revoked,
                      store'.refresh \notin abandoned'
               PROVE  \E c \in AuthCalls :
                        request'[c].at = "refreshing" /\ request'[c].refresh = store'.refresh
    BY DEF StoredTokenLives
  <2>1. \E c \in AuthCalls : Exchanging(c, store.refresh)
    BY <1>s DEF WebInv, StoredTokenLives, Exchanging
  <2> QED
    BY <1>k, <2>1
<1> QED
  BY <1>1, <1>2, <1>3, <1>4

\* What the invariant says of the tab, in one fact.
LEMMA TabTyped ==
  ASSUME WebInv
  PROVE  /\ store \in TokenPair /\ request \in [AuthCalls -> Request]
         /\ user \in BOOLEAN /\ loading \in BOOLEAN /\ abandoned \subseteq Nat
         /\ job \in [AuthCalls -> Job] /\ Len(refreshTokens) \in Nat
         /\ NoTokens \in TokenPair /\ NoTokens.refresh = 0
         /\ NoRequest \in Request /\ NoRequest.at = "idle"
         /\ NoJob.at = "idle" /\ NoJob.id = 0
<1>1. NoJob.at = "idle" /\ NoJob.id = 0 /\ NoTokens.refresh = 0
  BY DEF NoJob, NoTokens
<1> QED
  BY <1>1, RequestsTyped DEF WebInv, WebTypeOK, SessionsTypeOK, TokenPair

\* What the API answers or refuses changes one request and no token.
LEMMA TabAsks ==
  ASSUME WebInv, NEW c \in AuthCalls, Ask(c) \/ AskSession(c) \/ Serve(c) \/ ServeSession(c)
  PROVE  ClientTyped /\ TokensKnown' /\ AnswersFresh' /\ RevokedByOwner' /\ StoredTokenLives'
<1>t. /\ store \in TokenPair /\ request \in [AuthCalls -> Request]
      /\ user \in BOOLEAN /\ loading \in BOOLEAN /\ abandoned \subseteq Nat
      /\ job \in [AuthCalls -> Job]
      /\ NoRequest \in Request /\ NoRequest.at = "idle"
  BY TabTyped
<1>a. store.access \in Nat /\ 0 \in 0..QueryRetries /\ QueryRetries \in 0..QueryRetries
  BY <1>t, WebClientAssumption DEF TokenPair
<1>s. \A kind \in {"me", "session", "query"}, left \in 0..QueryRetries :
        /\ Sent(kind, left, TRUE, store.access) \in Request
        /\ Sent(kind, left, TRUE, store.access).at = "sent"
  BY <1>a, RequestsTyped
<1>d. /\ [request[c] EXCEPT !.at = "denied", !.access = 0] \in Request
      /\ [request[c] EXCEPT !.at = "opening", !.access = 0] \in Request
  BY <1>t DEF Request
<1>1. /\ UNCHANGED <<refreshTokens, store, abandoned>>
      /\ user' \in BOOLEAN /\ loading' \in BOOLEAN
      /\ request' \in [AuthCalls -> Request]
      /\ \A d \in AuthCalls \ {c} : request'[d] = request[d] /\ job'[d] = job[d]
      /\ \/ job' = job /\ request'[c].at \in {"idle", "sent", "denied"}
         \/ request'[c].at = "opening" /\ job'[c].at = "issue"
      /\ request[c].at \in {"idle", "sent"}
  <2>1. CASE Ask(c)
    <3>1. PICK left \in {0, QueryRetries} : SendRequest(c, "query", left, TRUE, store.access)
      BY <2>1 DEF Ask
    <3>2. UNCHANGED <<sessionVars, store, user, loading, abandoned>> /\ request[c].at = "idle"
      BY <2>1 DEF Ask, Pending
    <3> QED
      BY <1>t, <1>a, <1>s, <3>1, <3>2 DEF SendRequest, sessionVars
  <2>2. CASE AskSession(c)
    BY <1>t, <1>a, <1>s, <2>2 DEF AskSession, SendRequest, Pending, sessionVars
  <2>3. CASE Serve(c)
    <3>0. /\ request[c].at = "sent" /\ job' = job
          /\ UNCHANGED <<refreshTokens, store, abandoned>>
      BY <2>3 DEF Serve, sessionVars
    <3>1. CASE Authorized(request[c].access)
      BY <1>t, <2>3, <3>0, <3>1 DEF Serve, EndRequest
    <3>2. CASE ~Authorized(request[c].access)
      <4>1. Deny(c) /\ UNCHANGED <<user, loading>>
        BY <2>3, <3>2 DEF Serve
      <4> QED
        BY <1>t, <1>d, <3>0, <4>1 DEF Deny
    <3> QED
      BY <3>1, <3>2
  <2>4. CASE ServeSession(c)
    <3>1. CASE OpenSession(c) /\ request' = [request EXCEPT ![c].at = "opening", ![c].access = 0]
      <4>1. PICK u \in Users : Goto(c, "issue", u, 0, password[u])
        BY <3>1 DEF OpenSession
      <4>2. job'[c].at = "issue" /\ \A d \in AuthCalls \ {c} : job'[d] = job[d]
        BY <1>t, <4>1 DEF Goto
      <4> QED
        BY <1>t, <1>d, <2>4, <3>1, <4>2 DEF ServeSession, OpenSession
    <3>2. CASE Deny(c) /\ UNCHANGED sessionVars
      BY <1>t, <1>d, <2>4, <3>2 DEF ServeSession, Deny, sessionVars
    <3> QED
      BY <2>4, <3>1, <3>2 DEF ServeSession
  <2> QED
    BY <2>1, <2>2, <2>3, <2>4
<1>2. ClientTyped
  BY <1>t, <1>1 DEF ClientTyped
<1>3. /\ \A d \in AuthCalls : job'[d] = job[d] \/ job'[d].at = "issue"
      /\ \A d \in AuthCalls :
           \/ request'[d] = request[d]
           \/ request'[d].at \in {"idle", "sent", "denied"}
           \/ request'[d].at = "opening" /\ job'[d].at # "idle"
      /\ \A d \in AuthCalls : Exchanging(d, store.refresh) => request'[d] = request[d]
  BY <1>1 DEF Exchanging
<1> QED
  BY <1>1, <1>2, <1>3, NothingBrought

\* A refusal, a failure or an exchange that is denied brings no token.
LEMMA TabFails ==
  ASSUME WebInv, NEW c \in AuthCalls, NEW tokens \in TokenPair,
         Unauthorized(c, tokens), UNCHANGED refreshTokens,
         tokens = NoTokens \/ (tokens = store /\ request[c].at # "refreshing"),
         \A d \in AuthCalls :
           job'[d] = job[d] \/ (job'[d].at # "revoke" /\ (job'[d].at = "idle" => job'[d].id = 0))
  PROVE  ClientTyped /\ TokensKnown' /\ AnswersFresh' /\ RevokedByOwner' /\ StoredTokenLives'
<1>1. /\ ClientTyped /\ store' \in {tokens, NoTokens} /\ abandoned \subseteq abandoned'
      /\ request'[c].at \in {"idle", "sent"}
      /\ \A d \in AuthCalls : request'[d] = request[d] \/ request'[d].at \in {"idle", "sent"}
      /\ store'.refresh # 0 => \A d \in AuthCalls \ {c} : request'[d] = request[d]
  BY ErrorShown DEF WebInv
<1>2. store'.refresh \in {store.refresh, 0}
  BY <1>1, TabTyped
<1>3. store'.refresh # 0 =>
        \A d \in AuthCalls : Exchanging(d, store.refresh) => request'[d] = request[d]
  BY <1>1, TabTyped DEF Exchanging
<1>4. \A d \in AuthCalls :
        \/ request'[d] = request[d]
        \/ request'[d].at \in {"idle", "sent", "denied"}
        \/ request'[d].at = "opening" /\ job'[d].at # "idle"
  BY <1>1
<1> QED
  BY <1>1, <1>2, <1>3, <1>4, NothingBrought

\* A denied request asks for an exchange of the token that is stored.
LEMMA TabDenied ==
  ASSUME WebInv, NEW c \in AuthCalls, HandleDenied(c)
  PROVE  ClientTyped /\ TokensKnown' /\ AnswersFresh' /\ RevokedByOwner' /\ StoredTokenLives'
<1>t. /\ store \in TokenPair /\ request \in [AuthCalls -> Request]
      /\ user \in BOOLEAN /\ loading \in BOOLEAN /\ abandoned \subseteq Nat
      /\ Len(refreshTokens) \in Nat
  BY TabTyped
<1>u. /\ request[c].at = "denied"
      /\ refreshTokens' = refreshTokens /\ job' = job
  BY DEF HandleDenied, sessionVars
<1>1. CASE request[c].retry /\ store.refresh # 0
  <2> DEFINE asking == [request[c] EXCEPT !.at = "asking", !.refresh = store.refresh]
  <2>1. request' = [request EXCEPT ![c] = asking]
        /\ UNCHANGED <<store, user, loading, abandoned>>
    BY <1>1, <1>t DEF HandleDenied
  <2>2. /\ asking \in Request /\ asking.at = "asking" /\ asking.refresh = store.refresh
    BY <1>t DEF Request, TokenPair
  <2> HIDE DEF asking
  <2>3. request'[c] = asking /\ \A d \in AuthCalls \ {c} : request'[d] = request[d]
    BY <1>t, <2>1
  <2>4. ClientTyped
    BY <1>t, <2>1, <2>2 DEF ClientTyped
  <2>u. \A d \in AuthCalls : Unread(d)' => Unread(d) /\ d # c
    BY <1>u, <2>2, <2>3 DEF Unread, Ready
  <2>e. \A d \in AuthCalls : Exchanges(d)' =>
          (Exchanges(d) /\ d # c /\ request'[d] = request[d])
            \/ request'[d].refresh = store.refresh
    BY <2>2, <2>3 DEF Exchanges
  <2>5. TokensKnown'
    <3>1. store.refresh \in DOMAIN refreshTokens
      BY <1>1, <1>t DEF WebInv, TokensKnown, SessionsTypeOK
    <3> QED
      BY <1>u, <2>1, <2>u, <2>e, <3>1 DEF WebInv, TokensKnown
  <2>6. AnswersFresh'
    <3> SUFFICES ASSUME NEW e \in AuthCalls, Unread(e)'
                 PROVE  /\ ~refreshTokens[job[e].id].revoked
                        /\ store.refresh # job[e].id
                        /\ \A d \in AuthCalls :
                             /\ Exchanges(d)' => request'[d].refresh # job[e].id
                             /\ job[d].at = "revoke" \/ (Unread(d)' /\ d # e) => job[d].id # job[e].id
      BY <1>u, <2>1 DEF AnswersFresh
    <3> QED
      BY <2>u, <2>e DEF WebInv, AnswersFresh
  <2>7. RevokedByOwner' /\ StoredTokenLives'
    <3>1. \A d \in AuthCalls : Exchanging(d, store.refresh) => Exchanging(d, store.refresh)'
      BY <1>u, <2>1, <2>3 DEF Exchanging
    <3> QED
      BY <1>u, <2>1, <3>1 DEF WebInv, RevokedByOwner, StoredTokenLives, Exchanging
  <2> QED
    BY <2>4, <2>5, <2>6, <2>7
<1>2. CASE ~(request[c].retry /\ store.refresh # 0)
  <2>1. Unauthorized(c, store) /\ request[c].at # "refreshing"
    BY <1>2, <1>u DEF HandleDenied
  <2> QED
    BY <1>u, <1>t, <2>1, TabFails
<1> QED
  BY <1>1, <1>2

\* The exchange reaches the API, which reads the token as live or refuses it.
LEMMA ExchangeSent ==
  ASSUME WebInv, NEW c \in AuthCalls, TryRefresh(c)
  PROVE  ClientTyped /\ TokensKnown' /\ AnswersFresh' /\ RevokedByOwner' /\ StoredTokenLives'
<1>t. /\ store \in TokenPair /\ request \in [AuthCalls -> Request]
      /\ user \in BOOLEAN /\ loading \in BOOLEAN /\ abandoned \subseteq Nat
      /\ job \in [AuthCalls -> Job] /\ NoJob.at = "idle"
  BY TabTyped
<1>u. /\ request[c].at = "asking" /\ Ready(c)
      /\ refreshTokens' = refreshTokens
      /\ UNCHANGED <<store, user, loading, abandoned>>
  BY DEF TryRefresh, RefreshReads
<1> DEFINE i == request[c].refresh
<1> DEFINE refreshing == [request[c] EXCEPT !.at = "refreshing"]
<1>i. i \in DOMAIN refreshTokens
  BY <1>u DEF WebInv, TokensKnown, Exchanges
<1>1. request' = [request EXCEPT ![c] = refreshing]
  BY <1>t DEF TryRefresh
<1>2. refreshing \in Request /\ refreshing.at = "refreshing" /\ refreshing.refresh = i
  BY <1>t DEF Request
<1>3. /\ \A d \in AuthCalls \ {c} : job'[d] = job[d]
      /\ \/ job'[c].at = "idle" /\ job'[c].id = 0
         \/ job'[c].at = "revoke" /\ job'[c].id = i
  <2>1. CASE Exchangeable(i)
    <3>1. Goto(c, "revoke", refreshTokens[i].user, i, password[refreshTokens[i].user])
      BY <2>1 DEF TryRefresh, RefreshReads
    <3> QED
      BY <1>t, <3>1 DEF Goto
  <2>2. CASE ~Exchangeable(i)
    <3>1. Answer(c, 0)
      BY <2>2 DEF TryRefresh, RefreshReads
    <3>2. [NoJob EXCEPT !.id = 0].at = "idle" /\ [NoJob EXCEPT !.id = 0].id = 0
      BY DEF NoJob
    <3> QED
      BY <1>t, <3>1, <3>2 DEF Answer
  <2> QED
    BY <2>1, <2>2
<1>o. Exchanges(c) /\ request[c].refresh = i
  BY <1>u DEF Exchanges
<1> HIDE DEF refreshing, i
<1>4. request'[c] = refreshing /\ \A d \in AuthCalls \ {c} : request'[d] = request[d]
  BY <1>t, <1>1
<1>5. ClientTyped
  BY <1>t, <1>u, <1>1, <1>2 DEF ClientTyped
<1>n. \A d \in AuthCalls : Unread(d)' => Unread(d) /\ d # c /\ job'[d] = job[d]
  BY <1>3, <1>4 DEF Unread, Ready
<1>e. \A d \in AuthCalls : Exchanges(d)' => Exchanges(d) /\ request'[d].refresh = request[d].refresh
  BY <1>o, <1>2, <1>4 DEF Exchanges
<1>r. \A d \in AuthCalls : job'[d].at = "revoke" =>
        (d # c /\ job[d].at = "revoke" /\ job'[d] = job[d]) \/ (d = c /\ job'[d].id = i)
  BY <1>3
<1>6. TokensKnown'
  BY <1>u, <1>i, <1>n, <1>e, <1>r DEF WebInv, TokensKnown
<1>7. AnswersFresh'
  <2> SUFFICES ASSUME NEW e \in AuthCalls, Unread(e)'
               PROVE  /\ ~refreshTokens[job'[e].id].revoked
                      /\ store.refresh # job'[e].id
                      /\ \A d \in AuthCalls :
                           /\ Exchanges(d)' => request'[d].refresh # job'[e].id
                           /\ job'[d].at = "revoke" \/ (Unread(d)' /\ d # e) => job'[d].id # job'[e].id
    BY <1>u DEF AnswersFresh
  <2>1. Unread(e) /\ job'[e] = job[e]
    BY <1>n
  <2>2. /\ ~refreshTokens[job[e].id].revoked
        /\ store.refresh # job[e].id
        /\ \A d \in AuthCalls :
             /\ Exchanges(d) => request[d].refresh # job[e].id
             /\ job[d].at = "revoke" \/ (Unread(d) /\ d # e) => job[d].id # job[e].id
    BY <2>1 DEF WebInv, AnswersFresh
  <2> QED
    BY <1>n, <1>e, <1>r, <1>o, <2>1, <2>2
<1>8. \A d \in AuthCalls : Exchanging(d, store.refresh) => Exchanging(d, store.refresh)'
  BY <1>u, <1>4 DEF Exchanging
<1>9. RevokedByOwner'
  <2> SUFFICES ASSUME store.refresh # 0, NEW d \in AuthCalls,
                      job'[d].at = "revoke", job'[d].id = store.refresh
               PROVE  Exchanging(d, store.refresh)' \/ store.refresh \in abandoned
    BY <1>u DEF RevokedByOwner, Exchanging
  <2> QED
    BY <1>r, <1>2, <1>4, <1>8, <1>u DEF WebInv, RevokedByOwner, Exchanging
<1>10. StoredTokenLives'
  BY <1>u, <1>8 DEF WebInv, StoredTokenLives, Exchanging
<1> QED
  BY <1>5, <1>6, <1>7, <1>9, <1>10

\* The token an answer brings is stored: it was alive and nobody else's.
LEMMA TokenStored ==
  ASSUME WebInv, NEW c \in AuthCalls, Unread(c),
         UNCHANGED <<refreshTokens, abandoned>>,
         store'.refresh = job[c].id,
         job' = [job EXCEPT ![c] = NoJob],
         \A d \in AuthCalls \ {c} : request'[d] = request[d],
         request'[c].at \in {"idle", "sent"}
  PROVE  TokensKnown' /\ AnswersFresh' /\ RevokedByOwner' /\ StoredTokenLives'
<1>t. job \in [AuthCalls -> Job] /\ NoJob.at = "idle" /\ NoJob.id = 0
      /\ Len(refreshTokens) \in Nat
  BY TabTyped
<1>j. job'[c] = NoJob /\ \A d \in AuthCalls \ {c} : job'[d] = job[d]
  BY <1>t
<1> DEFINE id == job[c].id
<1>n. \A d \in AuthCalls : Unread(d)' => Unread(d) /\ d # c /\ job'[d] = job[d]
  BY <1>j, <1>t DEF Unread, Ready
<1>e. \A d \in AuthCalls : Exchanges(d)' => Exchanges(d) /\ request'[d] = request[d]
  BY DEF Exchanges
<1>r. \A d \in AuthCalls : job'[d].at = "revoke" => d # c /\ job[d].at = "revoke" /\ job'[d] = job[d]
  BY <1>j, <1>t
<1>f. /\ ~refreshTokens[id].revoked /\ id \in DOMAIN refreshTokens
      /\ \A d \in AuthCalls :
           /\ Exchanges(d) => request[d].refresh # id
           /\ job[d].at = "revoke" \/ (Unread(d) /\ d # c) => job[d].id # id
  BY DEF WebInv, AnswersFresh, TokensKnown
<1>1. TokensKnown'
  <2>1. id \in 0..Len(refreshTokens)
    BY <1>f, <1>t DEF WebInv, SessionsTypeOK
  <2> QED
    BY <2>1, <1>n, <1>e, <1>r DEF WebInv, TokensKnown
<1>2. AnswersFresh'
  <2> SUFFICES ASSUME NEW e \in AuthCalls, Unread(e)'
               PROVE  /\ ~refreshTokens[job'[e].id].revoked
                      /\ id # job'[e].id
                      /\ \A d \in AuthCalls :
                           /\ Exchanges(d)' => request'[d].refresh # job'[e].id
                           /\ job'[d].at = "revoke" \/ (Unread(d)' /\ d # e) => job'[d].id # job'[e].id
    BY DEF AnswersFresh
  <2>1. Unread(e) /\ e # c /\ job'[e] = job[e]
    BY <1>n
  <2>2. /\ ~refreshTokens[job[e].id].revoked
        /\ \A d \in AuthCalls :
             /\ Exchanges(d) => request[d].refresh # job[e].id
             /\ job[d].at = "revoke" \/ (Unread(d) /\ d # e) => job[d].id # job[e].id
    BY <2>1 DEF WebInv, AnswersFresh
  <2> QED
    BY <1>n, <1>e, <1>r, <1>f, <2>1, <2>2
<1>3. RevokedByOwner'
  BY <1>r, <1>f DEF RevokedByOwner
<1>4. StoredTokenLives'
  BY <1>f DEF StoredTokenLives
<1> QED
  BY <1>1, <1>2, <1>3, <1>4

\* A session opened, or an exchange answered, as the tab reads the answer.
LEMMA AnswerRead ==
  ASSUME WebInv, NEW c \in AuthCalls, SessionOpened(c) \/ Refreshed(c)
  PROVE  ClientTyped /\ TokensKnown' /\ AnswersFresh' /\ RevokedByOwner' /\ StoredTokenLives'
<1>t. /\ store \in TokenPair /\ request \in [AuthCalls -> Request]
      /\ user \in BOOLEAN /\ loading \in BOOLEAN /\ abandoned \subseteq Nat
      /\ job \in [AuthCalls -> Job] /\ NoJob.at = "idle" /\ NoJob.id = 0
      /\ NoTokens \in TokenPair /\ NoRequest \in Request /\ NoRequest.at = "idle"
  BY TabTyped
<1>r. /\ ReadAnswer(c) /\ Ready(c) /\ request[c].at \in {"opening", "refreshing"}
      /\ job' = [job EXCEPT ![c] = NoJob] /\ refreshTokens' = refreshTokens
  BY DEF SessionOpened, Refreshed, ReadAnswer
<1>j. \A d \in AuthCalls :
        job'[d] = job[d] \/ (job'[d].at # "revoke" /\ (job'[d].at = "idle" => job'[d].id = 0))
  BY <1>r, <1>t
<1>i. job[c].id \in Nat /\ [access |-> job[c].id, refresh |-> job[c].id] \in TokenPair
  BY <1>t DEF Job, TokenPair
<1>1. CASE SessionOpened(c) /\ job[c].id = 0
  <2>1. /\ UNCHANGED <<store, user, loading, abandoned>>
        /\ request' = [request EXCEPT ![c] = NoRequest] /\ request[c].at = "opening"
    BY <1>1 DEF SessionOpened, EndRequest
  <2>2. ClientTyped
    BY <1>t, <2>1 DEF ClientTyped
  <2>3. /\ \A d \in AuthCalls : request'[d] = request[d] \/ request'[d].at = "idle"
        /\ \A d \in AuthCalls : Exchanging(d, store.refresh) => request'[d] = request[d]
    BY <1>t, <2>1 DEF Exchanging
  <2>4. store'.refresh \in {store.refresh, 0} /\ abandoned \subseteq abandoned'
    BY <2>1
  <2>5. \A d \in AuthCalls :
          \/ request'[d] = request[d]
          \/ request'[d].at \in {"idle", "sent", "denied"}
          \/ request'[d].at = "opening" /\ job'[d].at # "idle"
    BY <2>3
  <2> QED
    BY <1>r, <1>j, <2>2, <2>3, <2>4, <2>5, NothingBrought
<1>2. CASE Refreshed(c) /\ job[c].id = 0
  <2>1. Unauthorized(c, NoTokens)
    BY <1>2 DEF Refreshed
  <2> QED
    BY <1>r, <1>j, <1>t, <2>1, TabFails
<1>3. CASE SessionOpened(c) /\ job[c].id # 0
  <2>1. /\ UNCHANGED <<loading, abandoned>> /\ user' = TRUE
        /\ store' = [access |-> job[c].id, refresh |-> job[c].id]
        /\ request' = [request EXCEPT ![c] = NoRequest]
    BY <1>3 DEF SessionOpened, EndRequest
  <2>2. ClientTyped
    BY <1>t, <1>i, <2>1 DEF ClientTyped
  <2>3. Unread(c)
    BY <1>3, <1>r DEF Unread
  <2>4. /\ request'[c].at \in {"idle", "sent"}
        /\ \A d \in AuthCalls \ {c} : request'[d] = request[d]
    BY <1>t, <2>1
  <2>5. store'.refresh = job[c].id /\ UNCHANGED <<refreshTokens, abandoned>>
    BY <1>r, <2>1
  <2> QED
    BY <1>r, <2>2, <2>3, <2>4, <2>5, TokenStored
<1>4. CASE Refreshed(c) /\ job[c].id # 0
  <2> DEFINE again == Sent(request[c].kind, request[c].left, FALSE, job[c].id)
  <2>1. /\ UNCHANGED <<user, loading, abandoned>>
        /\ store' = [access |-> job[c].id, refresh |-> job[c].id]
        /\ request' = [request EXCEPT ![c] = again]
    BY <1>4 DEF Refreshed, Kept, SendRequest
  <2>2. again \in Request /\ again.at = "sent"
    <3>1. request[c].kind \in {"me", "session", "query"} /\ request[c].left \in 0..QueryRetries
      BY <1>t DEF Request
    <3> QED
      BY <3>1, <1>i, RequestsTyped
  <2> HIDE DEF again
  <2>3. ClientTyped
    BY <1>t, <1>i, <2>1, <2>2 DEF ClientTyped
  <2>4. Unread(c)
    BY <1>4, <1>r DEF Unread
  <2>5. /\ request'[c].at \in {"idle", "sent"}
        /\ \A d \in AuthCalls \ {c} : request'[d] = request[d]
    BY <1>t, <2>1, <2>2
  <2>6. store'.refresh = job[c].id /\ UNCHANGED <<refreshTokens, abandoned>>
    BY <1>r, <2>1
  <2> QED
    BY <1>r, <2>3, <2>4, <2>5, <2>6, TokenStored
<1> QED
  BY <1>1, <1>2, <1>3, <1>4

\* A failure of the network, a load of the page, a logout of the tab and a
\* call that stops bring no token.
LEMMA TabForgets ==
  ASSUME WebInv,
         \/ \E c \in AuthCalls : LoseAnswer(c) \/ (CrashCall(c) /\ UNCHANGED clientVars)
         \/ LoadPageAgain \/ LogoutOfTab \/ ExpireAccess
  PROVE  ClientTyped /\ TokensKnown' /\ AnswersFresh' /\ RevokedByOwner' /\ StoredTokenLives'
<1>t. /\ store \in TokenPair /\ request \in [AuthCalls -> Request]
      /\ user \in BOOLEAN /\ loading \in BOOLEAN /\ abandoned \subseteq Nat
      /\ job \in [AuthCalls -> Job] /\ NoJob.at = "idle" /\ NoJob.id = 0
      /\ NoTokens \in TokenPair /\ NoTokens.refresh = 0
      /\ NoRequest \in Request /\ NoRequest.at = "idle"
  BY TabTyped
<1>1. ASSUME NEW c \in AuthCalls, LoseAnswer(c)
      PROVE  ClientTyped /\ TokensKnown' /\ AnswersFresh' /\ RevokedByOwner' /\ StoredTokenLives'
  <2>u. /\ refreshTokens' = refreshTokens /\ job' = job
        /\ request[c].at \in {"sent", "opening", "asking", "refreshing"}
    BY <1>1 DEF LoseAnswer, sessionVars
  <2>1. CASE request[c].at \in {"asking", "refreshing"}
    <3>1. Unauthorized(c, NoTokens)
      BY <1>1, <2>1 DEF LoseAnswer
    <3> QED
      BY <1>t, <2>u, <3>1, TabFails
  <2>2. CASE request[c].at \notin {"asking", "refreshing"} /\ request[c].kind = "me"
    <3>1. Unauthorized(c, store) /\ request[c].at # "refreshing"
      BY <1>1, <2>2 DEF LoseAnswer
    <3> QED
      BY <1>t, <2>u, <3>1, TabFails
  <2>3. CASE request[c].at \notin {"asking", "refreshing"} /\ request[c].kind # "me"
    <3>1. /\ UNCHANGED <<store, user, loading, abandoned>>
          /\ \/ request[c].left > 0 /\ SendRequest(c, "query", request[c].left - 1, TRUE, store.access)
             \/ EndRequest(c)
      BY <1>1, <2>3 DEF LoseAnswer
    <3>2. \E again \in Request :
            /\ again.at \in {"idle", "sent"}
            /\ request' = [request EXCEPT ![c] = again]
      <4>1. CASE request[c].left > 0 /\ SendRequest(c, "query", request[c].left - 1, TRUE, store.access)
        <5>1. request[c].left - 1 \in 0..QueryRetries /\ store.access \in Nat
          BY <1>t, <4>1, WebClientAssumption DEF Request, TokenPair
        <5>2. LET again == Sent("query", request[c].left - 1, TRUE, store.access)
              IN  again \in Request /\ again.at = "sent"
          BY <5>1, RequestsTyped
        <5> QED
          BY <4>1, <5>2 DEF SendRequest
      <4>2. CASE EndRequest(c)
        BY <1>t, <4>2 DEF EndRequest
      <4> QED
        BY <3>1, <4>1, <4>2
    <3>3. PICK again \in Request :
            /\ again.at \in {"idle", "sent"}
            /\ request' = [request EXCEPT ![c] = again]
      BY <3>2
    <3>4. ClientTyped
      BY <1>t, <3>1, <3>3 DEF ClientTyped
    <3>5. /\ request'[c].at \in {"idle", "sent"}
          /\ \A d \in AuthCalls \ {c} : request'[d] = request[d]
      BY <1>t, <3>3
    <3>6. /\ \A d \in AuthCalls :
               \/ request'[d] = request[d]
               \/ request'[d].at \in {"idle", "sent", "denied"}
               \/ request'[d].at = "opening" /\ job'[d].at # "idle"
          /\ \A d \in AuthCalls : Exchanging(d, store.refresh) => request'[d] = request[d]
      BY <2>3, <3>5 DEF Exchanging
    <3> QED
      BY <2>u, <3>1, <3>4, <3>6, NothingBrought
  <2> QED
    BY <2>1, <2>2, <2>3
<1>2. ASSUME NEW c \in AuthCalls, CrashCall(c), UNCHANGED clientVars
      PROVE  ClientTyped /\ TokensKnown' /\ AnswersFresh' /\ RevokedByOwner' /\ StoredTokenLives'
  <2>1. /\ UNCHANGED <<refreshTokens, store, user, loading, request, abandoned>>
        /\ Answer(c, 0)
    BY <1>2 DEF CrashCall, clientVars
  <2>2. [NoJob EXCEPT !.id = 0].at = "idle" /\ [NoJob EXCEPT !.id = 0].id = 0
    BY DEF NoJob
  <2>3. \A d \in AuthCalls : job'[d] = job[d] \/ (job'[d].at = "idle" /\ job'[d].id = 0)
    BY <1>t, <2>1, <2>2 DEF Answer
  <2>4. ClientTyped
    BY <1>t, <2>1 DEF ClientTyped
  <2> QED
    BY <2>1, <2>3, <2>4, NothingBrought
<1>3. CASE LoadPageAgain
  <2>1. LoadTab(store) /\ refreshTokens' = refreshTokens /\ job' = job
    BY <1>3 DEF LoadPageAgain, sessionVars
  <2>2. /\ ClientTyped /\ store' = store /\ abandoned \subseteq abandoned'
        /\ \A d \in AuthCalls : request'[d].at \in {"idle", "sent"}
        /\ \A d \in AuthCalls : request[d].refresh # 0 => request[d].refresh \in abandoned'
    BY <1>t, <2>1, TabLoaded DEF WebInv
  <2>3. store'.refresh # 0 =>
          \A d \in AuthCalls : Exchanging(d, store.refresh) => store.refresh \in abandoned'
    BY <2>2 DEF Exchanging
  <2> QED
    BY <2>1, <2>2, <2>3, NothingBrought
<1>4. CASE LogoutOfTab
  <2>1. /\ UNCHANGED <<refreshTokens, job, loading, request, abandoned>>
        /\ store' = NoTokens /\ user' = FALSE
    BY <1>4 DEF LogoutOfTab, sessionVars
  <2>2. ClientTyped
    BY <1>t, <2>1 DEF ClientTyped
  <2> QED
    BY <1>t, <2>1, <2>2, NothingBrought
<1>5. CASE ExpireAccess
  <2>1. UNCHANGED <<refreshTokens, job, store, user, loading, request, abandoned>>
    BY <1>5 DEF ExpireAccess, sessionVars
  <2>2. ClientTyped
    BY <1>t, <2>1 DEF ClientTyped
  <2> QED
    BY <2>1, <2>2, NothingBrought
<1> QED
  BY <1>1, <1>2, <1>3, <1>4, <1>5

\* The token an exchange revokes is that of a request the tab waits for.
LEMMA TokenRevoked ==
  ASSUME WebInv, NEW c \in AuthCalls, Revoke(c), UNCHANGED clientVars
  PROVE  TokensKnown' /\ AnswersFresh' /\ RevokedByOwner' /\ StoredTokenLives'
<1>t. job \in [AuthCalls -> Job] /\ refreshTokens \in Seq(RefreshToken)
  BY TabTyped DEF WebInv, SessionsTypeOK
<1> DEFINE i == job[c].id
<1>u. /\ job[c].at = "revoke" /\ UNCHANGED <<store, request, abandoned>>
      /\ refreshTokens' = [refreshTokens EXCEPT ![i].revoked = TRUE]
      /\ Goto(c, "issue", job[c].user, 0, job[c].code)
  BY DEF Revoke, clientVars
<1>i. i \in DOMAIN refreshTokens
  BY <1>u DEF WebInv, TokensKnown
<1>1. job'[c].at = "issue" /\ \A d \in AuthCalls \ {c} : job'[d] = job[d]
  BY <1>t, <1>u DEF Goto
<1>2. /\ DOMAIN refreshTokens' = DOMAIN refreshTokens /\ Len(refreshTokens') = Len(refreshTokens)
      /\ \A j \in DOMAIN refreshTokens : j # i => refreshTokens'[j] = refreshTokens[j]
  <2> DEFINE e == [refreshTokens[i] EXCEPT !.revoked = TRUE]
  <2>1. refreshTokens' = [refreshTokens EXCEPT ![i] = e]
    BY <1>u
  <2>2. e \in RefreshToken
    <3>1. refreshTokens[i] \in RefreshToken
      BY <1>t, <1>i
    <3> QED
      BY <3>1 DEF RefreshToken
  <2> HIDE DEF e, i
  <2>3. LET t == [refreshTokens EXCEPT ![i] = e] IN
        /\ DOMAIN t = DOMAIN refreshTokens /\ Len(t) = Len(refreshTokens)
        /\ \A j \in DOMAIN refreshTokens : t[j] = IF j = i THEN e ELSE refreshTokens[j]
    BY <1>t, <2>2, OneReplaced
  <2> QED
    BY <2>1, <2>3
<1>n. \A d \in AuthCalls : Unread(d)' => Unread(d) /\ d # c /\ job'[d] = job[d]
  BY <1>1, <1>u DEF Unread, Ready
<1>e. \A d \in AuthCalls : Exchanges(d)' => Exchanges(d) /\ request'[d] = request[d]
  BY <1>u DEF Exchanges
<1>r. \A d \in AuthCalls : job'[d].at = "revoke" => job'[d] = job[d]
  BY <1>1
<1>3. TokensKnown'
  BY <1>u, <1>2, <1>n, <1>e, <1>r DEF WebInv, TokensKnown
<1>4. AnswersFresh'
  <2> SUFFICES ASSUME NEW e \in AuthCalls, Unread(e)'
               PROVE  /\ ~refreshTokens'[job'[e].id].revoked
                      /\ store.refresh # job'[e].id
                      /\ \A d \in AuthCalls :
                           /\ Exchanges(d)' => request'[d].refresh # job'[e].id
                           /\ job'[d].at = "revoke" \/ (Unread(d)' /\ d # e) => job'[d].id # job'[e].id
    BY <1>u DEF AnswersFresh
  <2>1. Unread(e) /\ job'[e] = job[e]
    BY <1>n
  <2>2. /\ ~refreshTokens[job[e].id].revoked
        /\ store.refresh # job[e].id
        /\ \A d \in AuthCalls :
             /\ Exchanges(d) => request[d].refresh # job[e].id
             /\ job[d].at = "revoke" \/ (Unread(d) /\ d # e) => job[d].id # job[e].id
    BY <2>1 DEF WebInv, AnswersFresh
  <2>3. job[e].id \in DOMAIN refreshTokens /\ job[e].id # i
    BY <1>u, <2>1, <2>2 DEF WebInv, TokensKnown
  <2> QED
    BY <1>2, <1>n, <1>e, <1>r, <2>1, <2>2, <2>3
<1>5. RevokedByOwner'
  BY <1>u, <1>r DEF WebInv, RevokedByOwner, Exchanging
<1>6. StoredTokenLives'
  <2> SUFFICES ASSUME store.refresh # 0, refreshTokens'[store.refresh].revoked,
                      store.refresh \notin abandoned
               PROVE  \E d \in AuthCalls : Exchanging(d, store.refresh)
    BY <1>u DEF StoredTokenLives, Exchanging
  <2>1. CASE store.refresh = i
    BY <1>u, <2>1 DEF WebInv, RevokedByOwner
  <2>2. CASE store.refresh # i
    <3>1. store.refresh \in DOMAIN refreshTokens
      BY <1>t DEF WebInv, TokensKnown
    <3>2. refreshTokens[store.refresh].revoked
      BY <1>2, <2>2, <3>1
    <3> QED
      BY <3>2 DEF WebInv, StoredTokenLives, Exchanging
  <2> QED
    BY <2>1, <2>2
<1> QED
  BY <1>3, <1>4, <1>5, <1>6

\* A token issued is one that nobody has named before.
LEMMA TokenIssued ==
  ASSUME WebInv, NEW c \in AuthCalls, Issue(c), UNCHANGED clientVars
  PROVE  TokensKnown' /\ AnswersFresh' /\ RevokedByOwner' /\ StoredTokenLives'
<1> DEFINE n == Len(refreshTokens) + 1
<1>t. job \in [AuthCalls -> Job] /\ refreshTokens \in Seq(RefreshToken)
      /\ Len(refreshTokens) \in Nat /\ DOMAIN refreshTokens = 1..Len(refreshTokens)
  BY TabTyped DEF WebInv, SessionsTypeOK
<1>u. job[c].at = "issue" /\ UNCHANGED <<store, request, abandoned>>
  BY DEF Issue, clientVars
<1>1. /\ job'[c].at = "idle" /\ job'[c].id = n
      /\ \A d \in AuthCalls \ {c} : job'[d] = job[d]
  <2>1. Answer(c, n)
    BY DEF Issue
  <2>2. [NoJob EXCEPT !.id = n].at = "idle" /\ [NoJob EXCEPT !.id = n].id = n
    BY DEF NoJob
  <2> HIDE DEF n
  <2> QED
    BY <1>t, <2>1, <2>2 DEF Answer
<1>2. /\ Len(refreshTokens') = n /\ ~refreshTokens'[n].revoked
      /\ DOMAIN refreshTokens' = DOMAIN refreshTokens \cup {n} /\ n \notin DOMAIN refreshTokens
      /\ \A i \in DOMAIN refreshTokens : refreshTokens'[i] = refreshTokens[i]
  <2> DEFINE e == [user |-> job[c].user, revoked |-> FALSE, expires |-> clock + RefreshLife,
                   issued |-> job[c].code, until |-> MayLast(job[c].user),
                   from |-> job[c].id]
  <2>1. /\ job[c].user \in Users /\ job[c].id \in Nat /\ job[c].code \in Nat
        /\ clock \in Nat /\ RefreshLife \in Nat
    BY <1>t, SessionsAssumption DEF WebInv, SessionsTypeOK, Job
  <2>2. MayLast(job[c].user) \in Nat
    BY <2>1, PasswordKnown DEF WebInv, MayLast
  <2>3. e \in RefreshToken /\ ~e.revoked
    BY <2>1, <2>2 DEF RefreshToken
  <2>4. refreshTokens' = Append(refreshTokens, e)
    BY DEF Issue
  <2> HIDE DEF e
  <2> QED
    BY <1>t, <2>3, <2>4, Appended
<1>n. \A d \in AuthCalls : Unread(d)' =>
        (d = c /\ job'[d].id = n) \/ (d # c /\ Unread(d) /\ job'[d] = job[d])
  BY <1>1, <1>u DEF Unread, Ready
<1>e. \A d \in AuthCalls : Exchanges(d)' => Exchanges(d) /\ request'[d] = request[d]
  BY <1>u DEF Exchanges
<1>r. \A d \in AuthCalls : job'[d].at = "revoke" => job'[d] = job[d]
  BY <1>1
<1>o. /\ store.refresh # n
      /\ \A d \in AuthCalls :
           /\ Exchanges(d) => request[d].refresh \in DOMAIN refreshTokens
           /\ job[d].at = "revoke" \/ Unread(d) => job[d].id \in DOMAIN refreshTokens
  BY <1>t DEF WebInv, TokensKnown
<1>3. TokensKnown'
  <2>1. store'.refresh \in 0..Len(refreshTokens')
    BY <1>t, <1>u, <1>2 DEF WebInv, TokensKnown
  <2> HIDE DEF n
  <2> QED
    BY <2>1, <1>2, <1>n, <1>e, <1>r, <1>o DEF TokensKnown
<1> HIDE DEF n
<1>4. AnswersFresh'
  <2> SUFFICES ASSUME NEW e \in AuthCalls, Unread(e)'
               PROVE  /\ ~refreshTokens'[job'[e].id].revoked
                      /\ store.refresh # job'[e].id
                      /\ \A d \in AuthCalls :
                           /\ Exchanges(d)' => request'[d].refresh # job'[e].id
                           /\ job'[d].at = "revoke" \/ (Unread(d)' /\ d # e) => job'[d].id # job'[e].id
    BY <1>u DEF AnswersFresh
  <2>1. CASE e = c
    BY <2>1, <1>2, <1>n, <1>e, <1>r, <1>o
  <2>2. CASE e # c
    <3>1. Unread(e) /\ job'[e] = job[e]
      BY <2>2, <1>n
    <3>2. /\ ~refreshTokens[job[e].id].revoked
          /\ store.refresh # job[e].id
          /\ \A d \in AuthCalls :
               /\ Exchanges(d) => request[d].refresh # job[e].id
               /\ job[d].at = "revoke" \/ (Unread(d) /\ d # e) => job[d].id # job[e].id
      BY <3>1 DEF WebInv, AnswersFresh
    <3> QED
      BY <1>2, <1>n, <1>e, <1>r, <1>o, <3>1, <3>2
  <2> QED
    BY <2>1, <2>2
<1>5. RevokedByOwner'
  BY <1>u, <1>r DEF WebInv, RevokedByOwner, Exchanging
<1>6. StoredTokenLives'
  <2>1. store.refresh # 0 => store.refresh \in DOMAIN refreshTokens
    BY <1>t DEF WebInv, TokensKnown
  <2> QED
    BY <1>u, <1>2, <2>1 DEF WebInv, StoredTokenLives
<1> QED
  BY <1>3, <1>4, <1>5, <1>6

\* The calls of the API stay well typed, whatever the tab does.
LEMMA CallsTyped ==
  ASSUME WebInv, WebNext
  PROVE  SessionsTypeOK'
<1>t. SessionsTypeOK /\ TokensKnown
  BY DEF WebInv
<1>1. ASSUME UNCHANGED sessionVars PROVE SessionsTypeOK'
  BY <1>1, <1>t, TypeNext
<1>2. ASSUME NEW c \in AuthCalls, OpenSession(c) \/ TokenSteps(c) \/ CrashCall(c)
      PROVE  SessionsTypeOK'
  BY <1>2, <1>t, TypeNext DEF SessionsNext, TokenNext
<1>3. ASSUME NEW c \in AuthCalls, TryRefresh(c) PROVE SessionsTypeOK'
  <2>1. request[c].refresh \in DOMAIN refreshTokens
    BY <1>3, <1>t DEF TryRefresh, TokensKnown, Exchanges
  <2>2. RefreshReads(c, request[c].refresh)
    BY <1>3 DEF TryRefresh
  <2> QED
    BY <1>t, <2>1, <2>2, TypeNext DEF SessionsNext, TokenNext
<1>4. ASSUME NEW c \in AuthCalls, ReadAnswer(c) PROVE SessionsTypeOK'
  <2>1. NoJob \in Job
    BY SessionsAssumption DEF NoJob, Job, JobStep
  <2> QED
    BY <1>t, <1>4, <2>1 DEF ReadAnswer, SessionsTypeOK
<1>5. ASSUME NEW c \in AuthCalls,
             \/ Ask(c) \/ AskSession(c) \/ TabSteps(c) \/ LoseAnswer(c) \/ ServerSteps(c)
      PROVE  \/ UNCHANGED sessionVars \/ ReadAnswer(c) \/ TryRefresh(c)
             \/ OpenSession(c) \/ TokenSteps(c) \/ CrashCall(c)
  BY <1>5 DEF Ask, AskSession, TabSteps, Serve, ServeSession, SessionOpened, HandleDenied,
              Refreshed, LoseAnswer, ServerSteps
<1> QED
  BY <1>1, <1>2, <1>3, <1>4, <1>5 DEF WebNext, LoadPageAgain, LogoutOfTab, ExpireAccess

LEMMA WebInvariant == WebSpec => []WebInv
<1>1. WebInit => WebInv
  <2> SUFFICES ASSUME WebInit PROVE WebInv
    OBVIOUS
  <2>1. SessionsTypeOK /\ refreshTokens = <<>> /\ job = [c \in AuthCalls |-> NoJob]
    BY TypeInit DEF WebInit, SessionsInit
  <2>2. /\ store = NoTokens /\ NoTokens \in [access: Nat, refresh: Nat] /\ store.refresh = 0
        /\ request = [c \in AuthCalls |-> NoRequest]
        /\ NoRequest \in Request /\ NoRequest.at = "idle" /\ NoJob.at = "idle"
    BY RequestsTyped DEF WebInit, TokenPair, NoTokens, NoJob
  <2>3. WebTypeOK
    BY <2>2 DEF WebInit, WebTypeOK
  <2>4. 0 \in 0..Len(refreshTokens)
    BY <2>1
  <2>5. TokensKnown /\ AnswersFresh /\ RevokedByOwner /\ StoredTokenLives
    BY <2>1, <2>2, <2>4
       DEF TokensKnown, AnswersFresh, RevokedByOwner, StoredTokenLives, Exchanges, Unread
  <2> QED
    BY <2>1, <2>3, <2>5 DEF WebInv
<1>2. WebInv /\ [WebNext]_webVars => WebInv'
  <2>1. ASSUME WebInv, WebNext PROVE WebInv'
    <3>1. SessionsTypeOK'
      BY <2>1, CallsTyped
    <3>2. stale' \subseteq Nat
      <4>1. stale \subseteq Nat /\ DOMAIN refreshTokens \subseteq Nat
        BY <2>1 DEF WebInv, WebTypeOK, SessionsTypeOK
      <4> QED
        BY <2>1, <4>1
           DEF WebNext, Ask, AskSession, TabSteps, Serve, ServeSession, SessionOpened, HandleDenied,
               TryRefresh, Refreshed, LoseAnswer, ServerSteps, clientVars, LoadPageAgain,
               LogoutOfTab, ExpireAccess
    <3>3. ClientTyped /\ TokensKnown' /\ AnswersFresh' /\ RevokedByOwner' /\ StoredTokenLives'
      <4>1. CASE \E c \in AuthCalls : Ask(c) \/ AskSession(c) \/ Serve(c) \/ ServeSession(c)
        BY <2>1, <4>1, TabAsks
      <4>2. CASE \E c \in AuthCalls : HandleDenied(c)
        BY <2>1, <4>2, TabDenied
      <4>3. CASE \E c \in AuthCalls : TryRefresh(c)
        BY <2>1, <4>3, ExchangeSent
      <4>4. CASE \E c \in AuthCalls : SessionOpened(c) \/ Refreshed(c)
        BY <2>1, <4>4, AnswerRead
      <4>5. CASE \/ \E c \in AuthCalls : LoseAnswer(c) \/ (CrashCall(c) /\ UNCHANGED clientVars)
                 \/ LoadPageAgain \/ LogoutOfTab \/ ExpireAccess
        BY <2>1, <4>5, TabForgets
      <4>6. ASSUME UNCHANGED clientVars PROVE ClientTyped
        BY <2>1, <4>6, TabTyped DEF clientVars, ClientTyped
      <4>7. CASE \E c \in AuthCalls : Revoke(c) /\ UNCHANGED clientVars
        BY <2>1, <4>6, <4>7, TokenRevoked
      <4>8. CASE \E c \in AuthCalls : Issue(c) /\ UNCHANGED clientVars
        BY <2>1, <4>6, <4>8, TokenIssued
      <4> QED
        BY <2>1, <4>1, <4>2, <4>3, <4>4, <4>5, <4>7, <4>8
           DEF WebNext, TabSteps, ServerSteps, TokenSteps
    <3>4. WebTypeOK'
      BY <3>2, <3>3 DEF ClientTyped, WebTypeOK, TokenPair
    <3> QED
      BY <3>1, <3>3, <3>4 DEF WebInv
  <2>2. ASSUME WebInv, UNCHANGED webVars PROVE WebInv'
    BY <2>2 DEF WebInv, webVars, clientVars, sessionVars, SessionsTypeOK, WebTypeOK, TokensKnown,
                AnswersFresh, RevokedByOwner, StoredTokenLives, Exchanges, Exchanging, Unread, Ready
  <2> QED
    BY <2>1, <2>2
<1> QED
  BY <1>1, <1>2, PTL DEF WebSpec

(* The tokens stored, the requests of the tab and the tokens whose         *)
(* exchange it has forgotten are well typed, while the API answers.        *)
THEOREM ClientTypeCorrect == WebSpec => []WebTypeOK
<1>1. WebInv => WebTypeOK
  BY DEF WebInv
<1> QED
  BY <1>1, WebInvariant, PTL

(* The refresh token kept by the browser is one the API would exchange,    *)
(* unless its exchange is in progress or was cut by a load of the page     *)
(* (apiClient.ts:48-54, 94-114).                                           *)
THEOREM TokenStaysUsable == WebSpec => []StoredTokenLives
<1>1. WebInv => StoredTokenLives
  BY DEF WebInv
<1> QED
  BY <1>1, WebInvariant, PTL

-----------------------------------------------------------------------------
(* Screens.                                                                *)

(* The tables, read.  Each name is served by the one controller that has   *)
(* it, and refreshed by the one hook.                                      *)
LEMMA Controllers ==
  /\ DOMAIN SalesController = {"sales", "createSale"}
  /\ DOMAIN StockController = {"movements", "alerts", "recordIn", "recordOut", "adjust"}
  /\ DOMAIN ProductsController =
       {"products", "product", "createProduct", "importProducts", "updateProduct",
        "archiveProduct"}
  /\ DOMAIN PurchaseOrdersController = {"purchases", "createPurchase", "receive", "cancel"}
  /\ DOMAIN SuppliersController = {"suppliers", "createSupplier"}
  /\ DOMAIN ExpensesController = {"expenses", "createExpense"}
  /\ DOMAIN FinanceController = {"summary", "profitability", "trend"}
  /\ DOMAIN FraudController = {"anomalies"}
  /\ DOMAIN ForecastController = {"forecast"}
  /\ DOMAIN PurchasingController = {"recommendations"}
  /\ DOMAIN CommercialController = {"toPush", "insights", "crossSell"}
  /\ DOMAIN ReportsController = {"dailyList", "daily", "monthly", "downloadPdf"}
  /\ DOMAIN CopilotController = {"chat", "advise"}
  /\ DOMAIN WhatsAppController = {"sendReport"}
  /\ DOMAIN UsersController = {"users"}
  /\ DOMAIN InvitesController = {"invites", "createInvite"}
  /\ DOMAIN OrganizationsController = {"organization"}
  /\ DOMAIN BillingController =
       {"plans", "subscription", "transactions", "checkout", "settle"}
  BY DEF SalesController, StockController, ProductsController, PurchaseOrdersController,
     SuppliersController, ExpensesController, FinanceController, FraudController,
     ForecastController, PurchasingController, CommercialController, ReportsController,
     CopilotController, WhatsAppController, UsersController, InvitesController,
     OrganizationsController, BillingController

LEMMA HooksDomains ==
  /\ DOMAIN SalesHooks = {"createSale"}
  /\ DOMAIN StockHooks = {"recordIn", "recordOut", "adjust"}
  /\ DOMAIN ProductsHooks =
       {"createProduct", "importProducts", "updateProduct", "archiveProduct"}
  /\ DOMAIN PurchasesHooks = {"createPurchase", "receive", "cancel"}
  /\ DOMAIN SuppliersHooks = {"createSupplier"}
  /\ DOMAIN ExpensesHooks = {"createExpense"}
  /\ DOMAIN InvitesHooks = {"createInvite"}
  /\ DOMAIN BillingHooks = {"checkout", "settle"}
  /\ DOMAIN CopilotHooks = {"chat", "advise", "downloadPdf", "sendReport"}
  BY DEF SalesHooks, StockHooks, ProductsHooks, PurchasesHooks, SuppliersHooks,
     ExpensesHooks, InvitesHooks, BillingHooks, CopilotHooks

LEMMA ServedOnce ==
  /\ \A n \in DOMAIN SalesController : Served(n) = SalesController[n]
  /\ \A n \in DOMAIN StockController : Served(n) = StockController[n]
  /\ \A n \in DOMAIN ProductsController : Served(n) = ProductsController[n]
  /\ \A n \in DOMAIN PurchaseOrdersController : Served(n) = PurchaseOrdersController[n]
  /\ \A n \in DOMAIN SuppliersController : Served(n) = SuppliersController[n]
  /\ \A n \in DOMAIN ExpensesController : Served(n) = ExpensesController[n]
  /\ \A n \in DOMAIN FinanceController : Served(n) = FinanceController[n]
  /\ \A n \in DOMAIN FraudController : Served(n) = FraudController[n]
  /\ \A n \in DOMAIN ForecastController : Served(n) = ForecastController[n]
  /\ \A n \in DOMAIN PurchasingController : Served(n) = PurchasingController[n]
  /\ \A n \in DOMAIN CommercialController : Served(n) = CommercialController[n]
  /\ \A n \in DOMAIN ReportsController : Served(n) = ReportsController[n]
  /\ \A n \in DOMAIN CopilotController : Served(n) = CopilotController[n]
  /\ \A n \in DOMAIN WhatsAppController : Served(n) = WhatsAppController[n]
  /\ \A n \in DOMAIN UsersController : Served(n) = UsersController[n]
  /\ \A n \in DOMAIN InvitesController : Served(n) = InvitesController[n]
  /\ \A n \in DOMAIN OrganizationsController : Served(n) = OrganizationsController[n]
  /\ \A n \in DOMAIN BillingController : Served(n) = BillingController[n]
  BY Controllers DEF Served

LEMMA HookedOnce ==
  /\ \A m \in DOMAIN SalesHooks : Hooks(m) = SalesHooks[m]
  /\ \A m \in DOMAIN StockHooks : Hooks(m) = StockHooks[m]
  /\ \A m \in DOMAIN ProductsHooks : Hooks(m) = ProductsHooks[m]
  /\ \A m \in DOMAIN PurchasesHooks : Hooks(m) = PurchasesHooks[m]
  /\ \A m \in DOMAIN SuppliersHooks : Hooks(m) = SuppliersHooks[m]
  /\ \A m \in DOMAIN ExpensesHooks : Hooks(m) = ExpensesHooks[m]
  /\ \A m \in DOMAIN InvitesHooks : Hooks(m) = InvitesHooks[m]
  /\ \A m \in DOMAIN BillingHooks : Hooks(m) = BillingHooks[m]
  /\ \A m \in DOMAIN CopilotHooks : Hooks(m) = CopilotHooks[m]
  BY HooksDomains DEF Hooks

(* Who may ask what.                                                       *)
ForEveryone ==
  {"products", "product", "movements", "alerts", "sales", "purchases", "suppliers", "users",
   "forecast", "recommendations", "toPush", "insights", "crossSell", "organization", "plans"}
ForFinance ==
  {"expenses", "summary", "profitability", "trend", "anomalies", "dailyList", "daily",
   "monthly"}
ForBilling == {"subscription", "transactions"}

LEMMA QueryRoles ==
  /\ \A q \in ForEveryone : Served(q).roles = Role
  /\ \A q \in ForFinance : Served(q).roles = FinanceRoles
  /\ \A q \in ForBilling : Served(q).roles = BillingRoles
  /\ Served("invites").roles = {"OWNER"}
<1>1. \A q \in {"sales", "movements", "alerts", "products", "product", "purchases", "suppliers"} :
        Served(q).roles = Role
  BY Controllers, ServedOnce DEF SalesController, StockController, ProductsController,
     PurchaseOrdersController, SuppliersController, Endpoint
<1>2. \A q \in {"users", "forecast", "recommendations", "toPush", "insights", "crossSell",
                "organization", "plans"} : Served(q).roles = Role
  BY Controllers, ServedOnce DEF UsersController, ForecastController, PurchasingController,
     CommercialController, OrganizationsController, BillingController, Endpoint, Skipped
<1>3. \A q \in ForFinance : Served(q).roles = FinanceRoles
  BY Controllers, ServedOnce DEF ForFinance, ExpensesController, FinanceController,
     FraudController, ReportsController, Endpoint
<1>4. \A q \in ForBilling : Served(q).roles = BillingRoles
  BY Controllers, ServedOnce DEF ForBilling, BillingController, Skipped
<1>5. Served("invites").roles = {"OWNER"}
  BY Controllers, ServedOnce DEF InvitesController, Endpoint
<1> QED
  BY <1>1, <1>2, <1>3, <1>4, <1>5 DEF ForEveryone

(* What a change writes.                                                   *)
LEMMA ChangeRoles ==
  /\ Served("createSale").roles = SalesRoles
  /\ \A m \in UNION {DOMAIN StockHooks, DOMAIN ProductsHooks, DOMAIN PurchasesHooks} :
       Served(m).roles = StockRoles
  /\ \A m \in {"createSupplier", "createExpense", "chat", "advise", "downloadPdf", "sendReport"} :
       Served(m).roles = FinanceRoles
  /\ Served("createInvite").roles = {"OWNER"}
  /\ \A m \in {"checkout", "settle"} : Served(m).roles = BillingRoles
<1>1. /\ Served("createSale").roles = SalesRoles
      /\ \A m \in UNION {DOMAIN StockHooks, DOMAIN ProductsHooks, DOMAIN PurchasesHooks} :
           Served(m).roles = StockRoles
  BY Controllers, ServedOnce, HooksDomains
  DEF SalesController, StockController, ProductsController, PurchaseOrdersController, Endpoint
<1>2. \A m \in {"createSupplier", "createExpense", "chat", "advise", "downloadPdf", "sendReport"} :
        Served(m).roles = FinanceRoles
  BY Controllers, ServedOnce
  DEF SuppliersController, ExpensesController, CopilotController, ReportsController,
      WhatsAppController, Endpoint
<1>3. /\ Served("createInvite").roles = {"OWNER"}
      /\ \A m \in {"checkout", "settle"} : Served(m).roles = BillingRoles
  BY Controllers, ServedOnce DEF InvitesController, BillingController, Endpoint, Skipped
<1> QED
  BY <1>1, <1>2, <1>3

LEMMA ChangeFeatures ==
  \A m \in Mutation :
    Served(m).feature = IF m = "sendReport" THEN "WHATSAPP"
                        ELSE IF m = "downloadPdf" THEN "REPORTS_STANDARD" ELSE "CORE"
<1>1. \A m \in {"createSale", "recordIn", "recordOut", "adjust", "createProduct",
                "importProducts", "updateProduct", "archiveProduct", "createPurchase",
                "receive", "cancel", "createSupplier"} : Served(m).feature = "CORE"
  BY Controllers, ServedOnce
  DEF SalesController, StockController, ProductsController, PurchaseOrdersController,
      SuppliersController, Endpoint
<1>2. /\ \A m \in {"createExpense", "createInvite", "chat", "advise", "checkout", "settle"} :
           Served(m).feature = "CORE"
      /\ Served("sendReport").feature = "WHATSAPP"
      /\ Served("downloadPdf").feature = "REPORTS_STANDARD"
  BY Controllers, ServedOnce
  DEF ExpensesController, InvitesController, CopilotController, BillingController,
      WhatsAppController, ReportsController, Endpoint, Skipped
<1> QED
  BY <1>1, <1>2, HooksDomains DEF Mutation

LEMMA QueryTables ==
  /\ \A q \in {"products", "product", "alerts"} : Served(q).tables = {"product"}
  /\ Served("movements").tables = {"movement"}
  /\ Served("sales").tables = {"sale"}
  /\ Served("purchases").tables = {"order"}
  /\ Served("suppliers").tables = {"supplier"}
  /\ Served("expenses").tables = {"expense"}
  /\ Served("invites").tables = {"invite"}
  /\ Served("subscription").tables = {"subscription"}
  /\ Served("transactions").tables = {"payment"}
  BY Controllers, ServedOnce
  DEF SalesController, StockController, ProductsController, PurchaseOrdersController,
      SuppliersController, ExpensesController, InvitesController, BillingController,
      Endpoint, Skipped

LEMMA ChangeTables ==
  /\ Served("createSale").tables = {"sale", "product", "movement"}
  /\ \A m \in DOMAIN StockHooks : Served(m).tables = {"product", "movement"}
  /\ \A m \in DOMAIN ProductsHooks : Served(m).tables = {"product"}
  /\ \A m \in {"createPurchase", "cancel"} : Served(m).tables = {"order"}
  /\ Served("receive").tables = {"order", "product", "movement"}
  /\ Served("createSupplier").tables = {"supplier"}
  /\ Served("createExpense").tables = {"expense"}
  /\ Served("createInvite").tables = {"invite"}
  /\ Served("checkout").tables = {"payment"}
  /\ Served("settle").tables = {"payment", "subscription"}
  /\ \A m \in DOMAIN CopilotHooks : Served(m).tables = {}
<1>1. /\ Served("createSale").tables = {"sale", "product", "movement"}
      /\ \A m \in DOMAIN StockHooks : Served(m).tables = {"product", "movement"}
      /\ \A m \in DOMAIN ProductsHooks : Served(m).tables = {"product"}
  BY Controllers, ServedOnce, HooksDomains
  DEF SalesController, StockController, ProductsController, Endpoint
<1>2. /\ \A m \in {"createPurchase", "cancel"} : Served(m).tables = {"order"}
      /\ Served("receive").tables = {"order", "product", "movement"}
      /\ Served("createSupplier").tables = {"supplier"}
  BY Controllers, ServedOnce DEF PurchaseOrdersController, SuppliersController, Endpoint
<1>3. /\ Served("createExpense").tables = {"expense"}
      /\ Served("createInvite").tables = {"invite"}
      /\ Served("checkout").tables = {"payment"}
      /\ Served("settle").tables = {"payment", "subscription"}
  BY Controllers, ServedOnce
  DEF ExpensesController, InvitesController, BillingController, Endpoint, Skipped
<1>4. \A m \in DOMAIN CopilotHooks : Served(m).tables = {}
  BY Controllers, ServedOnce, HooksDomains
  DEF CopilotController, ReportsController, WhatsAppController, Endpoint
<1> QED
  BY <1>1, <1>2, <1>3, <1>4

LEMMA KeysBegin ==
  /\ \A q \in {"products", "product"} : Begins(<<"products">>, QueryKeys[q])
  /\ Begins(<<"stock", "movements">>, QueryKeys["movements"])
  /\ Begins(<<"stock", "alerts">>, QueryKeys["alerts"])
  /\ Begins(<<"sales">>, QueryKeys["sales"])
  /\ Begins(<<"purchases">>, QueryKeys["purchases"])
  /\ Begins(<<"suppliers">>, QueryKeys["suppliers"])
  /\ Begins(<<"expenses">>, QueryKeys["expenses"])
  /\ Begins(<<"organization", "invites">>, QueryKeys["invites"])
  /\ Begins(<<"billing", "subscription">>, QueryKeys["subscription"])
  /\ Begins(<<"billing", "transactions">>, QueryKeys["transactions"])
  BY DEF Begins, QueryKeys

(* A change refreshes every list of records it touches, but for the        *)
(* products created or changed, which do not refresh the alerts.           *)
LEMMA Refreshes ==
  ASSUME viewer.query \in Records, NEW m \in Mutation, Touches(m),
         ~(m \in DOMAIN ProductsHooks /\ viewer.query = "alerts")
  PROVE  Invalidates(m)
<1> DEFINE q == viewer.query
<1>1. CASE m \in DOMAIN SalesHooks
  <2>1. Hooks(m) = {<<"sales">>} \cup StockKeys /\ q \in {"products", "product", "alerts", "movements", "sales"}
    BY <1>1, HookedOnce, HooksDomains, QueryTables, ChangeTables DEF SalesHooks, Touches, Records
  <2> QED
    BY <2>1, KeysBegin DEF Invalidates, StockKeys
<1>2. CASE m \in DOMAIN StockHooks
  <2>1. Hooks(m) = StockKeys /\ q \in {"products", "product", "alerts", "movements"}
    BY <1>2, HookedOnce, HooksDomains, QueryTables, ChangeTables DEF StockHooks, Touches, Records
  <2> QED
    BY <2>1, KeysBegin DEF Invalidates, StockKeys
<1>3. CASE m \in DOMAIN ProductsHooks
  <2>1. Hooks(m) = {<<"products">>} /\ q \in {"products", "product"}
    BY <1>3, HookedOnce, HooksDomains, QueryTables, ChangeTables DEF ProductsHooks, Touches, Records
  <2> QED
    BY <2>1, KeysBegin DEF Invalidates
<1>4. CASE m \in DOMAIN PurchasesHooks
  <2>1. CASE m = "receive"
    <3>1. Hooks(m) = {<<"purchases">>} \cup StockKeys
          /\ q \in {"products", "product", "alerts", "movements", "purchases"}
      BY <1>4, <2>1, HookedOnce, HooksDomains, QueryTables, ChangeTables
      DEF PurchasesHooks, Touches, Records
    <3> QED
      BY <3>1, KeysBegin DEF Invalidates, StockKeys
  <2>2. CASE m # "receive"
    <3>1. Hooks(m) = {<<"purchases">>} /\ q = "purchases"
      BY <1>4, <2>2, HookedOnce, HooksDomains, QueryTables, ChangeTables
      DEF PurchasesHooks, Touches, Records
    <3> QED
      BY <3>1, KeysBegin DEF Invalidates
  <2> QED
    BY <2>1, <2>2
<1>5. CASE m \in DOMAIN SuppliersHooks
  <2>1. Hooks(m) = {<<"suppliers">>} /\ q = "suppliers"
    BY <1>5, HookedOnce, HooksDomains, QueryTables, ChangeTables DEF SuppliersHooks, Touches, Records
  <2> QED
    BY <2>1, KeysBegin DEF Invalidates
<1>6. CASE m \in DOMAIN ExpensesHooks
  <2>1. Hooks(m) = {<<"expenses">>, <<"finance">>} /\ q = "expenses"
    BY <1>6, HookedOnce, HooksDomains, QueryTables, ChangeTables DEF ExpensesHooks, Touches, Records
  <2> QED
    BY <2>1, KeysBegin DEF Invalidates
<1>7. CASE m \in DOMAIN InvitesHooks
  <2>1. Hooks(m) = {<<"organization", "invites">>} /\ q = "invites"
    BY <1>7, HookedOnce, HooksDomains, QueryTables, ChangeTables DEF InvitesHooks, Touches, Records
  <2> QED
    BY <2>1, KeysBegin DEF Invalidates
<1>8. CASE m \in DOMAIN BillingHooks
  <2>1. /\ <<"billing", "transactions">> \in Hooks(m)
        /\ m = "settle" => <<"billing", "subscription">> \in Hooks(m)
        /\ q \in {"subscription", "transactions"} /\ (q = "subscription" => m = "settle")
    BY <1>8, HookedOnce, HooksDomains, QueryTables, ChangeTables DEF BillingHooks, Touches, Records
  <2> QED
    BY <2>1, KeysBegin DEF Invalidates
<1>9. CASE m \in DOMAIN CopilotHooks
  BY <1>9, ChangeTables DEF Touches
<1> QED
  BY <1>1, <1>2, <1>3, <1>4, <1>5, <1>6, <1>7, <1>8, <1>9 DEF Mutation

(* What a page asks depends on the role and on the features known only.    *)
LEMMA SameAsked ==
  ASSUME viewer'.role = viewer.role, known' = known, NEW p
  PROVE  Asked(p)' = Asked(p)
<1>1. \A roles : Has(roles)' = Has(roles)
  BY DEF Has
<1>2. \A f : Shows(f)' = Shows(f)
  BY DEF Shows
<1>3. DashboardPage.asks' = DashboardPage.asks /\ DashboardAsks' = DashboardAsks
  BY <1>1, <1>2 DEF DashboardPage, DashboardAsks, When, Has, Shows
<1>4. StockPage.asks' = StockPage.asks
  BY DEF StockPage, StockAsks, PurchaseOrderForm
<1>5. CommercialPage.asks' = CommercialPage.asks
  BY <1>2 DEF CommercialPage, When, Shows
<1>6. FinancePage.asks' = FinancePage.asks
  BY <1>2 DEF FinancePage, FinanceAsks, When, Shows
<1>7. CopilotPage.asks' = CopilotPage.asks
  BY <1>2 DEF CopilotPage, CopilotAsks, When, Shows, PurchaseOrderForm
<1>8. UsersPage.asks' = UsersPage.asks
  BY <1>1 DEF UsersPage, When, Has, InviteTeamPanel
<1>9. /\ ProductsPage.asks' = ProductsPage.asks
      /\ ProductDetailPage.asks' = ProductDetailPage.asks
      /\ SalesPage.asks' = SalesPage.asks
      /\ SaleDetailPage.asks' = SaleDetailPage.asks
      /\ PurchasesPage.asks' = PurchasesPage.asks
      /\ PurchaseOrderDetailPage.asks' = PurchaseOrderDetailPage.asks
      /\ ReportsPage.asks' = ReportsPage.asks
      /\ BillingPage.asks' = BillingPage.asks
  BY DEF ProductsPage, ProductDetailPage, SalesPage, SaleDetailPage, PurchasesPage,
         PurchaseOrderDetailPage, ReportsPage, BillingPage, SaleForm, PurchaseOrderForm,
         DailyReportDetail, PaymentModal
<1> QED
  BY <1>3, <1>4, <1>5, <1>6, <1>7, <1>8, <1>9 DEF Asked, Page, Screen

LEMMA RolesOrder ==
  /\ BillingRoles \subseteq FinanceRoles /\ FinanceRoles \subseteq StockRoles
  /\ FinanceRoles \subseteq SalesRoles /\ StockRoles \subseteq Role /\ SalesRoles \subseteq Role
  BY DEF BillingRoles, FinanceRoles, StockRoles, SalesRoles, Role

(* What the role allows to ask, by the table of the controllers.           *)
MayAsk(q) ==
  \/ q \in ForEveryone
  \/ q \in ForFinance /\ Has(FinanceRoles)
  \/ q \in ForBilling /\ Has(BillingRoles)
  \/ q = "invites" /\ Has({"OWNER"})

LEMMA AskedIsAllowed ==
  ASSUME viewer.role \in Role, NEW q, MayAsk(q)
  PROVE  viewer.role \in Served(q).roles
  BY QueryRoles DEF MayAsk, Has

LEMMA PageAsks ==
  ASSUME viewer.role \in Role, NEW p \in Screen, viewer.role \in RouteRoles(p), NEW q \in Asked(p)
  PROVE  MayAsk(q)
<1>1. CASE p \in {"finance", "copilot", "reports"}
  <2>1. Has(FinanceRoles)
    BY <1>1 DEF RouteRoles, Has
  <2>2. CASE p = "finance"
    BY <2>1, <2>2 DEF Asked, Page, FinancePage, FinanceAsks, When, ForEveryone, ForFinance, MayAsk
  <2>3. CASE p = "copilot"
    BY <2>1, <2>3 DEF Asked, Page, CopilotPage, CopilotAsks, PurchaseOrderForm, When, ForEveryone,
       ForFinance, MayAsk
  <2>4. CASE p = "reports"
    BY <2>1, <2>4 DEF Asked, Page, ReportsPage, DailyReportDetail, ForEveryone, ForFinance, MayAsk
  <2> QED
    BY <1>1, <2>2, <2>3, <2>4
<1>2. CASE p = "billing"
  <2>1. Has(BillingRoles)
    BY <1>2 DEF RouteRoles, Has
  <2> QED
    BY <1>2, <2>1 DEF Asked, Page, BillingPage, PaymentModal, ForEveryone, ForBilling, MayAsk
<1>3. CASE p = "dashboard"
  BY <1>3 DEF Asked, Page, DashboardPage, DashboardAsks, When, ForEveryone, ForFinance, MayAsk
<1>4. CASE p = "users"
  BY <1>4 DEF Asked, Page, UsersPage, InviteTeamPanel, When, ForEveryone, MayAsk
<1>5. CASE p = "stock"
  BY <1>5 DEF Asked, Page, StockPage, StockAsks, PurchaseOrderForm, ForEveryone, MayAsk
<1>6. CASE p = "commercial"
  BY <1>6 DEF Asked, Page, CommercialPage, When, ForEveryone, MayAsk
<1>7. CASE p \in {"products", "product", "sales", "sale"}
  BY <1>7 DEF Asked, Page, ProductsPage, ProductDetailPage, SalesPage, SaleDetailPage, SaleForm,
     ForEveryone, MayAsk
<1>8. CASE p \in {"purchases", "order"}
  BY <1>8 DEF Asked, Page, PurchasesPage, PurchaseOrderDetailPage, PurchaseOrderForm,
     ForEveryone, MayAsk
<1> QED
  BY <1>1, <1>2, <1>3, <1>4, <1>5, <1>6, <1>7, <1>8 DEF Screen

(* What the role and the features allow to send.                           *)
MaySend(m) ==
  /\ m \in Mutation
  /\ m = "sendReport" => Shows("WHATSAPP")
  /\ \/ m = "createSale" /\ Has(SalesRoles)
     \/ m \in UNION {DOMAIN StockHooks, DOMAIN ProductsHooks, DOMAIN PurchasesHooks}
        /\ Has(StockRoles)
     \/ m \in {"createSupplier", "createExpense", "chat", "advise", "downloadPdf", "sendReport"}
        /\ Has(FinanceRoles)
     \/ m = "createInvite" /\ Has({"OWNER"})
     \/ m \in {"checkout", "settle"} /\ Has(BillingRoles)

LEMMA SentIsAccepted ==
  ASSUME viewer.role \in Role, viewer.standing \in {"TRIAL", "STANDARD", "PRO"},
         known = Features(viewer.standing), NEW m, MaySend(m)
  PROVE  Accepted(m)
<1>1. viewer.role \in Served(m).roles
  BY ChangeRoles DEF MaySend, Has
<1>2. Served(m).feature = "CORE" \/ Served(m).feature \in Features(viewer.standing)
  <2>1. "REPORTS_STANDARD" \in Features(viewer.standing)
    BY DEF Features, ProFeatures, StandardFeatures
  <2> QED
    BY <2>1, ChangeFeatures DEF MaySend, Shows
<1>3. ~SubscriptionRefuses(Served(m), viewer.standing)
  BY DEF SubscriptionRefuses
<1> QED
  BY <1>1, <1>2, <1>3 DEF Accepted

LEMMA Mutations ==
  Mutation = {"createSale", "recordIn", "recordOut", "adjust", "createProduct",
              "importProducts", "updateProduct", "archiveProduct", "createPurchase",
              "receive", "cancel", "createSupplier", "createExpense", "createInvite",
              "checkout", "settle", "chat", "advise", "downloadPdf", "sendReport"}
  BY HooksDomains DEF Mutation

LEMMA PageSends ==
  ASSUME viewer.role \in Role, NEW p \in Screen, viewer.role \in RouteRoles(p),
         NEW m \in Page(p).sends, <<p, m>> \notin OfferedToAll
  PROVE  MaySend(m)
<1> USE RolesOrder, Mutations, HooksDomains DEF MaySend, When
<1>1. CASE p = "finance"
  BY <1>1 DEF RouteRoles, Page, FinancePage, ExpenseForm, Has
<1>2. CASE p = "copilot"
  BY <1>2 DEF RouteRoles, Page, CopilotPage, RecommendationCards, PurchaseOrderForm, Has
<1>3. CASE p = "reports"
  BY <1>3 DEF RouteRoles, Page, ReportsPage, Has
<1>4. CASE p = "billing"
  BY <1>4 DEF RouteRoles, Page, BillingPage, PaymentModal, Has
<1>5. CASE p = "dashboard"
  <2>1. m # "createPurchase"
    BY <1>5 DEF OfferedToAll
  <2>2. m \in QuickActions \cup AttentionTable \cup CopilotCard \cup PerformanceCard
                \cup When(Has(StockRoles), ProductForm(FALSE).sends)
    BY <1>5 DEF Page, DashboardPage
  <2>3. CASE m \in QuickActions
    BY <2>3, <2>1 DEF QuickActions, SaleForm, ProductForm, StockMovementForm, PurchaseOrderForm
  <2>4. CASE m \in AttentionTable
    BY <2>4, <2>1 DEF AttentionTable, PurchaseOrderForm
  <2>5. CASE m \in CopilotCard \cup PerformanceCard
    BY <2>5 DEF CopilotCard, PerformanceCard, SaleForm
  <2>6. CASE m \in When(Has(StockRoles), ProductForm(FALSE).sends)
    BY <2>6 DEF ProductForm
  <2> QED
    BY <2>2, <2>3, <2>4, <2>5, <2>6
<1>6. CASE p = "products"
  BY <1>6 DEF Page, ProductsPage, ProductForm
<1>7. CASE p = "product"
  <2>1. m # "chat"
    BY <1>7 DEF OfferedToAll
  <2> QED
    BY <1>7, <2>1 DEF Page, ProductDetailPage, ProductForm
<1>8. CASE p = "stock"
  BY <1>8 DEF Page, StockPage, StockMovementForm, ReplenishmentTab, PurchaseOrderForm
<1>9. CASE p \in {"sales", "commercial"}
  BY <1>9 DEF Page, SalesPage, CommercialPage, SaleForm
<1>10. CASE p = "sale"
  <2>1. m # "chat"
    BY <1>10 DEF OfferedToAll
  <2> QED
    BY <1>10, <2>1 DEF Page, SaleDetailPage
<1>11. CASE p = "purchases"
  BY <1>11 DEF Page, PurchasesPage, PurchaseOrderForm, SupplierForm
<1>12. CASE p = "order"
  <2>1. m # "chat"
    BY <1>12 DEF OfferedToAll
  <2> QED
    BY <1>12, <2>1 DEF Page, PurchaseOrderDetailPage
<1>13. CASE p = "users"
  BY <1>13 DEF Page, UsersPage, InviteTeamPanel
<1> QED
  BY <1>1, <1>2, <1>3, <1>4, <1>5, <1>6, <1>7, <1>8, <1>9, <1>10, <1>11, <1>12, <1>13 DEF Screen

(* The screens: a page is displayed to those its route lets in.            *)
RouteKept == screen \in Screen => viewer.role \in RouteRoles(screen)

ScreensInv == ScreensTypeOK /\ RouteKept

LEMMA FeaturesGiven ==
  ASSUME NEW standing \in Standings \cup {"TRIAL"}
  PROVE  Features(standing) \subseteq ProFeatures
  BY ScreensAssumption DEF Features, ProFeatures, StandardFeatures

LEMMA EntryTypes ==
  ASSUME ScreensTypeOK
  PROVE  /\ NoEntry \in [got: BOOLEAN, held: Nat, fetch: {"none", "sent", "read", "refused", "expired"},
                         base: Nat, retry: BOOLEAN, failed: BOOLEAN, late: BOOLEAN]
         /\ NoChange \in [what: Mutation \cup {"none"}, at: {"none", "sent", "done"}, shown: BOOLEAN]
         /\ Fetch(entry) \in [got: BOOLEAN, held: Nat, fetch: {"none", "sent", "read", "refused", "expired"},
                              base: Nat, retry: BOOLEAN, failed: BOOLEAN, late: BOOLEAN]
  BY DEF ScreensTypeOK, NoEntry, NoChange, Fetch

LEMMA ScreensInvInit == ScreensInit => ScreensInv
<1> SUFFICES ASSUME ScreensInit PROVE ScreensInv
  OBVIOUS
<1>1. "organization" \in Query
  BY DEF Query, QueryKeys
<1>2. known \subseteq ProFeatures
  BY DEF ScreensInit
<1> QED
  BY <1>1, <1>2 DEF ScreensInit, ScreensInv, ScreensTypeOK, RouteKept, Role, NoEntry, NoChange, Screen

LEMMA ScreensInvNext == ScreensInv /\ [ScreensNext]_screenVars => ScreensInv'
<1> SUFFICES ASSUME ScreensInv, [ScreensNext]_screenVars PROVE ScreensInv'
  OBVIOUS
<1> USE DEF ScreensInv, ScreensTypeOK, RouteKept, Has
<1>1. CASE SignIn
  BY <1>1, ScreensAssumption DEF SignIn, Screen
<1>2. ASSUME NEW p \in Screen, Visit(p) PROVE ScreensInv'
  BY <1>2, EntryTypes DEF Visit, Mounted
<1>3. CASE LearnFeatures
  BY <1>3, EntryTypes, FeaturesGiven DEF LearnFeatures, Mounted
<1>4. CASE ChangeStanding
  BY <1>4 DEF ChangeStanding
<1>5. CASE ServeQuery \/ LoseQuery \/ Arrive
  BY ZenonT(40), <1>5 DEF ServeQuery, LoseQuery, Arrive
<1>6. CASE Fail
  <2>1. CASE UNCHANGED <<screen, known, change, told>>
    <3>1. entry' \in {[entry EXCEPT !.fetch = "sent", !.retry = TRUE],
                     [entry EXCEPT !.fetch = "none", !.failed = TRUE], NoEntry}
      BY <1>6 DEF Fail
    <3> QED
      BY ZenonT(40), <1>6, <2>1, <3>1, EntryTypes DEF Fail
  <2>2. CASE ~UNCHANGED <<screen, known, change, told>>
    <3>1. /\ screen' = "subscription-expired" /\ entry' = NoEntry /\ known' = {}
          /\ change' = NoChange /\ told' = 0 /\ UNCHANGED <<viewer, version>>
      BY <1>6, <2>2 DEF Fail
    <3>2. screen' \notin Screen
      BY <3>1 DEF Screen
    <3> QED
      BY <3>1, <3>2, EntryTypes
  <2> QED
    BY <2>1, <2>2
<1>7. ASSUME NEW m \in Mutation, SubmitMutation(m) PROVE ScreensInv'
  BY <1>7 DEF SubmitMutation, Displayed
<1>8. CASE Perform
  BY <1>8, EntryTypes DEF Perform
<1>9. CASE LoseChange
  BY <1>9, EntryTypes DEF LoseChange
<1>10. CASE Succeed
  BY ZenonT(40), <1>10, EntryTypes DEF Succeed, Refetched
<1>11. CASE UNCHANGED screenVars
  BY <1>11 DEF screenVars
<1> QED
  BY <1>1, <1>2, <1>3, <1>4, <1>5, <1>6, <1>7, <1>8, <1>9, <1>10, <1>11 DEF ScreensNext

LEMMA ScreensInvariant == ScreensSpec => []ScreensInv
  BY ScreensInvInit, ScreensInvNext, PTL DEF ScreensSpec

(* The pages, the cache entry followed and the change in progress are well *)
(* typed, for any users and any course of their organization's standing.   *)
THEOREM ScreensTypeCorrect == ScreensSpec => []ScreensTypeOK
<1>1. ScreensInv => ScreensTypeOK
  BY DEF ScreensInv
<1> QED
  BY <1>1, ScreensInvariant, PTL

(* A page that its route lets in asks what the role may ask, and offers    *)
(* what the role and the features may send.                                *)
LEMMA AgreeWhereRouted ==
  ASSUME ScreensInv
  PROVE  PagesAgreeWithGuards
<1> SUFFICES ASSUME screen \in Screen PROVE PagesAgreeWithGuards
  BY DEF PagesAgreeWithGuards
<1>1. viewer.role \in Role /\ viewer.role \in RouteRoles(screen)
  BY DEF ScreensInv, ScreensTypeOK, RouteKept
<1>2. \A q \in Asked(screen) : viewer.role \in Served(q).roles
  BY <1>1, PageAsks, AskedIsAllowed
<1>3. ASSUME known = Features(viewer.standing), viewer.standing \notin {"LOCKED", "SUSPENDED"},
             NEW m \in Page(screen).sends, <<screen, m>> \notin OfferedToAll
      PROVE  Accepted(m)
  <2>1. viewer.standing \in {"TRIAL", "STANDARD", "PRO"}
    BY <1>3, ScreensAssumption DEF ScreensInv, ScreensTypeOK
  <2> QED
    BY <1>1, <1>3, <2>1, PageSends, SentIsAccepted
<1> QED
  BY <1>2, <1>3 DEF PagesAgreeWithGuards

(* No page asks what the role of its user forbids, nor offers what the API *)
(* will refuse once the features it knows are those of the organization,   *)
(* the offers listed apart (auth/roles.ts, lib/entitlements.ts).           *)
THEOREM PagesAgree == ScreensSpec => []PagesAgreeWithGuards
  BY ScreensInvariant, AgreeWhereRouted, PTL

(* Before anybody signs in nothing is cached, and nothing was done.        *)
LoggedOut == screen = "login" => entry = NoEntry /\ told = 0 /\ change = NoChange

(* What the user is owed: an answer that may still be displayed has read   *)
(* all that they were told of, and a change made from a page that displays *)
(* the records it touches will refresh them.                               *)
Owed ==
  viewer.query \in Records =>
    /\ entry.fetch = "read" /\ ~entry.late => entry.base >= told
    /\ change.shown => Invalidates(change.what)

FreshInv == told <= version /\ ScreenShowsOwnWork /\ Owed /\ LoggedOut

\* The pages that list the alerts neither create nor edit products.
LEMMA AlertsPages ==
  ASSUME NEW p \in Screen, "alerts" \in Asked(p), NEW m \in Page(p).sends
  PROVE  m \notin DOMAIN ProductsHooks
<1>1. p \in {"stock", "copilot"}
  <2>1. p # "dashboard"
    BY DEF Asked, Page, DashboardPage, DashboardAsks, When
  <2>2. p \notin {"finance", "users", "commercial"}
    BY DEF Asked, Page, FinancePage, FinanceAsks, UsersPage, CommercialPage, InviteTeamPanel, When
  <2>3. p \notin {"products", "product", "sales", "sale", "reports", "billing"}
    BY DEF Asked, Page, ProductsPage, ProductDetailPage, SalesPage, SaleDetailPage, SaleForm,
       ReportsPage, DailyReportDetail, BillingPage, PaymentModal
  <2>4. p \notin {"purchases", "order"}
    BY DEF Asked, Page, PurchasesPage, PurchaseOrderDetailPage, PurchaseOrderForm
  <2> QED
    BY <2>1, <2>2, <2>3, <2>4 DEF Screen
<1>2. CASE p = "stock"
  BY <1>2, HooksDomains
  DEF Page, StockPage, StockMovementForm, ReplenishmentTab, PurchaseOrderForm, When
<1>3. CASE p = "copilot"
  BY <1>3, HooksDomains DEF Page, CopilotPage, RecommendationCards, PurchaseOrderForm, When
<1> QED
  BY <1>1, <1>2, <1>3

LEMMA ShownIsRefreshed ==
  ASSUME viewer.query \in Records, screen \in Screen, Displayed,
         NEW m \in Mutation, m \in Page(screen).sends, Touches(m)
  PROVE  Invalidates(m)
  BY AlertsPages, Refreshes DEF Displayed

LEMMA SameInvalidated ==
  ASSUME viewer'.query = viewer.query, NEW m
  PROVE  Invalidates(m)' <=> Invalidates(m)
  BY DEF Invalidates

LEMMA SameDisplayed ==
  ASSUME viewer'.role = viewer.role, viewer'.query = viewer.query, known' = known,
         screen' = screen
  PROVE  Displayed' <=> Displayed
  BY SameAsked DEF Displayed

LEMMA FreshInit == ScreensInit => FreshInv
  BY DEF ScreensInit, FreshInv, ScreenShowsOwnWork, Owed, LoggedOut, NoEntry, NoChange

LEMMA FreshNext == ScreensInv /\ FreshInv /\ [ScreensNext]_screenVars => FreshInv'
<1> SUFFICES ASSUME ScreensInv, FreshInv, [ScreensNext]_screenVars PROVE FreshInv'
  OBVIOUS
<1> USE DEF FreshInv, Owed, LoggedOut
<1>t. ScreensTypeOK
  BY DEF ScreensInv
<1>1. CASE SignIn
  <2>1. entry' = NoEntry /\ told' = 0 /\ change' = NoChange /\ version' = version /\ screen' = "home"
    BY <1>1 DEF SignIn
  <2> QED
    BY <2>1, <1>t DEF ScreenShowsOwnWork, NoEntry, NoChange, ScreensTypeOK
<1>2. ASSUME NEW p \in Screen, Visit(p) PROVE FreshInv'
  <2>1. /\ screen # "login" /\ screen' = p /\ UNCHANGED <<viewer, known, change, version, told>>
        /\ entry' = Mounted(entry, Displayed, viewer.query \in Asked(p))
    BY <1>2 DEF Visit
  <2>2. Displayed' <=> viewer.query \in Asked(p)
    BY <2>1, SameAsked DEF Displayed
  <2>3. screen' # "login"
    BY <2>1 DEF Screen
  <2>4. \A m : Invalidates(m)' <=> Invalidates(m)
    BY <2>1, SameInvalidated
  <2>5. CASE entry' = entry /\ (Displayed' => Displayed \/ Fetching(entry))
    BY <2>1, <2>3, <2>4, <2>5, <1>t DEF ScreenShowsOwnWork, Fetching
  <2>6. CASE entry' = Fetch(entry)
    BY <2>1, <2>3, <2>4, <2>6, <1>t DEF ScreenShowsOwnWork, Fetching, Fetch, ScreensTypeOK
  <2> QED
    BY <2>1, <2>2, <2>5, <2>6 DEF Mounted
<1>3. CASE LearnFeatures
  <2>1. /\ UNCHANGED <<viewer, screen, change, version, told>>
        /\ entry' = Mounted(entry, Displayed, Displayed')
        /\ screen \in Screen
    BY <1>3 DEF LearnFeatures
  <2>3. screen' # "login"
    BY <2>1 DEF Screen
  <2>4. \A m : Invalidates(m)' <=> Invalidates(m)
    BY <2>1, SameInvalidated
  <2>5. CASE entry' = entry /\ (Displayed' => Displayed \/ Fetching(entry))
    BY <2>1, <2>3, <2>4, <2>5, <1>t DEF ScreenShowsOwnWork, Fetching
  <2>6. CASE entry' = Fetch(entry)
    BY <2>1, <2>3, <2>4, <2>6, <1>t DEF ScreenShowsOwnWork, Fetching, Fetch, ScreensTypeOK
  <2> QED
    BY <2>1, <2>5, <2>6 DEF Mounted
<1> DEFINE Same == /\ viewer'.role = viewer.role /\ viewer'.query = viewer.query
                   /\ known' = known /\ screen' = screen
<1>s. Same => (Displayed' <=> Displayed) /\ \A m : Invalidates(m)' <=> Invalidates(m)
  BY SameDisplayed, SameInvalidated
<1>4. CASE ChangeStanding
  <2>1. Same /\ UNCHANGED <<entry, change, version, told>>
    BY <1>4, <1>t DEF ChangeStanding, ScreensTypeOK
  <2> QED
    BY <2>1, <1>s, <1>t DEF ScreenShowsOwnWork, Fetching
<1>5. CASE ServeQuery
  <2>1. Same /\ UNCHANGED <<change, version, told>> /\ entry.fetch = "sent"
    BY <1>5 DEF ServeQuery
  <2>2. screen # "login"
    BY <2>1 DEF NoEntry
  <2>3. CASE entry' = [entry EXCEPT !.fetch = "read", !.base = version]
    BY <2>1, <2>2, <2>3, <1>s, <1>t DEF ScreenShowsOwnWork, Fetching, ScreensTypeOK
  <2>4. CASE entry'.fetch \in {"expired", "refused"}
    BY <2>1, <2>2, <2>4, <1>s, <1>t DEF ScreenShowsOwnWork, Fetching, ScreensTypeOK
  <2> QED
    BY <1>5, <2>3, <2>4, <1>t DEF ServeQuery, ScreensTypeOK
<1>6. CASE LoseQuery
  <2>1. Same /\ UNCHANGED <<change, version, told>> /\ entry' = [entry EXCEPT !.fetch = "refused"]
        /\ entry.fetch # "none"
    BY <1>6 DEF LoseQuery
  <2> QED
    BY <2>1, <1>s, <1>t DEF ScreenShowsOwnWork, Fetching, ScreensTypeOK, NoEntry
<1>7. CASE Arrive
  <2>1. Same /\ UNCHANGED <<change, version, told>> /\ entry.fetch = "read"
        /\ entry' = [entry EXCEPT !.fetch = "none", !.got = TRUE, !.held = entry.base]
    BY <1>7 DEF Arrive
  <2> QED
    BY <2>1, <1>s, <1>t DEF ScreenShowsOwnWork, Fetching, ScreensTypeOK, NoEntry
<1>8. CASE Fail
  <2>1. CASE UNCHANGED <<screen, known, change, told>>
    <3>1. Same /\ UNCHANGED version /\ entry.fetch \in {"refused", "expired"}
      BY <1>8, <2>1 DEF Fail
    <3>2. screen # "login"
      BY <3>1 DEF NoEntry
    <3>3. CASE entry' = [entry EXCEPT !.fetch = "sent", !.retry = TRUE]
      BY <3>1, <3>2, <3>3, <2>1, <1>s, <1>t DEF ScreenShowsOwnWork, Fetching, ScreensTypeOK
    <3>4. CASE entry' = [entry EXCEPT !.fetch = "none", !.failed = TRUE]
      BY <3>1, <3>2, <3>4, <2>1, <1>s, <1>t DEF ScreenShowsOwnWork, Fetching, ScreensTypeOK
    <3>5. CASE entry' = NoEntry
      BY <3>1, <3>2, <3>5, <2>1, <1>s, <1>t DEF ScreenShowsOwnWork, Fetching, NoEntry, ScreensTypeOK
    <3> QED
      BY <1>8, <3>3, <3>4, <3>5 DEF Fail
  <2>2. CASE ~UNCHANGED <<screen, known, change, told>>
    <3>1. /\ screen' = "subscription-expired" /\ entry' = NoEntry
          /\ change' = NoChange /\ told' = 0 /\ version' = version
      BY <1>8, <2>2 DEF Fail
    <3> QED
      BY <3>1, <1>t DEF ScreenShowsOwnWork, NoEntry, NoChange, ScreensTypeOK
  <2> QED
    BY <2>1, <2>2
<1>9. ASSUME NEW m \in Mutation, SubmitMutation(m) PROVE FreshInv'
  <2>1. Same /\ UNCHANGED <<entry, version, told>> /\ screen \in Screen /\ m \in Page(screen).sends
        /\ Touches(m) /\ change' = [what |-> m, at |-> "sent", shown |-> Displayed]
    BY <1>9 DEF SubmitMutation
  <2>2. viewer.query \in Records /\ change'.shown => Invalidates(m)
    BY <2>1, ShownIsRefreshed
  <2>3. screen' # "login"
    BY <2>1 DEF Screen
  <2> QED
    BY <2>1, <2>2, <2>3, <1>s, <1>t DEF ScreenShowsOwnWork, Fetching
<1>10. CASE Perform
  <2>1. Same /\ UNCHANGED <<entry, told>> /\ change.at = "sent"
    BY <1>10 DEF Perform
  <2>2. /\ version' \in {version, version + 1}
        /\ change' = NoChange \/ change' = [change EXCEPT !.at = "done"]
    BY <1>10 DEF Perform
  <2> QED
    BY <2>1, <2>2, <1>s, <1>t DEF ScreenShowsOwnWork, Fetching, ScreensTypeOK, NoChange
<1>11. CASE LoseChange
  <2>1. Same /\ UNCHANGED <<entry, version, told>> /\ change' = NoChange
    BY <1>11 DEF LoseChange
  <2> QED
    BY <2>1, <1>s, <1>t DEF ScreenShowsOwnWork, Fetching, ScreensTypeOK, NoChange
<1>12. CASE Succeed
  <2>1. Same /\ UNCHANGED version /\ change' = NoChange /\ change.at = "done"
        /\ told' \in {told, version} /\ (~change.shown => told' = told)
    BY <1>12 DEF Succeed
  <2>2. screen # "login"
    BY <2>1 DEF NoChange
  <2>3. entry' = IF Invalidates(change.what) THEN Refetched(entry) ELSE entry
    BY <1>12 DEF Succeed
  <2>4. CASE entry' = entry /\ ~change.shown
    BY <2>1, <2>2, <2>4, <1>s, <1>t DEF ScreenShowsOwnWork, Fetching, NoChange, ScreensTypeOK
  <2>5. CASE entry' = Fetch(entry)
    BY <2>1, <2>2, <2>5, <1>s, <1>t DEF ScreenShowsOwnWork, Fetching, NoChange, Fetch, ScreensTypeOK
  <2>6. CASE entry' = [entry EXCEPT !.late = TRUE]
    BY <2>1, <2>2, <2>6, <1>s, <1>t DEF ScreenShowsOwnWork, Fetching, NoChange, ScreensTypeOK
  <2>7. CASE entry' = entry /\ ~Displayed /\ ~Fetching(entry)
    BY <2>1, <2>2, <2>7, <1>s, <1>t DEF ScreenShowsOwnWork, Fetching, NoChange, ScreensTypeOK
  <2>8. CASE entry' = entry /\ change.shown /\ viewer.query \notin Records
    BY <2>1, <2>2, <2>8, <1>s, <1>t DEF ScreenShowsOwnWork, Fetching, NoChange, ScreensTypeOK
  <2> QED
    BY <2>3, <2>4, <2>5, <2>6, <2>7, <2>8 DEF Refetched
<1>13. CASE UNCHANGED screenVars
  <2>1. Same /\ UNCHANGED <<entry, change, version, told>>
    BY <1>13 DEF screenVars
  <2> QED
    BY <2>1, <1>s, <1>t DEF ScreenShowsOwnWork, Fetching
<1> QED
  BY <1>1, <1>2, <1>3, <1>4, <1>5, <1>6, <1>7, <1>8, <1>9, <1>10, <1>11, <1>12, <1>13 DEF ScreensNext

(* A page at rest that lists records shows what the user did and was told  *)
(* of, unless a fetch could not be begun again (apps/web/src/hooks).       *)
THEOREM ScreenIsFresh == ScreensSpec => []ScreenShowsOwnWork
<1>1. FreshInv => ScreenShowsOwnWork
  BY DEF FreshInv
<1> QED
  BY <1>1, ScreensInvariant, FreshInit, FreshNext, PTL DEF ScreensSpec

=============================================================================
