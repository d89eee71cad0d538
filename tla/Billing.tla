----------------------------- MODULE Billing -----------------------------
(***************************************************************************)
(* Subscriptions and their payments: BillingService, the CamPay webhook and *)
(* polling, SubscriptionGuard, CopilotQuotaService and the trial extension  *)
(* of the platform administration.                                          *)
(*                                                                          *)
(* A worker is one unit of concurrency of the API: it takes a call, runs it *)
(* statement by statement and is free again.  CamPay, the mobile-money      *)
(* provider, is external: it accepts a collection, the customer confirms or  *)
(* refuses it on the phone, and a webhook announces the outcome, delivered   *)
(* late, several times or never.                                            *)
(***************************************************************************)
EXTENDS Integers, FiniteSets

CONSTANTS
    Org, Plan, Payment,
    Period,          \* Period[plan]: duration a payment of it buys
    Quota,           \* Quota[plan]: Copilot requests per period
    TrialQuota,      \* TRIAL_COPILOT_QUOTA
    TrialDays,       \* duration of the trial given at registration
    ExtraDays,       \* duration of an extension by the administration
    Worker,
    AdminWorker,     \* the workers that may run a platform administrator's call
    AnswersLost,     \* whether a checkout may fail after CamPay accepted it
    NoPlan, NoWorker, NoPayment,
    MaxTime,         \* bound of the clock
    MaxEnd           \* bound of a period's end that an extension may reach

ASSUME BillingAssumption ==
    /\ Period \in [Plan -> Nat \ {0}]
    /\ Quota \in [Plan -> Nat]
    /\ {TrialQuota, TrialDays, ExtraDays, MaxTime, MaxEnd} \subseteq Nat
    /\ AdminWorker \subseteq Worker /\ IsFiniteSet(Worker)
    /\ AnswersLost \in BOOLEAN
    /\ Org # {} /\ Plan # {}
    /\ NoPlan \notin Plan /\ NoWorker \notin Worker /\ NoPayment \notin Payment

VARIABLES
    now,       \* the clock
    sub,       \* sub[o]: the row of "subscriptions", status "none" without one
    pay,       \* pay[x]: the row of "payment_transactions"
    payLock,   \* payLock[x]: the worker whose transaction holds that row
    provider,  \* provider[x]: the collection as CamPay knows it
    call       \* call[w]: what worker w is doing

vars == <<now, sub, pay, payLock, provider, call>>

SubStatus == {"none", "TRIAL", "AWAITING_PAYMENT", "ACTIVE", "TRIAL_EXPIRED"}
Subscription == [status : SubStatus, plan : Plan \cup {NoPlan},
                 periodEnd : Nat, used : Nat]
Reference == {"none", "own", "other"}   \* providerReference: null, CamPay's, or not
PaymentTransaction == [status : {"absent", "PENDING", "SUCCESS", "FAILED"},
                       org : Org, plan : Plan, ref : Reference]
Collection == {"unknown", "waiting", "paid", "otherAmount", "refused"}
PC == {"idle", "collect", "saveReference", "failCheckout", "apply", "settle",
       "activate", "expire", "extend", "consume"}
Call == [pc : PC, payment : Payment \cup {NoPayment}, result : Collection,
         org : Org, ref : Reference, seen : Subscription, at : Nat, limit : Nat]

Later(a, b) == IF a > b THEN a ELSE b

\* common/subscription/subscription-status.util.ts
IsLocked(s) ==
    \/ s.status \in {"TRIAL_EXPIRED", "AWAITING_PAYMENT"}
    \/ s.status = "TRIAL" /\ s.periodEnd < now

QuotaOf(s) == CASE s.status = "TRIAL" -> TrialQuota
                [] s.status = "ACTIVE" /\ s.plan # NoPlan -> Quota[s.plan]
                [] OTHER -> 0

NoSubscription == [status |-> "none", plan |-> NoPlan, periodEnd |-> 0, used |-> 0]
NoCall == [pc |-> "idle", payment |-> NoPayment, result |-> "unknown",
           org |-> CHOOSE o \in Org : TRUE, ref |-> "none", seen |-> NoSubscription,
           at |-> 0, limit |-> 0]

Idle(w) == call[w].pc = "idle"
Free(w) == call' = [call EXCEPT ![w] = NoCall]

-----------------------------------------------------------------------------
(* Checkout: POST /billing/checkout                                          *)

\* The attempt is recorded PENDING, at the plan's price, before CamPay is asked.
StartCheckout(w, o, plan, x) ==
    /\ Idle(w)
    /\ pay[x].status = "absent"
    /\ pay' = [pay EXCEPT ![x] = [status |-> "PENDING", org |-> o, plan |-> plan,
                                  ref |-> "none"]]
    /\ call' = [call EXCEPT ![w].pc = "collect", ![w].payment = x]
    /\ UNCHANGED <<now, sub, payLock, provider>>

\* CamPay's answer to "collect": accepted, refused, or accepted and then lost,
\* or received with a body that is not JSON, whose reference reads "undefined".
Collect(w) ==
    LET x == call[w].payment
    IN  /\ call[w].pc = "collect"
        /\ \/ /\ provider' = [provider EXCEPT ![x] = "waiting"]
              /\ call' = [call EXCEPT ![w].pc = "saveReference", ![w].ref = "own"]
           \/ /\ call' = [call EXCEPT ![w].pc = "failCheckout"]
              /\ UNCHANGED provider
           \/ /\ AnswersLost
              /\ provider' = [provider EXCEPT ![x] = "waiting"]
              /\ \/ call' = [call EXCEPT ![w].pc = "failCheckout"]
                 \/ call' = [call EXCEPT ![w].pc = "saveReference", ![w].ref = "other"]
        /\ UNCHANGED <<now, sub, pay, payLock>>

SaveReference(w) ==
    LET x == call[w].payment
    IN  /\ call[w].pc = "saveReference"
        /\ payLock[x] = NoWorker
        /\ pay' = [pay EXCEPT ![x].ref = call[w].ref]
        /\ Free(w)
        /\ UNCHANGED <<now, sub, payLock, provider>>

\* That UPDATE may fail too; the same catch clause handles both.
SaveReferenceFails(w) ==
    /\ AnswersLost
    /\ call[w].pc = "saveReference"
    /\ call' = [call EXCEPT ![w].pc = "failCheckout"]
    /\ UNCHANGED <<now, sub, pay, payLock, provider>>

\* The catch clause: FAILED, whatever the row has become.
FailCheckout(w) ==
    LET x == call[w].payment
    IN  /\ call[w].pc = "failCheckout"
        /\ payLock[x] = NoWorker
        /\ pay' = [pay EXCEPT ![x].status = "FAILED"]
        /\ Free(w)
        /\ UNCHANGED <<now, sub, payLock, provider>>

-----------------------------------------------------------------------------
(* CamPay and the customer's phone                                           *)

CustomerAnswers(x) ==
    /\ provider[x] = "waiting"
    /\ \E answer \in {"paid", "otherAmount", "refused"} :
          provider' = [provider EXCEPT ![x] = answer]
    /\ UNCHANGED <<now, sub, pay, payLock, call>>

-----------------------------------------------------------------------------
(* What CamPay says of a payment reaches applyPaymentResult                  *)

Apply(w, x, result) ==
    call' = [call EXCEPT ![w].pc = "apply", ![w].payment = x, ![w].result = result]

\* The outcome of a collection, as often as CamPay repeats it.
ReceiveWebhook(w, x) ==
    /\ Idle(w)
    /\ provider[x] \in {"paid", "otherAmount", "refused"}
    /\ Apply(w, x, provider[x])
    /\ UNCHANGED <<now, sub, pay, payLock, provider>>

\* GET /billing/transactions/:ref asks CamPay again while the row is PENDING;
\* CamPay knows nothing of a reference that is not its own.
Poll(w, x) ==
    /\ Idle(w)
    /\ pay[x].status = "PENDING"
    /\ pay[x].ref = "own"
    /\ Apply(w, x, provider[x])
    /\ UNCHANGED <<now, sub, pay, payLock, provider>>

\* Variant: every status but SUCCESSFUL is taken for a failure.
AnyAnswerDecides(result) == TRUE

\* PENDING is CamPay's intermediate status, not a failure.
Decided(result) == result # "waiting"

\* Variant: the amount is not compared with the plan's price.
AnyAmount(x, result) == result \in {"paid", "otherAmount"} /\ pay[x].ref # "other"

\* SUCCESSFUL, and the amount, currency and reference are those of the row.
IsSuccess(x, result) == result = "paid" /\ pay[x].ref # "other"

\* applyPaymentResult reads the transaction and decides on what it reads.
ReadTransaction(w) ==
    LET x == call[w].payment
    IN  /\ call[w].pc = "apply"
        /\ IF pay[x].status = "PENDING" /\ Decided(call[w].result)
           THEN call' = [call EXCEPT ![w].pc = "settle", ![w].result =
                           IF IsSuccess(x, @) THEN "paid" ELSE "refused"]
           ELSE Free(w)
        /\ UNCHANGED <<now, sub, pay, payLock, provider>>

\* Variant: the write relies on the status read before.
TrustTheRead(x) == TRUE

\* The row is still PENDING at the moment of the write (the updateMany's WHERE).
StillPending(x) == pay[x].status = "PENDING"

\* A refusal, or an amount that is not the plan's: FAILED if still PENDING.
SettleFailure(w) ==
    LET x == call[w].payment
    IN  /\ call[w].pc = "settle"
        /\ call[w].result # "paid"
        /\ payLock[x] = NoWorker
        /\ pay' = IF StillPending(x)
                  THEN [pay EXCEPT ![x].status = "FAILED", ![x].ref = "own"] ELSE pay
        /\ Free(w)
        /\ UNCHANGED <<now, sub, payLock, provider>>

\* A success claims the row, which stays locked, and reads the subscription ...
SettleSuccess(w) ==
    LET x == call[w].payment
    IN  /\ call[w].pc = "settle"
        /\ call[w].result = "paid"
        /\ payLock[x] = NoWorker
        /\ IF StillPending(x)
           THEN /\ payLock' = [payLock EXCEPT ![x] = w]
                /\ call' = [call EXCEPT ![w].pc = "activate", ![w].at = now,
                                        ![w].seen = sub[pay[x].org]]
           ELSE Free(w) /\ UNCHANGED payLock
        /\ UNCHANGED <<now, sub, pay, provider>>

\* ... then activates the subscription from what it read, and commits.
StillActive(s, at) == s.status = "ACTIVE" /\ s.periodEnd > at

Activate(w) ==
    LET x == call[w].payment
        seen == call[w].seen
        base == IF StillActive(seen, call[w].at) THEN seen.periodEnd ELSE call[w].at
        plan == pay[x].plan
    IN  /\ call[w].pc = "activate"
        /\ pay' = [pay EXCEPT ![x].status = "SUCCESS", ![x].ref = "own"]
        /\ sub' = [sub EXCEPT ![pay[x].org] = [status |-> "ACTIVE", plan |-> plan,
                                periodEnd |-> base + Period[plan], used |-> 0]]
        /\ payLock' = [payLock EXCEPT ![x] = NoWorker]
        /\ Free(w)
        /\ UNCHANGED <<now, provider>>

-----------------------------------------------------------------------------
(* SubscriptionGuard: any protected call finds the trial over, is refused,   *)
(* and marks it in the background                                            *)

\* Variant: a trial is marked whether it is over or not.
AnyTrial(s) == s.status = "TRIAL"

TrialOver(s) == s.status = "TRIAL" /\ IsLocked(s)

GuardReads(w, o) ==
    /\ Idle(w)
    /\ TrialOver(sub[o])
    /\ call' = [call EXCEPT ![w].pc = "expire", ![w].org = o]
    /\ UNCHANGED <<now, sub, pay, payLock, provider>>

\* Variant: the write names the subscription by its id alone.
ExpireAny(s) == TRUE

MayExpire(s) == s.status = "TRIAL"

GuardExpires(w) ==
    LET o == call[w].org
    IN  /\ call[w].pc = "expire"
        /\ sub' = IF MayExpire(sub[o])
                  THEN [sub EXCEPT ![o].status = "TRIAL_EXPIRED"] ELSE sub
        /\ Free(w)
        /\ UNCHANGED <<now, pay, payLock, provider>>

-----------------------------------------------------------------------------
(* AdminOrganizationsService.extendTrial                                     *)

\* Variant: whatever is not a paid subscription can be extended.
ExtendAnyUnpaid(s) == s.status # "ACTIVE"

MayExtend(s) == s.status \in {"TRIAL", "TRIAL_EXPIRED"}

ExtendReads(w, o) ==
    /\ w \in AdminWorker
    /\ Idle(w)
    /\ MayExtend(sub[o])
    /\ Later(sub[o].periodEnd, now) + ExtraDays <= MaxEnd
    /\ call' = [call EXCEPT ![w].pc = "extend", ![w].org = o,
                            ![w].seen = sub[o], ![w].at = now]
    /\ UNCHANGED <<now, sub, pay, payLock, provider>>

Extend(w) ==
    LET o == call[w].org
    IN  /\ call[w].pc = "extend"
        /\ sub' = [sub EXCEPT ![o].status = "TRIAL",
                     ![o].periodEnd = Later(call[w].seen.periodEnd, call[w].at)
                                        + ExtraDays]
        /\ Free(w)
        /\ UNCHANGED <<now, pay, payLock, provider>>

-----------------------------------------------------------------------------
(* CopilotQuotaService.consumeOne, behind SubscriptionGuard                  *)

QuotaReads(w, o) ==
    /\ Idle(w)
    /\ sub[o].status # "none"
    /\ ~IsLocked(sub[o])
    /\ call' = [call EXCEPT ![w].pc = "consume", ![w].org = o,
                            ![w].limit = QuotaOf(sub[o])]
    /\ UNCHANGED <<now, sub, pay, payLock, provider>>

\* Variant: the quota is compared with nothing at the moment of the write.
ConsumeBlindly(w) == TRUE

MayConsume(w) == sub[call[w].org].used < call[w].limit

Consume(w) ==
    LET o == call[w].org
    IN  /\ call[w].pc = "consume"
        /\ sub' = IF MayConsume(w) THEN [sub EXCEPT ![o].used = @ + 1] ELSE sub
        /\ Free(w)
        /\ UNCHANGED <<now, pay, payLock, provider>>

-----------------------------------------------------------------------------
(* Failure                                                                   *)

\* Variant: the failed transaction is never rolled back.
AbortKeepingLock(w) ==
    /\ ~Idle(w)
    /\ Free(w)
    /\ UNCHANGED <<now, sub, pay, payLock, provider>>

\* A call may stop anywhere: database error, transaction timeout, crash of the
\* API.  An open transaction rolls back, what was committed before stays.  A
\* webhook has been or will be acknowledged all the same: only a poll or another
\* delivery repeats it.
Abort(w) ==
    /\ ~Idle(w)
    /\ payLock' = [x \in Payment |-> IF payLock[x] = w THEN NoWorker ELSE payLock[x]]
    /\ Free(w)
    /\ UNCHANGED <<now, sub, pay, provider>>

-----------------------------------------------------------------------------
Tick == /\ now < MaxTime
        /\ now' = now + 1
        /\ UNCHANGED <<sub, pay, payLock, provider, call>>

\* An organization without a row, one that registered for the trial, or one
\* that registered with a paid plan.
InitialSubscription ==
    {NoSubscription,
     [status |-> "TRIAL", plan |-> NoPlan, periodEnd |-> TrialDays, used |-> 0]}
    \cup {[status |-> "AWAITING_PAYMENT", plan |-> p, periodEnd |-> 0, used |-> 0] :
             p \in Plan}

Init ==
    /\ now = 0
    /\ sub \in [Org -> InitialSubscription]
    /\ pay = [x \in Payment |-> [status |-> "absent", ref |-> "none",
                                 org |-> CHOOSE o \in Org : TRUE,
                                 plan |-> CHOOSE p \in Plan : TRUE]]
    /\ payLock = [x \in Payment |-> NoWorker]
    /\ provider = [x \in Payment |-> "unknown"]
    /\ call = [w \in Worker |-> NoCall]

Starts(w) == \/ \E o \in Org : \/ \E plan \in Plan, x \in Payment :
                                     StartCheckout(w, o, plan, x)
                               \/ GuardReads(w, o)
                               \/ ExtendReads(w, o)
                               \/ QuotaReads(w, o)
             \/ \E x \in Payment : ReceiveWebhook(w, x) \/ Poll(w, x)

Step(w) == \/ Collect(w) \/ SaveReference(w) \/ FailCheckout(w)
           \/ ReadTransaction(w) \/ SettleFailure(w) \/ SettleSuccess(w)
           \/ Activate(w)
           \/ GuardExpires(w) \/ Extend(w) \/ Consume(w)

Next == \/ \E w \in Worker : \/ Starts(w) \/ Step(w)
                             \/ SaveReferenceFails(w) \/ Abort(w)
        \/ \E x \in Payment : CustomerAnswers(x)
        \/ Tick

Spec == Init /\ [][Next]_vars

\* Calls make progress, failures come to an end, and the page of the checkout
\* keeps polling as long as the payment is PENDING.
Fairness == /\ \A w \in Worker : WF_vars(Step(w))
            /\ <>[][\A w \in Worker : ~Abort(w)]_vars
            /\ \A x \in Payment : SF_vars(\E w \in Worker : Poll(w, x))

FairSpec == Spec /\ Fairness

-----------------------------------------------------------------------------
TypeOK ==
    /\ now \in 0..MaxTime
    /\ sub \in [Org -> Subscription]
    /\ pay \in [Payment -> PaymentTransaction]
    /\ payLock \in [Payment -> Worker \cup {NoWorker}]
    /\ provider \in [Payment -> Collection]
    /\ call \in [Worker -> Call]
    /\ \A x \in Payment : payLock[x] # NoWorker =>
          call[payLock[x]].pc = "activate" /\ call[payLock[x]].payment = x

\* Payment x is recorded as a success in this step.
Settles(x) == pay[x].status # "SUCCESS" /\ pay'[x].status = "SUCCESS"

(* A subscription becomes ACTIVE, changes plan or gets another paid period     *)
(* only in the step that settles one of its organization's payments, which     *)
(* CamPay collected in full; and a payment is settled once, from PENDING, with  *)
(* the period and plan it buys, whatever webhooks and polls race               *)
(* (billing.service.ts:175-180, 236-254).                                      *)
ActivationIsPaid ==
    [][/\ \A x \in Payment : Settles(x) =>
             /\ pay[x].status = "PENDING"
             /\ provider[x] = "paid"
             /\ sub'[pay[x].org].status = "ACTIVE"
             /\ sub'[pay[x].org].plan = pay[x].plan
       /\ \A o \in Org :
             /\ sub'[o].status = "ACTIVE"
             /\ \/ sub[o].status # "ACTIVE"
                \/ sub'[o].periodEnd # sub[o].periodEnd
                \/ sub'[o].plan # sub[o].plan
             => \E x \in Payment : Settles(x) /\ pay[x].org = o]_vars

(* An organization that chose a paid plan at registration stays locked until   *)
(* a payment activates it, and never gets a trial                              *)
(* (billing.e2e-spec.ts:304, subscription-status.util.ts:24-28).               *)
AwaitingUntilPaid ==
    [][\A o \in Org : sub[o].status = "AWAITING_PAYMENT" =>
          sub'[o].status \in {"AWAITING_PAYMENT", "ACTIVE"}]_vars

(* A paid subscription is never turned back into a trial, expired or not       *)
(* (subscription.guard.ts:57-61, admin-organizations.service.ts:209-216).      *)
ActiveStaysActive ==
    [][\A o \in Org : sub[o].status = "ACTIVE" => sub'[o].status = "ACTIVE"]_vars

(* Only a trial whose end has passed is marked TRIAL_EXPIRED                   *)
(* (schema.prisma:64, subscription.guard.ts:57).                               *)
ExpiredTrialIsOver ==
    \A o \in Org : sub[o].status = "TRIAL_EXPIRED" => sub[o].periodEnd < now

(* A payment's final status is final (billing.service.spec.ts:168, 183).       *)
FinalStatusKept ==
    [][\A x \in Payment : pay[x].status \in {"SUCCESS", "FAILED"} =>
          pay'[x].status = pay[x].status]_vars

(* A trial never takes more of the Copilot than its quota.  A paid period       *)
(* takes more only by the calls that had read another quota before a payment    *)
(* reset the counter, one unit each: two calls pass the quota by one unit at    *)
(* most (copilot-quota.service.ts:57-79, billing.service.ts:281-306).           *)
QuotaHolds ==
    \A o \in Org :
        /\ sub[o].plan = NoPlan => sub[o].used <= TrialQuota
        /\ sub[o].status = "ACTIVE" =>
              sub[o].used <= Quota[sub[o].plan] + Cardinality(Worker) - 1

(* A payment renews an ACTIVE period that has not ended by prolonging it       *)
(* (billing.service.ts:270-273, billing.service.spec.ts:313).                  *)
PaidPeriodKept ==
    [][\A x \in Payment :
          Settles(x) /\ StillActive(sub[pay[x].org], now) =>
              sub'[pay[x].org].periodEnd >=
                  sub[pay[x].org].periodEnd + Period[pay[x].plan]]_vars

(* Money collected in full for a payment still PENDING, whose reference is      *)
(* known, ends in its activation although webhooks may never come and           *)
(* transactions abort (billing.service.ts:131-134).                             *)
PaidIsActivated ==
    \A x \in Payment :
        (provider[x] = "paid" /\ pay[x].status = "PENDING" /\ pay[x].ref = "own")
            ~> pay[x].status = "SUCCESS"

=============================================================================
