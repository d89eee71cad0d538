-------------------------- MODULE BillingProofs --------------------------
(***************************************************************************)
(* Theorems about Billing, for any number of organizations, plans, payments  *)
(* and workers.                                                              *)
(*                                                                          *)
(* What a worker has read may be out of date when it writes.  The invariant  *)
(* lists what it may still rely on: that a payment it names exists, that     *)
(* what CamPay collected stays collected, and that a payment it has claimed  *)
(* is PENDING and nobody else's until it commits.                            *)
(***************************************************************************)
EXTENDS Billing, FiniteSetTheorems, TLAPS

Naming == {"collect", "saveReference", "failCheckout", "apply", "settle", "activate"}

\* The payment a call works on has been recorded.
NamesPayment(w) ==
    call[w].pc \in Naming => /\ call[w].payment \in Payment
                             /\ pay[call[w].payment].status # "absent"

\* CamPay is asked for a payment once.
CollectsOnce(w) ==
    call[w].pc = "collect" =>
        /\ provider[call[w].payment] = "unknown"
        /\ \A u \in Worker \ {w} :
              call[u].pc = "collect" => call[u].payment # call[w].payment

\* A success that a call has heard of is one.
HeardRight(w) ==
    call[w].pc \in {"apply", "settle"} /\ call[w].result = "paid" =>
        provider[call[w].payment] = "paid"

\* A claimed payment is locked, PENDING and collected.
Claims(w) ==
    call[w].pc = "activate" =>
        /\ payLock[call[w].payment] = w
        /\ pay[call[w].payment].status = "PENDING"
        /\ provider[call[w].payment] = "paid"

\* What is about to be extended does not wait for its first payment.
MayStillExtend(w) ==
    call[w].pc = "extend" => sub[call[w].org].status # "AWAITING_PAYMENT"

CallInv(w) == /\ NamesPayment(w) /\ CollectsOnce(w) /\ HeardRight(w) /\ Claims(w)
              /\ MayStillExtend(w)

BillingInv ==
    /\ \A w \in Worker : CallInv(w)
    /\ \A x \in Payment : pay[x].status = "absent" => provider[x] = "unknown"

-----------------------------------------------------------------------------
\* An idle call is well typed.
LEMMA NoCallType == NoCall \in Call /\ NoSubscription \in Subscription
<1>1. (CHOOSE o \in Org : TRUE) \in Org
  BY BillingAssumption
<1>2. NoSubscription \in Subscription
  BY DEF NoSubscription, Subscription, SubStatus
<1> QED
  BY <1>1, <1>2 DEF NoCall, Call, PC, Collection, Reference

\* A quota is a number.
LEMMA QuotaFacts ==
    ASSUME NEW s \in Subscription
    PROVE  QuotaOf(s) \in Nat
<1>1. s.plan # NoPlan => s.plan \in Plan
  BY DEF Subscription
<1> QED
  BY <1>1, BillingAssumption DEF QuotaOf

\* The initial state is well typed.
LEMMA TypeInit == Init => TypeOK
<1> SUFFICES ASSUME Init PROVE TypeOK
  OBVIOUS
<1>1. InitialSubscription \subseteq Subscription
  BY NoCallType, BillingAssumption
     DEF InitialSubscription, NoSubscription, Subscription, SubStatus
<1>2. sub \in [Org -> Subscription]
  BY <1>1 DEF Init
<1>3. pay \in [Payment -> PaymentTransaction]
  <2>1. (CHOOSE o \in Org : TRUE) \in Org /\ (CHOOSE p \in Plan : TRUE) \in Plan
    BY BillingAssumption
  <2> QED
    BY <2>1 DEF Init, PaymentTransaction, Reference
<1>4. call \in [Worker -> Call]
  BY NoCallType DEF Init
<1>5. MaxTime \in Nat /\ now = 0
  BY BillingAssumption DEF Init
<1>6. /\ payLock = [x \in Payment |-> NoWorker]
      /\ provider = [x \in Payment |-> "unknown"]
  BY DEF Init
<1> QED
  BY <1>2, <1>3, <1>4, <1>5, <1>6 DEF TypeOK, Collection

\* Nothing runs and CamPay knows no payment.
LEMMA BillingInit == Init => BillingInv
<1> SUFFICES ASSUME Init PROVE BillingInv
  OBVIOUS
<1>1. \A w \in Worker : call[w].pc = "idle"
  BY DEF Init, NoCall
<1> QED
  BY <1>1 DEF Init, BillingInv, CallInv, NamesPayment, CollectsOnce, HeardRight, Claims,
              MayStillExtend, Naming

\* The end of a call leaves calls well typed and touches no other.
LEMMA FreeCall ==
    ASSUME TypeOK, NEW w \in Worker, Free(w)
    PROVE  /\ call' \in [Worker -> Call]
           /\ call'[w].pc = "idle"
           /\ \A u \in Worker \ {w} : call'[u] = call[u]
  BY NoCallType DEF TypeOK, Free, NoCall

-----------------------------------------------------------------------------
\* No step disturbs the types; a row is locked only by the call activating it.
LEMMA TypeNext == TypeOK /\ BillingInv /\ [Next]_vars => TypeOK'
<1> SUFFICES ASSUME TypeOK, BillingInv, [Next]_vars PROVE TypeOK'
  OBVIOUS
<1>p. ASSUME NEW w \in Worker, call[w].pc \in Naming
      PROVE  /\ call[w].payment \in Payment
             /\ pay[call[w].payment] \in PaymentTransaction
             /\ call[w].ref \in Reference
  BY <1>p DEF BillingInv, CallInv, NamesPayment, TypeOK, Call
<1>0. /\ {TrialQuota, TrialDays, ExtraDays, MaxTime, MaxEnd} \subseteq Nat
      /\ Period \in [Plan -> Nat \ {0}]
      /\ NoWorker \notin Worker
  BY BillingAssumption
<1>1. ASSUME NEW w \in Worker, NEW o \in Org, NEW plan \in Plan, NEW x \in Payment,
             StartCheckout(w, o, plan, x)
      PROVE  TypeOK'
  <2>1. /\ UNCHANGED <<now, sub, payLock, provider>> /\ call[w].pc = "idle"
        /\ pay' = [pay EXCEPT ![x] = [status |-> "PENDING", org |-> o, plan |-> plan,
                                      ref |-> "none"]]
        /\ call' = [call EXCEPT ![w].pc = "collect", ![w].payment = x]
    BY <1>1 DEF StartCheckout, Idle
  <2>2. pay' \in [Payment -> PaymentTransaction]
    BY <2>1 DEF TypeOK, PaymentTransaction, Reference
  <2>3. call' \in [Worker -> Call]
    <3>1. [call[w] EXCEPT !.pc = "collect", !.payment = x] \in Call
      <4>1. call[w] \in Call
        BY DEF TypeOK
      <4> QED
        BY <4>1 DEF Call, PC
    <3> QED
      BY <2>1, <3>1 DEF TypeOK
  <2> QED
    BY <2>1, <2>2, <2>3 DEF TypeOK
<1>2. ASSUME NEW w \in Worker, Collect(w) PROVE TypeOK'
  <2>1. provider' \in [Payment -> Collection]
    BY <1>2 DEF Collect, TypeOK, Collection
  <2>2. call' \in [Worker -> Call]
    BY <1>2 DEF Collect, TypeOK, Call, PC, Reference
  <2>3. /\ UNCHANGED <<now, sub, pay, payLock>> /\ call[w].pc = "collect"
        /\ \A u \in Worker \ {w} : call'[u] = call[u]
    BY <1>2 DEF Collect, TypeOK
  <2> QED
    BY <2>1, <2>2, <2>3 DEF TypeOK
<1>3. ASSUME NEW w \in Worker, SaveReference(w) \/ FailCheckout(w) \/ SettleFailure(w)
      PROVE  TypeOK'
  <2>1. /\ Free(w) /\ call[w].pc # "activate"
        /\ UNCHANGED <<now, sub, payLock, provider>>
    BY <1>3 DEF SaveReference, FailCheckout, SettleFailure
  <2>2. /\ pay[call[w].payment] \in PaymentTransaction /\ call[w].ref \in Reference
        /\ call[w].payment \in Payment
    BY <1>3, <1>p DEF SaveReference, FailCheckout, SettleFailure, Naming
  <2>3. pay' \in [Payment -> PaymentTransaction]
    <3> DEFINE x == call[w].payment
               Written(status, ref) == [pay[x] EXCEPT !.status = status, !.ref = ref]
    <3>1. \A ref \in Reference : Written("FAILED", ref) \in PaymentTransaction
      BY <2>2 DEF PaymentTransaction
    <3>2. [pay[x] EXCEPT !.ref = call[w].ref] \in PaymentTransaction
      BY <2>2 DEF PaymentTransaction
    <3>3. [pay[x] EXCEPT !.status = "FAILED"] \in PaymentTransaction
      BY <2>2 DEF PaymentTransaction
    <3>4. CASE SaveReference(w)
      BY <3>2, <3>4 DEF SaveReference, TypeOK
    <3>5. CASE FailCheckout(w)
      BY <3>3, <3>5 DEF FailCheckout, TypeOK
    <3>6. CASE SettleFailure(w)
      <4>1. Written("FAILED", "own") \in PaymentTransaction
        BY <3>1 DEF Reference
      <4> QED
        BY <3>6, <4>1 DEF SettleFailure, TypeOK
    <3> QED
      BY <1>3, <3>4, <3>5, <3>6
  <2> QED
    BY <2>1, <2>3, FreeCall DEF TypeOK
<1>4. ASSUME NEW w \in Worker, SaveReferenceFails(w) PROVE TypeOK'
  BY <1>4 DEF SaveReferenceFails, TypeOK, Call, PC
<1>5. ASSUME NEW w \in Worker, NEW x \in Payment, ReceiveWebhook(w, x) \/ Poll(w, x)
      PROVE  TypeOK'
  <2>1. /\ UNCHANGED <<now, sub, pay, payLock, provider>> /\ call[w].pc = "idle"
        /\ call' = [call EXCEPT ![w].pc = "apply", ![w].payment = x,
                                ![w].result = provider[x]]
    BY <1>5 DEF ReceiveWebhook, Poll, Apply, Idle
  <2>2. call[w] \in Call /\ provider[x] \in Collection
    BY DEF TypeOK
  <2>3. [call[w] EXCEPT !.pc = "apply", !.payment = x, !.result = provider[x]] \in Call
    BY <2>2 DEF Call, PC
  <2>4. call' \in [Worker -> Call]
    BY <2>1, <2>3 DEF TypeOK
  <2> QED
    BY <2>1, <2>4 DEF TypeOK
<1>6. ASSUME NEW w \in Worker, ReadTransaction(w) PROVE TypeOK'
  <2>1. UNCHANGED <<now, sub, pay, payLock, provider>> /\ call[w].pc = "apply"
    BY <1>6 DEF ReadTransaction
  <2>2. CASE Free(w)
    BY <2>1, <2>2, FreeCall DEF TypeOK
  <2>3. CASE ~Free(w)
    BY <1>6, <2>1, <2>3 DEF ReadTransaction, TypeOK, Call, PC, Collection
  <2> QED
    BY <2>2, <2>3
<1>7. ASSUME NEW w \in Worker, SettleSuccess(w) PROVE TypeOK'
  <2> DEFINE x == call[w].payment
  <2>1. UNCHANGED <<now, sub, pay, provider>> /\ call[w].pc = "settle"
    BY <1>7 DEF SettleSuccess
  <2>2. CASE Free(w) /\ UNCHANGED payLock
    BY <2>1, <2>2, FreeCall DEF TypeOK
  <2>3. CASE ~(Free(w) /\ UNCHANGED payLock)
    <3>1. /\ payLock[x] = NoWorker
          /\ payLock' = [payLock EXCEPT ![x] = w]
          /\ call' = [call EXCEPT ![w].pc = "activate", ![w].at = now,
                                  ![w].seen = sub[pay[x].org]]
      BY <1>7, <2>3 DEF SettleSuccess
    <3>2. payLock' \in [Payment -> Worker \cup {NoWorker}]
      BY <3>1 DEF TypeOK
    <3>3. sub[pay[x].org] \in Subscription /\ now \in Nat
      BY <1>0, <1>p, <2>1 DEF TypeOK, PaymentTransaction, Naming
    <3>4. call' \in [Worker -> Call]
      <4>1. [call[w] EXCEPT !.pc = "activate", !.at = now,
                            !.seen = sub[pay[x].org]] \in Call
        <5>1. call[w] \in Call
          BY DEF TypeOK
        <5> HIDE DEF x
        <5> QED
          BY <3>3, <5>1 DEF Call, PC
      <4> QED
        BY <3>1, <4>1 DEF TypeOK
    <3>5. \A y \in Payment : payLock'[y] # NoWorker =>
             call'[payLock'[y]].pc = "activate" /\ call'[payLock'[y]].payment = y
      BY <2>1, <3>1 DEF TypeOK, Call
    <3> QED
      BY <2>1, <3>2, <3>4, <3>5 DEF TypeOK
  <2> QED
    BY <2>2, <2>3
<1>8. ASSUME NEW w \in Worker, Activate(w) PROVE TypeOK'
  <2> DEFINE x == call[w].payment
  <2>1. /\ Free(w) /\ UNCHANGED <<now, provider>>
        /\ pay' = [pay EXCEPT ![x].status = "SUCCESS", ![x].ref = "own"]
        /\ payLock' = [payLock EXCEPT ![x] = NoWorker]
        /\ call[w].pc = "activate"
    BY <1>8 DEF Activate
  <2>0. x \in Payment /\ pay[x] \in PaymentTransaction
    BY <1>p, <2>1 DEF Naming
  <2>2. pay' \in [Payment -> PaymentTransaction]
    BY <2>0, <2>1 DEF TypeOK, PaymentTransaction, Reference
  <2>3. PICK end \in Nat, plan \in Plan \cup {NoPlan} :
          sub' = [sub EXCEPT ![pay[x].org] = [status |-> "ACTIVE", plan |-> plan,
                                              periodEnd |-> end, used |-> 0]]
    <3> DEFINE seen == call[w].seen
               at == call[w].at
               base == IF StillActive(seen, at) THEN seen.periodEnd ELSE at
               plan == pay[x].plan
    <3>1. plan \in Plan /\ seen.periodEnd \in Nat /\ at \in Nat
      BY <2>0 DEF TypeOK, PaymentTransaction, Call, Subscription
    <3>2. base + Period[plan] \in Nat
      <4>1. base \in Nat /\ Period[plan] \in Nat
        BY <1>0, <3>1
      <4> QED
        BY <4>1
    <3>3. sub' = [sub EXCEPT ![pay[x].org] = [status |-> "ACTIVE", plan |-> plan,
                                   periodEnd |-> base + Period[plan], used |-> 0]]
      BY <1>8 DEF Activate
    <3> HIDE DEF base
    <3> QED
      BY <3>1, <3>2, <3>3
  <2>4. sub' \in [Org -> Subscription]
    BY <2>3 DEF TypeOK, Subscription, SubStatus
  <2>5. \A y \in Payment : payLock'[y] # NoWorker => payLock'[y] # w
    BY <2>1 DEF TypeOK
  <2> QED
    BY <2>1, <2>2, <2>4, <2>5, FreeCall DEF TypeOK
<1>9. ASSUME NEW w \in Worker, NEW o \in Org,
             GuardReads(w, o) \/ ExtendReads(w, o) \/ QuotaReads(w, o)
      PROVE  TypeOK'
  <2>1. /\ UNCHANGED <<now, sub, pay, payLock, provider>> /\ call[w].pc = "idle"
        /\ \A u \in Worker \ {w} : call'[u] = call[u]
    BY <1>9 DEF GuardReads, ExtendReads, QuotaReads, Idle, TypeOK
  <2>2. call' \in [Worker -> Call]
    <3>1. sub[o] \in Subscription /\ QuotaOf(sub[o]) \in Nat /\ now \in Nat
      BY <1>0, QuotaFacts DEF TypeOK
    <3> QED
      BY SMTT(30), <1>9, <3>1 DEF GuardReads, ExtendReads, QuotaReads, TypeOK, Call, PC
  <2> QED
    BY <2>1, <2>2 DEF TypeOK
<1>10. ASSUME NEW w \in Worker, GuardExpires(w) \/ Extend(w) \/ Consume(w)
       PROVE  TypeOK'
  <2>1. /\ Free(w) /\ call[w].pc # "activate"
        /\ UNCHANGED <<now, pay, payLock, provider>>
    BY <1>10 DEF GuardExpires, Extend, Consume
  <2>2. sub' \in [Org -> Subscription]
    <3>1. /\ call[w].org \in Org /\ call[w].seen.periodEnd \in Nat /\ call[w].at \in Nat
          /\ sub[call[w].org].used \in Nat /\ ExtraDays \in Nat
      BY <1>0 DEF TypeOK, Call, Subscription
    <3>2. Later(call[w].seen.periodEnd, call[w].at) + ExtraDays \in Nat
      BY <3>1 DEF Later
    <3> QED
      BY <1>10, <3>1, <3>2
         DEF GuardExpires, Extend, Consume, TypeOK, Subscription, SubStatus
  <2> QED
    BY <2>1, <2>2, FreeCall DEF TypeOK
<1>11. ASSUME NEW w \in Worker, Abort(w) PROVE TypeOK'
  BY <1>11, FreeCall DEF Abort, TypeOK
<1>12. ASSUME NEW x \in Payment, CustomerAnswers(x) PROVE TypeOK'
  BY <1>12 DEF CustomerAnswers, TypeOK, Collection
<1>13. CASE Tick
  BY <1>0, <1>13 DEF Tick, TypeOK
<1>14. CASE UNCHANGED vars
  BY <1>14 DEF vars, TypeOK
<1> QED
  BY <1>1, <1>2, <1>3, <1>4, <1>5, <1>6, <1>7, <1>8, <1>9, <1>10, <1>11, <1>12,
     <1>13, <1>14 DEF Next, Starts, Step

-----------------------------------------------------------------------------
\* What a step of worker w leaves to the others: recorded payments stay recorded,
\* collected ones collected, no subscription goes back to wait for its first
\* payment, and what another worker has claimed is untouched.
LeavesOthers(w) ==
    /\ \A y \in Payment :
          /\ pay[y].status # "absent" => pay'[y].status # "absent"
          /\ provider[y] = "paid" => provider'[y] = "paid"
          /\ provider[y] = "unknown" =>
                \/ provider'[y] = "unknown"
                \/ call[w].pc = "collect" /\ call[w].payment = y
          /\ payLock[y] \notin {NoWorker, w} =>
                payLock'[y] = payLock[y] /\ pay'[y].status = pay[y].status
    /\ \A o \in Org : sub[o].status # "AWAITING_PAYMENT" =>
                          sub'[o].status # "AWAITING_PAYMENT"
    /\ \A u \in Worker \ {w} : call'[u] = call[u]
    /\ call'[w].pc = "collect" => pay[call'[w].payment].status = "absent"

\* Such a step keeps what the other workers rely on.
LEMMA OthersKeep ==
    ASSUME TypeOK, BillingInv, NEW w \in Worker, LeavesOthers(w), CallInv(w)',
           \A x \in Payment : pay'[x].status = "absent" => provider'[x] = "unknown"
    PROVE  BillingInv'
<1>1. ASSUME NEW u \in Worker \ {w} PROVE CallInv(u)'
  <2>1. call'[u] = call[u] /\ CallInv(u) /\ CallInv(w) /\ u \in Worker /\ u # NoWorker
    BY <1>1, BillingAssumption DEF BillingInv, LeavesOthers
  <2>2. call[u].pc \in Naming => call[u].payment \in Payment
    BY <2>1 DEF CallInv, NamesPayment
  <2>3. call[u].org \in Org
    BY DEF TypeOK, Call
  <2>4. NamesPayment(u)' /\ HeardRight(u)'
    BY <2>1, <2>2 DEF CallInv, NamesPayment, HeardRight, LeavesOthers, Naming
  <2>5. Claims(u)'
    BY <1>1, <2>1, <2>2 DEF CallInv, Claims, LeavesOthers, Naming
  <2>6. MayStillExtend(u)'
    BY <2>1, <2>3 DEF CallInv, MayStillExtend, LeavesOthers
  <2>7. CollectsOnce(u)'
    <3>1. SUFFICES ASSUME call[u].pc = "collect" PROVE CollectsOnce(u)'
      BY <2>1 DEF CollectsOnce
    <3>2. /\ call[u].payment \in Payment /\ pay[call[u].payment].status # "absent"
          /\ provider[call[u].payment] = "unknown"
          /\ call[w].pc = "collect" => call[w].payment # call[u].payment
      BY <1>1, <2>1, <3>1 DEF CallInv, NamesPayment, CollectsOnce, Naming
    <3>3. provider'[call[u].payment] = "unknown"
      BY <3>2 DEF LeavesOthers
    <3>4. ASSUME NEW v \in Worker \ {u}, call'[v].pc = "collect"
          PROVE  call'[v].payment # call[u].payment
      <4>1. CASE v = w
        BY <3>2, <3>4, <4>1 DEF LeavesOthers
      <4>2. CASE v # w
        BY <2>1, <3>1, <3>4, <4>2 DEF LeavesOthers, CallInv, CollectsOnce
      <4> QED
        BY <4>1, <4>2
    <3> QED
      BY <2>1, <3>3, <3>4 DEF CollectsOnce
  <2> QED
    BY <2>4, <2>5, <2>6, <2>7 DEF CallInv
<1> QED
  BY <1>1 DEF BillingInv

\* A call that is over relies on nothing.
LEMMA IdleRelies ==
    ASSUME NEW w \in Worker, call'[w].pc = "idle"
    PROVE  CallInv(w)'
  BY DEF CallInv, NamesPayment, CollectsOnce, HeardRight, Claims,
         MayStillExtend, Naming

\* No step takes from a call what it still relies on.
LEMMA BillingNext == TypeOK /\ BillingInv /\ [Next]_vars => BillingInv'
<1> SUFFICES ASSUME TypeOK, BillingInv, [Next]_vars PROVE BillingInv'
  OBVIOUS
<1>0. NoWorker \notin Worker
  BY BillingAssumption
<1>p. ASSUME NEW w \in Worker, call[w].pc \in Naming
      PROVE  call[w].payment \in Payment /\ pay[call[w].payment].status # "absent"
  BY <1>p DEF BillingInv, CallInv, NamesPayment
\* A call that only reads: what it relies on next decides.
<1>q. ASSUME NEW w \in Worker, UNCHANGED <<sub, pay, payLock, provider>>,
             \A u \in Worker \ {w} : call'[u] = call[u],
             call'[w].pc # "collect", CallInv(w)'
      PROVE  BillingInv'
  <2>1. LeavesOthers(w)
    BY <1>q DEF LeavesOthers
  <2> QED
    BY <1>q, <2>1, OthersKeep DEF BillingInv
<1>1. ASSUME NEW w \in Worker, NEW o \in Org, NEW plan \in Plan, NEW x \in Payment,
             StartCheckout(w, o, plan, x)
      PROVE  BillingInv'
  <2>1. /\ UNCHANGED <<sub, payLock, provider>>
        /\ pay[x].status = "absent" /\ pay'[x].status = "PENDING"
        /\ \A y \in Payment \ {x} : pay'[y] = pay[y]
        /\ call'[w].pc = "collect" /\ call'[w].payment = x
        /\ \A u \in Worker \ {w} : call'[u] = call[u]
    BY <1>1 DEF StartCheckout, TypeOK, Call, PaymentTransaction
  <2>2. /\ provider[x] = "unknown"
        /\ \A u \in Worker : call[u].pc \in Naming => call[u].payment # x
    BY <2>1, <1>p DEF BillingInv
  <2>3. payLock[x] = NoWorker
    BY <2>2 DEF TypeOK, Naming
  <2>4. LeavesOthers(w)
    BY <2>1, <2>3 DEF LeavesOthers
  <2>5. CallInv(w)'
    BY <2>1, <2>2 DEF CallInv, NamesPayment, CollectsOnce, HeardRight, Claims,
                      MayStillExtend, Naming
  <2>6. \A y \in Payment : pay'[y].status = "absent" => provider'[y] = "unknown"
    BY <2>1 DEF BillingInv
  <2> QED
    BY <2>4, <2>5, <2>6, OthersKeep
<1>2. ASSUME NEW w \in Worker, Collect(w) PROVE BillingInv'
  <2> DEFINE x == call[w].payment
  <2>1. x \in Payment /\ pay[x].status # "absent" /\ provider[x] = "unknown"
    BY <1>2, <1>p DEF Collect, Naming, BillingInv, CallInv, CollectsOnce
  <2>2. /\ UNCHANGED <<sub, pay, payLock>> /\ call[w].pc = "collect"
        /\ \A y \in Payment \ {x} : provider'[y] = provider[y]
        /\ call'[w].pc \in {"saveReference", "failCheckout"} /\ call'[w].payment = x
        /\ \A u \in Worker \ {w} : call'[u] = call[u]
    BY <1>2 DEF Collect, TypeOK, Call
  <2>3. LeavesOthers(w)
    BY <2>1, <2>2 DEF LeavesOthers
  <2>4. CallInv(w)'
    BY <2>1, <2>2 DEF CallInv, NamesPayment, CollectsOnce, HeardRight, Claims,
                      MayStillExtend
  <2>5. \A y \in Payment : pay'[y].status = "absent" => provider'[y] = "unknown"
    BY <2>1, <2>2 DEF BillingInv
  <2> QED
    BY <2>3, <2>4, <2>5, OthersKeep
<1>3. ASSUME NEW w \in Worker, SaveReference(w) \/ FailCheckout(w) \/ SettleFailure(w)
      PROVE  BillingInv'
  <2> DEFINE x == call[w].payment
  <2>1. x \in Payment /\ pay[x].status # "absent"
    BY <1>3, <1>p DEF SaveReference, FailCheckout, SettleFailure, Naming
  <2>2. /\ Free(w) /\ payLock[x] = NoWorker
        /\ UNCHANGED <<sub, payLock, provider>>
    BY <1>3 DEF SaveReference, FailCheckout, SettleFailure
  <2>3. /\ pay'[x].status # "absent"
        /\ \A y \in Payment \ {x} : pay'[y] = pay[y]
    BY <1>3, <2>1 DEF SaveReference, FailCheckout, SettleFailure, TypeOK,
                      PaymentTransaction
  <2>4. call'[w].pc = "idle" /\ \A u \in Worker \ {w} : call'[u] = call[u]
    BY <2>2, FreeCall
  <2>5. LeavesOthers(w)
    BY <2>2, <2>3, <2>4 DEF LeavesOthers
  <2>6. \A y \in Payment : pay'[y].status = "absent" => provider'[y] = "unknown"
    BY <2>2, <2>3 DEF BillingInv
  <2> QED
    BY <2>4, <2>5, <2>6, IdleRelies, OthersKeep
<1>4. ASSUME NEW w \in Worker, SaveReferenceFails(w) PROVE BillingInv'
  <2>1. /\ UNCHANGED <<sub, pay, payLock, provider>>
        /\ call[w].pc = "saveReference" /\ call'[w].pc = "failCheckout"
        /\ call'[w].payment = call[w].payment
        /\ \A u \in Worker \ {w} : call'[u] = call[u]
    BY <1>4 DEF SaveReferenceFails, TypeOK, Call
  <2>2. CallInv(w)'
    BY <1>p, <2>1 DEF CallInv, NamesPayment, CollectsOnce, HeardRight, Claims,
                      MayStillExtend, Naming
  <2> QED
    BY <1>q, <2>1, <2>2
<1>5. ASSUME NEW w \in Worker, NEW x \in Payment, ReceiveWebhook(w, x) \/ Poll(w, x)
      PROVE  BillingInv'
  <2>1. /\ UNCHANGED <<sub, pay, payLock, provider>>
        /\ call'[w].pc = "apply" /\ call'[w].payment = x
        /\ call'[w].result = provider[x]
        /\ \A u \in Worker \ {w} : call'[u] = call[u]
    BY <1>5 DEF ReceiveWebhook, Poll, Apply, TypeOK, Call
  <2>2. pay[x].status # "absent"
    BY <1>5 DEF ReceiveWebhook, Poll, BillingInv
  <2>3. CallInv(w)'
    BY <2>1, <2>2 DEF CallInv, NamesPayment, CollectsOnce, HeardRight, Claims,
                      MayStillExtend
  <2> QED
    BY <1>q, <2>1, <2>3
<1>6. ASSUME NEW w \in Worker, ReadTransaction(w) PROVE BillingInv'
  <2>1. UNCHANGED <<sub, pay, payLock, provider>> /\ call[w].pc = "apply"
    BY <1>6 DEF ReadTransaction
  <2>2. CASE Free(w)
    BY <1>q, <2>1, <2>2, FreeCall, IdleRelies
  <2>3. CASE ~Free(w)
    <3>1. /\ call'[w].pc = "settle" /\ call'[w].payment = call[w].payment
          /\ call'[w].result = "paid" => call[w].result = "paid"
          /\ \A u \in Worker \ {w} : call'[u] = call[u]
      BY <1>6, <2>3 DEF ReadTransaction, IsSuccess, TypeOK, Call
    <3>2. CallInv(w)'
      BY <1>p, <2>1, <3>1 DEF BillingInv, CallInv, NamesPayment, CollectsOnce, HeardRight,
                              Claims, MayStillExtend, Naming
    <3> QED
      BY <1>q, <2>1, <3>1, <3>2
  <2> QED
    BY <2>2, <2>3
<1>7. ASSUME NEW w \in Worker, SettleSuccess(w) PROVE BillingInv'
  <2> DEFINE x == call[w].payment
  <2>1. /\ UNCHANGED <<sub, pay, provider>>
        /\ call[w].pc = "settle" /\ call[w].result = "paid"
    BY <1>7 DEF SettleSuccess
  <2>2. x \in Payment /\ pay[x].status # "absent" /\ provider[x] = "paid"
    BY <1>p, <2>1 DEF BillingInv, CallInv, HeardRight, Naming
  <2>3. CASE Free(w) /\ UNCHANGED payLock
    BY <1>q, <2>1, <2>3, FreeCall, IdleRelies
  <2>4. CASE ~(Free(w) /\ UNCHANGED payLock)
    <3>1. /\ payLock[x] = NoWorker /\ pay[x].status = "PENDING"
          /\ payLock' = [payLock EXCEPT ![x] = w]
          /\ call' = [call EXCEPT ![w].pc = "activate", ![w].at = now,
                                  ![w].seen = sub[pay[x].org]]
      BY <1>7, <2>4 DEF SettleSuccess, StillPending
    <3>2. /\ payLock'[x] = w /\ \A y \in Payment \ {x} : payLock'[y] = payLock[y]
          /\ call'[w].pc = "activate" /\ call'[w].payment = x
          /\ \A u \in Worker \ {w} : call'[u] = call[u]
      BY <2>2, <3>1 DEF TypeOK, Call
    <3>3. LeavesOthers(w)
      BY <2>1, <3>1, <3>2 DEF LeavesOthers
    <3>4. CallInv(w)'
      BY <2>1, <2>2, <3>1, <3>2
         DEF CallInv, NamesPayment, CollectsOnce, HeardRight, Claims,
             MayStillExtend
    <3> QED
      BY <2>1, <3>3, <3>4, OthersKeep DEF BillingInv
  <2> QED
    BY <2>3, <2>4
<1>8. ASSUME NEW w \in Worker, Activate(w) PROVE BillingInv'
  <2> DEFINE x == call[w].payment
  <2>1. /\ Free(w) /\ UNCHANGED provider /\ call[w].pc = "activate"
        /\ pay' = [pay EXCEPT ![x].status = "SUCCESS", ![x].ref = "own"]
        /\ payLock' = [payLock EXCEPT ![x] = NoWorker]
    BY <1>8 DEF Activate
  <2>2. x \in Payment /\ payLock[x] = w
    BY <1>p, <2>1 DEF BillingInv, CallInv, Claims, Naming
  <2>3. /\ pay'[x].status = "SUCCESS"
        /\ \A y \in Payment \ {x} : pay'[y] = pay[y] /\ payLock'[y] = payLock[y]
    BY <2>1, <2>2 DEF TypeOK, PaymentTransaction
  <2>4. \A o \in Org : sub'[o] = sub[o] \/ sub'[o].status = "ACTIVE"
    BY <1>8 DEF Activate, TypeOK
  <2>5. call'[w].pc = "idle" /\ \A u \in Worker \ {w} : call'[u] = call[u]
    BY <2>1, FreeCall
  <2>6. LeavesOthers(w)
    BY <2>1, <2>2, <2>3, <2>4, <2>5 DEF LeavesOthers
  <2>7. \A y \in Payment : pay'[y].status = "absent" => provider'[y] = "unknown"
    BY <2>1, <2>3 DEF BillingInv
  <2> QED
    BY <2>5, <2>6, <2>7, IdleRelies, OthersKeep
<1>9. ASSUME NEW w \in Worker, NEW o \in Org,
             GuardReads(w, o) \/ ExtendReads(w, o) \/ QuotaReads(w, o)
      PROVE  BillingInv'
  <2>1. /\ UNCHANGED <<sub, pay, payLock, provider>>
        /\ call'[w].pc \in {"expire", "extend", "consume"}
        /\ call'[w].pc = "extend" => call'[w].org = o /\ MayExtend(sub[o])
        /\ \A u \in Worker \ {w} : call'[u] = call[u]
    BY <1>9 DEF GuardReads, ExtendReads, QuotaReads, TypeOK, Call
  <2>2. CallInv(w)'
    BY <2>1 DEF CallInv, NamesPayment, CollectsOnce, HeardRight, Claims,
                      MayStillExtend, MayExtend, Naming
  <2> QED
    BY <1>q, <2>1, <2>2
<1>10. ASSUME NEW w \in Worker, GuardExpires(w) \/ Extend(w) \/ Consume(w)
       PROVE  BillingInv'
  <2>1. Free(w) /\ UNCHANGED <<pay, payLock, provider>>
    BY <1>10 DEF GuardExpires, Extend, Consume
  <2>2. ASSUME NEW o \in Org, sub[o].status # "AWAITING_PAYMENT"
        PROVE  sub'[o].status # "AWAITING_PAYMENT"
    <3>1. sub[o] \in Subscription
      BY DEF TypeOK
    <3>2. CASE GuardExpires(w)
      BY <2>2, <3>1, <3>2 DEF GuardExpires, TypeOK, Subscription
    <3>3. CASE Extend(w)
      <4>1. sub'[o].status \in {sub[o].status, "TRIAL"}
        BY <3>1, <3>3 DEF Extend, TypeOK, Subscription
      <4> QED
        BY <2>2, <4>1
    <3>4. CASE Consume(w)
      BY <2>2, <3>1, <3>4 DEF Consume, TypeOK, Subscription
    <3> QED
      BY <1>10, <3>2, <3>3, <3>4
  <2>3. call'[w].pc = "idle" /\ \A u \in Worker \ {w} : call'[u] = call[u]
    BY <2>1, FreeCall
  <2>4. LeavesOthers(w)
    BY <2>1, <2>2, <2>3 DEF LeavesOthers
  <2> QED
    BY <2>1, <2>3, <2>4, IdleRelies, OthersKeep DEF BillingInv
<1>11. ASSUME NEW w \in Worker, Abort(w) PROVE BillingInv'
  <2>1. /\ Free(w) /\ UNCHANGED <<sub, pay, provider>>
        /\ \A y \in Payment : payLock[y] # w => payLock'[y] = payLock[y]
    BY <1>11 DEF Abort
  <2>2. call'[w].pc = "idle" /\ \A u \in Worker \ {w} : call'[u] = call[u]
    BY <2>1, FreeCall
  <2>3. LeavesOthers(w)
    BY <2>1, <2>2 DEF LeavesOthers
  <2> QED
    BY <2>1, <2>2, <2>3, IdleRelies, OthersKeep DEF BillingInv
<1>12. ASSUME NEW x \in Payment, CustomerAnswers(x) PROVE BillingInv'
  <2>1. /\ UNCHANGED <<sub, pay, payLock, call>> /\ provider[x] = "waiting"
        /\ \A y \in Payment \ {x} : provider'[y] = provider[y]
    BY <1>12 DEF CustomerAnswers, TypeOK
  <2>2. ASSUME NEW w \in Worker PROVE CallInv(w)'
    <3>1. CallInv(w)
      BY DEF BillingInv
    <3>2. call[w].pc \in Naming => call[w].payment \in Payment
      BY <1>p
    <3> QED
      BY <2>1, <3>1, <3>2 DEF CallInv, NamesPayment, CollectsOnce, HeardRight, Claims,
                              MayStillExtend, Naming
  <2>3. \A y \in Payment : pay'[y].status = "absent" => provider'[y] = "unknown"
    BY <2>1 DEF BillingInv
  <2> QED
    BY <2>2, <2>3 DEF BillingInv
<1>13. CASE UNCHANGED <<sub, pay, payLock, provider, call>>
  BY <1>13 DEF BillingInv, CallInv, NamesPayment, CollectsOnce, HeardRight, Claims,
               MayStillExtend
<1> QED
  BY <1>1, <1>2, <1>3, <1>4, <1>5, <1>6, <1>7, <1>8, <1>9, <1>10, <1>11, <1>12,
     <1>13 DEF Next, Starts, Step, Tick, vars

\* The inductive invariant holds throughout.
LEMMA Invariance == Spec => [](TypeOK /\ BillingInv)
  BY TypeInit, BillingInit, TypeNext, BillingNext, PTL DEF Spec

(* Every reachable state is well typed, and a payment's row is locked only by  *)
(* the call that activates it (billing.service.ts:236-255).                    *)
THEOREM TypeCorrect == Spec => []TypeOK
  BY Invariance, PTL

-----------------------------------------------------------------------------
(* What a step may never do                                                  *)

\* Four operations write subscriptions.
LEMMA SubscriptionWriters ==
    ASSUME [Next]_vars
    PROVE  \/ sub' = sub
           \/ \E w \in Worker : Activate(w) \/ GuardExpires(w) \/ Extend(w) \/ Consume(w)
<1>1. ASSUME NEW w \in Worker, Starts(w) PROVE sub' = sub
  <2>1. \A o \in Org, plan \in Plan, x \in Payment : StartCheckout(w, o, plan, x) => sub' = sub
    BY DEF StartCheckout
  <2>2. \A o \in Org : GuardReads(w, o) \/ ExtendReads(w, o) \/ QuotaReads(w, o) => sub' = sub
    BY DEF GuardReads, ExtendReads, QuotaReads
  <2>3. \A x \in Payment : ReceiveWebhook(w, x) \/ Poll(w, x) => sub' = sub
    BY DEF ReceiveWebhook, Poll
  <2> QED
    BY <1>1, <2>1, <2>2, <2>3 DEF Starts
<1>2. ASSUME NEW w \in Worker,
             \/ Collect(w) \/ SaveReference(w) \/ SaveReferenceFails(w) \/ FailCheckout(w)
             \/ ReadTransaction(w) \/ SettleFailure(w) \/ SettleSuccess(w) \/ Abort(w)
      PROVE  sub' = sub
  BY <1>2 DEF Collect, SaveReference, SaveReferenceFails, FailCheckout, ReadTransaction,
              SettleFailure, SettleSuccess, Abort
<1>3. ASSUME NEW x \in Payment, CustomerAnswers(x) PROVE sub' = sub
  BY <1>3 DEF CustomerAnswers
<1>4. Tick \/ UNCHANGED vars => sub' = sub
  BY DEF Tick, vars
<1> QED
  BY <1>1, <1>2, <1>3, <1>4 DEF Next, Step

\* Five operations write payments.
LEMMA PaymentWriters ==
    ASSUME [Next]_vars
    PROVE  \/ pay' = pay
           \/ \E w \in Worker : \/ SaveReference(w) \/ FailCheckout(w)
                               \/ SettleFailure(w) \/ Activate(w)
                               \/ \E o \in Org, plan \in Plan, y \in Payment :
                                     StartCheckout(w, o, plan, y)
<1>1. ASSUME NEW w \in Worker, Starts(w)
      PROVE  \/ pay' = pay
             \/ \E o \in Org, plan \in Plan, y \in Payment : StartCheckout(w, o, plan, y)
  <2>1. \A o \in Org : GuardReads(w, o) \/ ExtendReads(w, o) \/ QuotaReads(w, o) => pay' = pay
    BY DEF GuardReads, ExtendReads, QuotaReads
  <2>2. \A x \in Payment : ReceiveWebhook(w, x) \/ Poll(w, x) => pay' = pay
    BY DEF ReceiveWebhook, Poll
  <2> QED
    BY <1>1, <2>1, <2>2 DEF Starts
<1>2. ASSUME NEW w \in Worker,
             \/ Collect(w) \/ SaveReferenceFails(w) \/ ReadTransaction(w)
             \/ SettleSuccess(w) \/ GuardExpires(w) \/ Extend(w) \/ Consume(w)
             \/ Abort(w)
      PROVE  pay' = pay
  BY <1>2 DEF Collect, SaveReferenceFails, ReadTransaction, SettleSuccess, GuardExpires,
              Extend, Consume, Abort
<1>3. ASSUME NEW x \in Payment, CustomerAnswers(x) PROVE pay' = pay
  BY <1>3 DEF CustomerAnswers
<1>4. Tick \/ UNCHANGED vars => pay' = pay
  BY DEF Tick, vars
<1> QED
  BY <1>1, <1>2, <1>3, <1>4 DEF Next, Step

\* A payment becomes a success in the step that activates its subscription.
LEMMA SettledByActivate ==
    ASSUME TypeOK, BillingInv, [Next]_vars, NEW x \in Payment, Settles(x)
    PROVE  \E w \in Worker : Activate(w) /\ call[w].payment = x
<1>1. pay'[x] # pay[x]
  BY DEF Settles
<1>2. ASSUME NEW w \in Worker, NEW o \in Org, NEW plan \in Plan, NEW y \in Payment,
             StartCheckout(w, o, plan, y)
      PROVE  FALSE
  BY <1>2 DEF StartCheckout, Settles, TypeOK
<1>3. ASSUME NEW w \in Worker, SaveReference(w) \/ FailCheckout(w) \/ SettleFailure(w)
      PROVE  FALSE
  BY <1>3 DEF SaveReference, FailCheckout, SettleFailure, Settles, TypeOK,
              PaymentTransaction
<1>4. ASSUME NEW w \in Worker, Activate(w)
      PROVE  call[w].payment = x
  BY <1>1, <1>4 DEF Activate, TypeOK
<1> QED
  BY <1>1, <1>2, <1>3, <1>4, PaymentWriters

\* What an activation does to the payment and to its organization.
LEMMA ActivateFacts ==
    ASSUME TypeOK, BillingInv, NEW w \in Worker, Activate(w)
    PROVE  LET x == call[w].payment
           IN  /\ x \in Payment /\ Settles(x)
               /\ pay[x].status = "PENDING" /\ provider[x] = "paid"
               /\ sub'[pay[x].org].status = "ACTIVE"
               /\ sub'[pay[x].org].plan = pay[x].plan
               /\ \A o \in Org \ {pay[x].org} : sub'[o] = sub[o]
<1> DEFINE x == call[w].payment
<1>1. /\ x \in Payment /\ pay[x].status = "PENDING" /\ provider[x] = "paid"
  BY DEF Activate, BillingInv, CallInv, NamesPayment, Claims, Naming
<1>2. pay'[x].status = "SUCCESS"
  BY <1>1 DEF Activate, TypeOK, PaymentTransaction
<1>3. pay[x].org \in Org
  BY <1>1 DEF TypeOK, PaymentTransaction
<1>4. /\ sub'[pay[x].org].status = "ACTIVE"
      /\ sub'[pay[x].org].plan = pay[x].plan
      /\ \A o \in Org \ {pay[x].org} : sub'[o] = sub[o]
  BY <1>3 DEF Activate, TypeOK
<1> QED
  BY <1>1, <1>2, <1>4 DEF Settles

\* Any other step makes no subscription ACTIVE and keeps plan and end of those
\* that stay so.
LEMMA OthersActivateNothing ==
    ASSUME TypeOK, [Next]_vars, \A w \in Worker : ~Activate(w), NEW o \in Org,
           sub'[o].status = "ACTIVE"
    PROVE  /\ sub[o].status = "ACTIVE"
           /\ sub'[o].periodEnd = sub[o].periodEnd
           /\ sub'[o].plan = sub[o].plan
<1>0. sub[o] \in Subscription
  BY DEF TypeOK
<1>1. ASSUME NEW w \in Worker, GuardExpires(w) PROVE sub'[o] = sub[o]
  BY <1>0, <1>1 DEF GuardExpires, TypeOK, Subscription
<1>2. ASSUME NEW w \in Worker, Extend(w) PROVE sub'[o] = sub[o]
  <2>1. o # call[w].org
    BY <1>0, <1>2 DEF Extend, TypeOK, Subscription
  <2> QED
    BY <1>2, <2>1 DEF Extend, TypeOK
<1>3. ASSUME NEW w \in Worker, Consume(w)
      PROVE  /\ sub'[o].status = sub[o].status
             /\ sub'[o].periodEnd = sub[o].periodEnd
             /\ sub'[o].plan = sub[o].plan
  BY <1>0, <1>3 DEF Consume, TypeOK, Subscription
<1>4. \/ sub' = sub
      \/ \E w \in Worker : GuardExpires(w) \/ Extend(w) \/ Consume(w)
  BY SubscriptionWriters
<1> QED
  BY <1>1, <1>2, <1>3, <1>4

(* A subscription becomes ACTIVE, changes plan or gets another paid period     *)
(* only in the step that settles one of its organization's payments, once,      *)
(* from PENDING, and collected in full by CamPay, whatever webhooks, polls,     *)
(* failures and administrators interleave (billing.service.ts:175-311).        *)
THEOREM ActivationCorrect == Spec => ActivationIsPaid
<1>1. ASSUME TypeOK, BillingInv, [Next]_vars, NEW x \in Payment, Settles(x)
      PROVE  /\ pay[x].status = "PENDING" /\ provider[x] = "paid"
             /\ sub'[pay[x].org].status = "ACTIVE"
             /\ sub'[pay[x].org].plan = pay[x].plan
  BY <1>1, SettledByActivate, ActivateFacts
<1>2. ASSUME TypeOK, BillingInv, [Next]_vars, NEW o \in Org,
             sub'[o].status = "ACTIVE",
             \/ sub[o].status # "ACTIVE"
             \/ sub'[o].periodEnd # sub[o].periodEnd
             \/ sub'[o].plan # sub[o].plan
      PROVE  \E x \in Payment : Settles(x) /\ pay[x].org = o
  <2>1. PICK w \in Worker : Activate(w)
    BY <1>2, OthersActivateNothing
  <2>2. pay[call[w].payment].org = o
    BY <1>2, <2>1, ActivateFacts
  <2> QED
    BY <1>2, <2>1, <2>2, ActivateFacts
<1> DEFINE Paid == /\ \A x \in Payment : Settles(x) =>
                         /\ pay[x].status = "PENDING"
                         /\ provider[x] = "paid"
                         /\ sub'[pay[x].org].status = "ACTIVE"
                         /\ sub'[pay[x].org].plan = pay[x].plan
                   /\ \A o \in Org :
                         /\ sub'[o].status = "ACTIVE"
                         /\ \/ sub[o].status # "ACTIVE"
                            \/ sub'[o].periodEnd # sub[o].periodEnd
                            \/ sub'[o].plan # sub[o].plan
                         => \E x \in Payment : Settles(x) /\ pay[x].org = o
<1>3. TypeOK /\ BillingInv /\ [Next]_vars => Paid
  BY <1>1, <1>2
<1>4. TypeOK /\ BillingInv /\ [Next]_vars => [Paid]_vars
  BY <1>3
<1>5. Spec => [][Paid]_vars
  <2> HIDE DEF Paid
  <2> QED
    BY <1>4, Invariance, PTL DEF Spec
<1> QED
  BY <1>5 DEF ActivationIsPaid

(* An organization that chose a paid plan never gets a trial before it has      *)
(* paid, although extensions and expirations write what they read before        *)
(* (subscription-status.util.ts:24-28, admin-organizations.service.ts:209-216). *)
THEOREM AwaitingCorrect == Spec => AwaitingUntilPaid
<1> DEFINE Waits == \A o \in Org : sub[o].status = "AWAITING_PAYMENT" =>
                        sub'[o].status \in {"AWAITING_PAYMENT", "ACTIVE"}
<1>1. ASSUME TypeOK, BillingInv, [Next]_vars, NEW o \in Org,
             sub[o].status = "AWAITING_PAYMENT"
      PROVE  sub'[o].status \in {"AWAITING_PAYMENT", "ACTIVE"}
  <2>0. sub[o] \in Subscription
    BY <1>1 DEF TypeOK
  <2>1. ASSUME NEW w \in Worker, Activate(w)
        PROVE  sub'[o] = sub[o] \/ sub'[o].status = "ACTIVE"
    BY <1>1, <2>1 DEF Activate, TypeOK
  <2>2. ASSUME NEW w \in Worker, GuardExpires(w) PROVE sub'[o] = sub[o]
    BY <1>1, <2>2 DEF GuardExpires, MayExpire, TypeOK
  <2>3. ASSUME NEW w \in Worker, Extend(w) PROVE sub'[o] = sub[o]
    <3>1. o # call[w].org
      BY <1>1, <2>3 DEF Extend, BillingInv, CallInv, MayStillExtend
    <3> QED
      BY <1>1, <2>3, <3>1 DEF Extend, TypeOK
  <2>4. ASSUME NEW w \in Worker, Consume(w) PROVE sub'[o].status = sub[o].status
    BY <2>0, <2>4 DEF Consume, TypeOK, Subscription
  <2>5. \/ sub' = sub
        \/ \E w \in Worker : Activate(w) \/ GuardExpires(w) \/ Extend(w) \/ Consume(w)
    BY <1>1, SubscriptionWriters
  <2> QED
    BY <1>1, <2>1, <2>2, <2>3, <2>4, <2>5
<1>2. TypeOK /\ BillingInv /\ [Next]_vars => [Waits]_vars
  BY <1>1
<1>3. Spec => [][Waits]_vars
  <2> HIDE DEF Waits
  <2> QED
    BY <1>2, Invariance, PTL DEF Spec
<1> QED
  BY <1>3 DEF AwaitingUntilPaid

\* What is written from what was read begins with the reading.
LEMMA Beginnings ==
    ASSUME TypeOK, [Next]_vars, NEW w \in Worker
    PROVE  \/ call'[w] = call[w]
           \/ call'[w].pc \notin {"expire", "extend", "consume"}
           \/ \E o \in Org : GuardReads(w, o) \/ ExtendReads(w, o) \/ QuotaReads(w, o)
<1>n. NoCall.pc = "idle"
  BY DEF NoCall
<1>1. ASSUME NEW u \in Worker, Free(u)
      PROVE  call'[w] = call[w] \/ call'[w].pc \notin {"expire", "extend", "consume"}
  BY <1>1, <1>n DEF Free, TypeOK
<1>2. ASSUME NEW u \in Worker, Starts(u)
      PROVE  \/ call'[w] = call[w]
             \/ call'[w].pc \notin {"expire", "extend", "consume"}
             \/ \E o \in Org : GuardReads(w, o) \/ ExtendReads(w, o) \/ QuotaReads(w, o)
  <2>1. ASSUME NEW o \in Org, NEW plan \in Plan, NEW x \in Payment,
               StartCheckout(u, o, plan, x)
        PROVE  call'[w] = call[w] \/ call'[w].pc = "collect"
    BY <2>1 DEF StartCheckout, TypeOK, Call
  <2>2. ASSUME NEW o \in Org, QuotaReads(u, o), u # w
        PROVE  call'[w] = call[w]
    BY <2>2 DEF QuotaReads, TypeOK
  <2>3. ASSUME NEW x \in Payment, ReceiveWebhook(u, x) \/ Poll(u, x)
        PROVE  call'[w] = call[w] \/ call'[w].pc = "apply"
    BY <2>3 DEF ReceiveWebhook, Poll, Apply, TypeOK, Call
  <2>4. ASSUME NEW o \in Org, GuardReads(u, o) \/ ExtendReads(u, o), u # w
        PROVE  call'[w] = call[w]
    BY <2>4 DEF GuardReads, ExtendReads, TypeOK
  <2> QED
    BY <1>2, <2>1, <2>2, <2>3, <2>4 DEF Starts
<1>3. ASSUME NEW u \in Worker, Collect(u) \/ SaveReferenceFails(u)
      PROVE  call'[w] = call[w] \/ call'[w].pc \in {"saveReference", "failCheckout"}
  BY <1>3 DEF Collect, SaveReferenceFails, TypeOK, Call
<1>4. ASSUME NEW u \in Worker, ReadTransaction(u)
      PROVE  call'[w] = call[w] \/ call'[w].pc \notin {"expire", "extend", "consume"}
  <2>1. CASE Free(u)
    BY <1>1, <2>1
  <2>2. CASE ~Free(u)
    BY <1>4, <2>2 DEF ReadTransaction, TypeOK, Call
  <2> QED
    BY <2>1, <2>2
<1>5. ASSUME NEW u \in Worker, SettleSuccess(u)
      PROVE  call'[w] = call[w] \/ call'[w].pc \notin {"expire", "extend", "consume"}
  <2>1. CASE Free(u)
    BY <1>1, <2>1
  <2>2. CASE ~Free(u)
    BY <1>5, <2>2 DEF SettleSuccess, TypeOK, Call
  <2> QED
    BY <2>1, <2>2
<1>6. ASSUME NEW u \in Worker,
             \/ SaveReference(u) \/ FailCheckout(u) \/ SettleFailure(u) \/ Activate(u)
             \/ GuardExpires(u) \/ Extend(u) \/ Consume(u) \/ Abort(u)
      PROVE  Free(u)
  BY <1>6 DEF SaveReference, FailCheckout, SettleFailure, Activate, GuardExpires,
              Extend, Consume, Abort
<1>7. ASSUME NEW x \in Payment, CustomerAnswers(x) PROVE call' = call
  BY <1>7 DEF CustomerAnswers
<1>8. Tick \/ UNCHANGED vars => call' = call
  BY DEF Tick, vars
<1> QED
  BY <1>1, <1>2, <1>3, <1>4, <1>5, <1>6, <1>7, <1>8 DEF Next, Step

-----------------------------------------------------------------------------
(* The Copilot's counter                                                     *)

\* The calls about to write that have read another quota than o's plan gives.
Outdated(o) == {w \in Worker : /\ call[w].pc = "consume" /\ call[w].org = o
                               /\ call[w].limit # Quota[sub[o].plan]}

\* Each of them may still pass the quota by a unit, and the call that let the
\* counter be reset is none of them.
QuotaInv ==
    \A o \in Org :
        /\ sub[o].plan = NoPlan =>
              /\ sub[o].used <= TrialQuota /\ sub[o].status # "ACTIVE"
              /\ \A w \in Worker : call[w].pc = "consume" /\ call[w].org = o =>
                                    call[w].limit = TrialQuota
        /\ sub[o].status = "ACTIVE" =>
              sub[o].used + Cardinality(Outdated(o))
                <= Quota[sub[o].plan] + Cardinality(Worker) - 1

\* What is counted is finite.
LEMMA OutdatedFinite ==
    ASSUME NEW W, W \subseteq Worker
    PROVE  /\ IsFiniteSet(W) /\ Cardinality(W) \in Nat
           /\ Cardinality(W) <= Cardinality(Worker) /\ Cardinality(Worker) \in Nat
           /\ \A V \in SUBSET W : Cardinality(V) <= Cardinality(W)
           /\ \A w \in Worker \ W : Cardinality(W) <= Cardinality(Worker) - 1
           /\ \A w \in W : Cardinality(W \ {w}) = Cardinality(W) - 1
<1>1. IsFiniteSet(Worker) /\ IsFiniteSet(W)
  BY BillingAssumption, FS_Subset
<1>2. \A V, U \in SUBSET Worker :
        V \subseteq U => Cardinality(V) \in Nat /\ Cardinality(V) <= Cardinality(U)
  BY <1>1, FS_Subset, FS_CardinalityType
<1>3. ASSUME NEW U \in SUBSET Worker, NEW w \in U
      PROVE  Cardinality(U \ {w}) = Cardinality(U) - 1
  BY <1>1, FS_Subset, FS_RemoveElement
<1>4. Cardinality(Worker) \in Nat /\ Cardinality(W) \in Nat
  BY <1>1, FS_CardinalityType
<1>5. ASSUME NEW w \in Worker \ W PROVE Cardinality(W) <= Cardinality(Worker) - 1
  <2>1. Cardinality(W) <= Cardinality(Worker \ {w})
    BY <1>2
  <2> QED
    BY <1>3, <1>4, <2>1
<1> QED
  BY <1>1, <1>2, <1>3, <1>4, <1>5

\* What a step does to the calls that wait to write the counter of o.
LEMMA Consumers ==
    ASSUME TypeOK, [Next]_vars, NEW o \in Org, NEW w \in Worker,
           call'[w].pc = "consume", call'[w].org = o
    PROVE  \/ call'[w] = call[w]
           \/ /\ sub' = sub /\ call'[w].limit = QuotaOf(sub[o])
              /\ sub[o].status \in {"TRIAL", "ACTIVE"}
<1>1. ASSUME NEW p \in Org, GuardReads(w, p) \/ ExtendReads(w, p) PROVE FALSE
  BY <1>1 DEF GuardReads, ExtendReads, TypeOK, Call
<1>2. ASSUME NEW p \in Org, QuotaReads(w, p)
      PROVE  /\ sub' = sub /\ call'[w].limit = QuotaOf(sub[o])
             /\ sub[o].status \in {"TRIAL", "ACTIVE"}
  <2>1. p = o /\ call'[w].limit = QuotaOf(sub[p])
    BY <1>2 DEF QuotaReads, TypeOK, Call
  <2>2. sub[o].status \in SubStatus
    BY DEF TypeOK, Subscription
  <2> QED
    BY <1>2, <2>1, <2>2 DEF QuotaReads, IsLocked, SubStatus
<1> QED
  BY <1>1, <1>2, Beginnings

\* What a step does to the counter of o, to its plan and to its status.
LEMMA CounterStep ==
    ASSUME TypeOK, BillingInv, [Next]_vars, NEW o \in Org
    PROVE  \/ \E w \in Worker :
                /\ call'[w].pc = "idle"
                /\ sub'[o].plan \in Plan /\ sub'[o].used = 0
           \/ \E w \in Worker :
                /\ call[w].pc = "consume" /\ call[w].org = o /\ call'[w].pc = "idle"
                /\ \A u \in Worker \ {w} : call'[u] = call[u]
                /\ sub[o].used < call[w].limit /\ sub'[o].used = sub[o].used + 1
                /\ sub'[o].plan = sub[o].plan /\ sub'[o].status = sub[o].status
           \/ /\ sub'[o].used = sub[o].used /\ sub'[o].plan = sub[o].plan
              /\ sub'[o].status = "ACTIVE" => sub[o].status = "ACTIVE"
<1>0. sub[o] \in Subscription
  BY DEF TypeOK
<1>1. ASSUME NEW w \in Worker, Activate(w), sub'[o] # sub[o]
      PROVE  call'[w].pc = "idle" /\ sub'[o].plan \in Plan /\ sub'[o].used = 0
  <2>1. call[w].payment \in Payment
    BY <1>1 DEF Activate, BillingInv, CallInv, NamesPayment, Naming
  <2>2. pay[call[w].payment].plan \in Plan
    BY <2>1 DEF TypeOK, PaymentTransaction
  <2>3. sub'[o].plan = pay[call[w].payment].plan /\ sub'[o].used = 0
    BY <1>1 DEF Activate, TypeOK
  <2> QED
    BY <1>1, <2>2, <2>3, FreeCall DEF Activate
<1>2. ASSUME NEW w \in Worker, Consume(w), sub'[o] # sub[o]
      PROVE  /\ call[w].pc = "consume" /\ call[w].org = o /\ call'[w].pc = "idle"
             /\ \A u \in Worker \ {w} : call'[u] = call[u]
             /\ sub[o].used < call[w].limit /\ sub'[o].used = sub[o].used + 1
             /\ sub'[o].plan = sub[o].plan /\ sub'[o].status = sub[o].status
  <2>1. /\ call[w].pc = "consume" /\ call[w].org = o /\ MayConsume(w)
        /\ sub' = [sub EXCEPT ![o].used = @ + 1]
    BY <1>2 DEF Consume, TypeOK
  <2> QED
    BY <1>0, <1>2, <2>1, FreeCall DEF Consume, MayConsume, TypeOK, Subscription
<1>3. ASSUME NEW w \in Worker, GuardExpires(w) \/ Extend(w)
      PROVE  sub'[o].used = sub[o].used /\ sub'[o].plan = sub[o].plan
  <2>1. CASE GuardExpires(w)
    <3>1. sub' = sub \/ sub' = [sub EXCEPT ![call[w].org].status = "TRIAL_EXPIRED"]
      BY <2>1 DEF GuardExpires
    <3> QED
      BY SMTT(30), <1>0, <3>1 DEF TypeOK, Subscription
  <2>2. CASE Extend(w)
    <3>1. PICK end : sub' = [sub EXCEPT ![call[w].org].status = "TRIAL",
                                        ![call[w].org].periodEnd = end]
      BY <2>2 DEF Extend
    <3> QED
      BY SMTT(30), <1>0, <3>1 DEF TypeOK, Subscription
  <2> QED
    BY <1>3, <2>1, <2>2
<1>4. (\A w \in Worker : ~Activate(w)) /\ sub'[o].status = "ACTIVE" => sub[o].status = "ACTIVE"
  BY OthersActivateNothing
<1>5. \/ sub' = sub
      \/ \E w \in Worker : Activate(w) \/ GuardExpires(w) \/ Extend(w) \/ Consume(w)
  BY SubscriptionWriters
<1> QED
  <2>1. CASE sub'[o] = sub[o]
    BY <2>1
  <2>2. CASE sub'[o] # sub[o] /\ \E w \in Worker : Activate(w)
    BY <1>1, <2>2
  <2>3. CASE sub'[o] # sub[o] /\ \A w \in Worker : ~Activate(w)
    BY <1>2, <1>3, <1>4, <1>5, <2>3
  <2> QED
    BY <2>1, <2>2, <2>3

LEMMA QuotaNext == TypeOK /\ BillingInv /\ QuotaInv /\ [Next]_vars => QuotaInv'
<1> SUFFICES ASSUME TypeOK, BillingInv, QuotaInv, [Next]_vars, NEW o \in Org
             PROVE  /\ sub'[o].plan = NoPlan =>
                          /\ sub'[o].used <= TrialQuota /\ sub'[o].status # "ACTIVE"
                          /\ \A w \in Worker : call'[w].pc = "consume" /\ call'[w].org = o =>
                                                call'[w].limit = TrialQuota
                    /\ sub'[o].status = "ACTIVE" =>
                          sub'[o].used + Cardinality(Outdated(o)')
                            <= Quota[sub'[o].plan] + Cardinality(Worker) - 1
  BY DEF QuotaInv
<1>t. /\ TrialQuota \in Nat /\ NoPlan \notin Plan
      /\ sub[o].used \in Nat /\ sub[o].plan \in Plan \cup {NoPlan}
      /\ \A p \in Plan : Quota[p] \in Nat
      /\ \A w \in Worker : call[w].limit \in Nat
  BY BillingAssumption DEF TypeOK, Subscription, Call
<1>i. /\ sub[o].plan = NoPlan =>
            /\ sub[o].used <= TrialQuota /\ sub[o].status # "ACTIVE"
            /\ \A w \in Worker : call[w].pc = "consume" /\ call[w].org = o =>
                                  call[w].limit = TrialQuota
      /\ sub[o].status = "ACTIVE" =>
            sub[o].used + Cardinality(Outdated(o)) <= Quota[sub[o].plan] + Cardinality(Worker) - 1
  BY DEF QuotaInv
<1>o. Outdated(o) \subseteq Worker /\ Outdated(o)' \subseteq Worker
  BY DEF Outdated
<1>n. /\ Cardinality(Outdated(o)) \in Nat /\ Cardinality(Outdated(o)') \in Nat
      /\ Cardinality(Worker) \in Nat
  BY <1>o, OutdatedFinite
<1>1. ASSUME NEW w \in Worker, call'[w].pc = "idle", sub'[o].plan \in Plan, sub'[o].used = 0
      PROVE  /\ sub'[o].plan # NoPlan
             /\ sub'[o].used + Cardinality(Outdated(o)')
                   <= Quota[sub'[o].plan] + Cardinality(Worker) - 1
  <2>1. w \notin Outdated(o)'
    BY <1>1 DEF Outdated
  <2>2. Cardinality(Outdated(o)') <= Cardinality(Worker) - 1
    BY <1>o, <2>1, OutdatedFinite
  <2> QED
    BY <1>1, <1>t, <1>n, <2>2
<1>2. ASSUME NEW w \in Worker,
             call[w].pc = "consume", call[w].org = o, call'[w].pc = "idle",
             \A u \in Worker \ {w} : call'[u] = call[u],
             sub[o].used < call[w].limit, sub'[o].used = sub[o].used + 1,
             sub'[o].plan = sub[o].plan, sub'[o].status = sub[o].status
      PROVE  /\ sub'[o].plan = NoPlan =>
                   /\ sub'[o].used <= TrialQuota /\ sub'[o].status # "ACTIVE"
                   /\ \A u \in Worker : call'[u].pc = "consume" /\ call'[u].org = o =>
                                         call'[u].limit = TrialQuota
             /\ sub'[o].status = "ACTIVE" =>
                   sub'[o].used + Cardinality(Outdated(o)')
                     <= Quota[sub'[o].plan] + Cardinality(Worker) - 1
  <2>1. Outdated(o)' = Outdated(o) \ {w}
    BY <1>2 DEF Outdated
  <2>2. CASE w \in Outdated(o)
    <3>1. Cardinality(Outdated(o)') = Cardinality(Outdated(o)) - 1
      BY <1>o, <2>1, <2>2, OutdatedFinite
    <3>2. sub[o].status = "ACTIVE" => Quota[sub[o].plan] \in Nat
      BY <1>t, <1>i
    <3> QED
      BY <1>2, <1>t, <1>i, <1>n, <3>1, <3>2
  <2>3. CASE w \notin Outdated(o)
    <3>1. call[w].limit = Quota[sub[o].plan]
      BY <1>2, <2>3 DEF Outdated
    <3>2. Cardinality(Outdated(o)') <= Cardinality(Worker) - 1
      BY <1>o, <2>1, OutdatedFinite
    <3>3. sub[o].status = "ACTIVE" => sub[o].plan # NoPlan /\ Quota[sub[o].plan] \in Nat
      BY <1>t, <1>i
    <3> QED
      BY <1>2, <1>t, <1>i, <1>n, <3>1, <3>2, <3>3
  <2> QED
    BY <2>2, <2>3
<1>3. ASSUME sub'[o].used = sub[o].used, sub'[o].plan = sub[o].plan,
             sub'[o].status = "ACTIVE" => sub[o].status = "ACTIVE"
      PROVE  /\ sub'[o].plan = NoPlan =>
                   /\ sub'[o].used <= TrialQuota /\ sub'[o].status # "ACTIVE"
                   /\ \A w \in Worker : call'[w].pc = "consume" /\ call'[w].org = o =>
                                         call'[w].limit = TrialQuota
             /\ sub'[o].status = "ACTIVE" =>
                   sub'[o].used + Cardinality(Outdated(o)')
                     <= Quota[sub'[o].plan] + Cardinality(Worker) - 1
  <2>1. ASSUME sub[o].plan = NoPlan, NEW w \in Worker,
               call'[w].pc = "consume", call'[w].org = o
        PROVE  call'[w].limit = TrialQuota
    <3>1. QuotaOf(sub[o]) = TrialQuota \/ sub[o].status # "TRIAL"
      BY DEF QuotaOf
    <3> QED
      BY <1>i, <2>1, <3>1, Consumers
  <2>2. ASSUME sub[o].status = "ACTIVE" PROVE Outdated(o)' \subseteq Outdated(o)
    <3>1. sub[o].plan # NoPlan /\ QuotaOf(sub[o]) = Quota[sub[o].plan]
      BY <1>i, <2>2 DEF QuotaOf
    <3>2. ASSUME NEW w \in Worker, call'[w].pc = "consume", call'[w].org = o,
                 call'[w].limit # Quota[sub'[o].plan]
          PROVE  call'[w] = call[w]
      BY <1>3, <3>1, <3>2, Consumers
    <3> QED
      BY <1>3, <3>2 DEF Outdated
  <2>3. ASSUME sub[o].status = "ACTIVE"
        PROVE  Cardinality(Outdated(o)') <= Cardinality(Outdated(o)) /\ Quota[sub[o].plan] \in Nat
    BY <1>o, <1>i, <1>t, <2>2, <2>3, OutdatedFinite
  <2> QED
    BY <1>3, <1>t, <1>i, <1>n, <2>1, <2>3
<1> QED
  BY <1>1, <1>2, <1>3, CounterStep

(* However many Copilot calls run at once, the quota of a trial is never        *)
(* passed, and that of a plan by no more than one unit for each call but the    *)
(* one that ended with the payment (copilot-quota.service.ts:57-79).            *)
THEOREM QuotaCorrect == Spec => []QuotaHolds
<1>1. Init => QuotaInv
  <2> SUFFICES ASSUME Init, NEW o \in Org
               PROVE  sub[o].used = 0 /\ sub[o].status # "ACTIVE" /\ Outdated(o) = {}
    BY BillingAssumption DEF QuotaInv, Init, NoCall
  <2>1. sub[o] \in InitialSubscription
    BY DEF Init
  <2>2. sub[o].used = 0 /\ sub[o].status # "ACTIVE"
    BY <2>1 DEF InitialSubscription, NoSubscription
  <2>3. \A w \in Worker : call[w].pc = "idle"
    BY DEF Init, NoCall
  <2> QED
    BY <2>2, <2>3 DEF Outdated
<1>2. TypeOK /\ QuotaInv => QuotaHolds
  <2> SUFFICES ASSUME TypeOK, QuotaInv, NEW o \in Org, sub[o].status = "ACTIVE"
               PROVE  sub[o].used <= Quota[sub[o].plan] + Cardinality(Worker) - 1
    BY DEF QuotaHolds, QuotaInv
  <2>1. sub[o].used \in Nat /\ sub[o].plan \in Plan
    BY DEF TypeOK, Subscription, QuotaInv
  <2>2. Quota[sub[o].plan] \in Nat
    BY <2>1, BillingAssumption
  <2>3. Outdated(o) \subseteq Worker
    BY DEF Outdated
  <2>4. Cardinality(Outdated(o)) \in Nat /\ Cardinality(Worker) \in Nat
    BY <2>3, OutdatedFinite
  <2>5. sub[o].used + Cardinality(Outdated(o)) <= Quota[sub[o].plan] + Cardinality(Worker) - 1
    BY DEF QuotaInv
  <2> QED
    BY <2>1, <2>2, <2>4, <2>5
<1>3. Spec => [](TypeOK /\ BillingInv /\ QuotaInv)
  BY <1>1, TypeInit, BillingInit, TypeNext, BillingNext, QuotaNext, PTL DEF Spec
<1> QED
  BY <1>2, <1>3, PTL

-----------------------------------------------------------------------------
(* Without administrators                                                    *)

\* Nobody extends a trial, and a trial about to be marked, or marked, is over.
TrialInv ==
    /\ \A w \in Worker : call[w].pc # "extend"
    /\ \A w \in Worker : call[w].pc = "expire" =>
          /\ call[w].org \in Org
          /\ sub[call[w].org].status = "TRIAL" => sub[call[w].org].periodEnd < now
    /\ ExpiredTrialIsOver

\* Nobody is about to do anything to a trial at first.
LEMMA TrialInit == Init => TrialInv
<1> SUFFICES ASSUME Init PROVE TrialInv
  OBVIOUS
<1>1. \A w \in Worker : call[w].pc = "idle"
  BY DEF Init, NoCall
<1>2. ASSUME NEW o \in Org PROVE sub[o].status # "TRIAL_EXPIRED"
  <2>1. sub[o] \in InitialSubscription
    BY DEF Init
  <2> QED
    BY <2>1 DEF InitialSubscription, NoSubscription
<1> QED
  BY <1>1, <1>2 DEF TrialInv, ExpiredTrialIsOver

\* What a step does to a trial and to an ended one, when nobody extends them.
LEMMA TrialStep ==
    ASSUME TypeOK, TrialInv, [Next]_vars, NEW o \in Org
    PROVE  /\ sub'[o].status \in {"TRIAL", "TRIAL_EXPIRED"} =>
                /\ sub[o].status \in {"TRIAL", "TRIAL_EXPIRED"}
                /\ sub'[o].periodEnd = sub[o].periodEnd
           /\ sub'[o].status = "TRIAL" => sub[o].status = "TRIAL"
           /\ sub'[o].status = "TRIAL_EXPIRED" => sub[o].periodEnd < now
           /\ sub[o].status = "ACTIVE" => sub'[o].status = "ACTIVE"
<1>0. sub[o] \in Subscription
  BY DEF TypeOK
<1>1. CASE sub'[o] = sub[o]
  BY <1>1 DEF TrialInv, ExpiredTrialIsOver
<1>2. ASSUME NEW w \in Worker, Activate(w)
      PROVE  sub'[o] = sub[o] \/ sub'[o].status = "ACTIVE"
  BY <1>2 DEF Activate, TypeOK
<1>3. ASSUME NEW w \in Worker, GuardExpires(w), sub'[o] # sub[o]
      PROVE  /\ sub[o].status = "TRIAL" /\ sub[o].periodEnd < now
             /\ sub'[o].status = "TRIAL_EXPIRED" /\ sub'[o].periodEnd = sub[o].periodEnd
  <2>1. /\ call[w].pc = "expire" /\ call[w].org = o /\ sub[o].status = "TRIAL"
        /\ sub' = [sub EXCEPT ![o].status = "TRIAL_EXPIRED"]
    BY <1>3 DEF GuardExpires, MayExpire, TypeOK
  <2> QED
    BY <1>0, <2>1 DEF TrialInv, TypeOK, Subscription
<1>4. ASSUME NEW w \in Worker, Consume(w)
      PROVE  sub'[o].status = sub[o].status /\ sub'[o].periodEnd = sub[o].periodEnd
  BY <1>0, <1>4 DEF Consume, TypeOK, Subscription
<1>5. \A w \in Worker : ~Extend(w)
  BY DEF Extend, TrialInv
<1>6. sub[o].status = "TRIAL_EXPIRED" => sub[o].periodEnd < now
  BY DEF TrialInv, ExpiredTrialIsOver
<1>7. \/ sub' = sub
      \/ \E w \in Worker : Activate(w) \/ GuardExpires(w) \/ Extend(w) \/ Consume(w)
  BY SubscriptionWriters
<1> QED
  BY <1>1, <1>2, <1>3, <1>4, <1>5, <1>6, <1>7

\* The clock does not go back.
LEMMA NowGrows == TypeOK /\ [Next]_vars => now' \in Nat /\ now' >= now
<1> SUFFICES ASSUME TypeOK, [Next]_vars PROVE now' \in Nat /\ now' >= now
  OBVIOUS
<1>1. now \in Nat
  BY BillingAssumption DEF TypeOK
<1>2. ASSUME NEW w \in Worker, Starts(w) PROVE now' = now
  BY <1>2 DEF Starts, StartCheckout, GuardReads, ExtendReads, QuotaReads, ReceiveWebhook, Poll
<1>3. ASSUME NEW w \in Worker, Step(w) \/ SaveReferenceFails(w) \/ Abort(w)
      PROVE  now' = now
  BY <1>3 DEF Step, Collect, SaveReference, SaveReferenceFails, FailCheckout, ReadTransaction,
              SettleFailure, SettleSuccess, Activate, GuardExpires, Extend, Consume, Abort
<1>4. \A x \in Payment : CustomerAnswers(x) => now' = now
  BY DEF CustomerAnswers
<1>5. Tick => now' = now + 1
  BY DEF Tick
<1>6. UNCHANGED vars => now' = now
  BY DEF vars
<1> QED
  BY <1>1, <1>2, <1>3, <1>4, <1>5, <1>6 DEF Next

\* Without administrators no step breaks the invariant of trials.
LEMMA TrialNext ==
    AdminWorker = {} /\ TypeOK /\ TrialInv /\ [Next]_vars => TrialInv'
<1> SUFFICES ASSUME AdminWorker = {}, TypeOK, TrialInv, [Next]_vars PROVE TrialInv'
  OBVIOUS
<1>1. now \in Nat /\ now' \in Nat /\ now' >= now
  BY NowGrows, BillingAssumption DEF TypeOK
<1>2. \A o \in Org : sub[o].periodEnd \in Nat
  BY DEF TypeOK, Subscription
<1>3. \A w \in Worker, o \in Org :
        ~ExtendReads(w, o) /\ (QuotaReads(w, o) => call'[w].pc = "consume")
  BY DEF ExtendReads, QuotaReads, TypeOK, Call
<1>4. ASSUME NEW w \in Worker, call'[w].pc = "extend" PROVE FALSE
  <2>1. \A o \in Org : GuardReads(w, o) => call'[w].pc = "expire"
    BY DEF GuardReads, TypeOK, Call
  <2> QED
    BY <1>3, <1>4, <2>1, Beginnings DEF TrialInv
<1>5. ASSUME NEW w \in Worker, call'[w].pc = "expire"
      PROVE  /\ call'[w].org \in Org
             /\ sub'[call'[w].org].status = "TRIAL" => sub'[call'[w].org].periodEnd < now'
  <2>1. CASE call'[w] = call[w]
    <3>1. /\ call[w].org \in Org
          /\ sub[call[w].org].status = "TRIAL" => sub[call[w].org].periodEnd < now
      BY <1>5, <2>1 DEF TrialInv
    <3>2. /\ sub'[call[w].org].status = "TRIAL" => sub[call[w].org].status = "TRIAL"
          /\ sub'[call[w].org].status = "TRIAL" =>
                sub'[call[w].org].periodEnd = sub[call[w].org].periodEnd
      BY <3>1, TrialStep
    <3> QED
      BY <1>1, <1>2, <2>1, <3>1, <3>2
  <2>2. ASSUME NEW o \in Org, GuardReads(w, o)
        PROVE  /\ call'[w].org = o /\ sub'[o] = sub[o] /\ now' = now
               /\ sub[o].periodEnd < now
    BY <2>2 DEF GuardReads, TrialOver, IsLocked, TypeOK, Call
  <2> QED
    BY <1>3, <1>5, <2>1, <2>2, Beginnings
<1>6. ASSUME NEW o \in Org, sub'[o].status = "TRIAL_EXPIRED"
      PROVE  sub'[o].periodEnd < now'
  <2>1. sub'[o].periodEnd = sub[o].periodEnd /\ sub[o].periodEnd < now
    BY <1>6, TrialStep
  <2> QED
    BY <1>1, <1>2, <2>1
<1> QED
  BY <1>4, <1>5, <1>6 DEF TrialInv, ExpiredTrialIsOver

(* Only a trial whose end has passed is marked TRIAL_EXPIRED, although the       *)
(* guard writes after its answer what it read before it, as long as no           *)
(* administrator extends trials: run expired_extension shows what one does        *)
(* (subscription.guard.ts:55-82, schema.prisma:64).                              *)
THEOREM TrialsEndInTime ==
    ASSUME AdminWorker = {}
    PROVE  Spec => []ExpiredTrialIsOver
<1>1. TypeOK /\ TrialInv /\ [Next]_vars => TrialInv'
  BY TrialNext
<1>2. TrialInv => ExpiredTrialIsOver
  BY DEF TrialInv
<1> QED
  BY <1>1, <1>2, TrialInit, Invariance, PTL DEF Spec

(* A paid subscription is never turned back into a trial by the guard's late      *)
(* write, as long as no administrator extends trials: run overwritten_active       *)
(* shows what one does (subscription.guard.ts:57-66).                            *)
THEOREM PaidStaysPaid ==
    ASSUME AdminWorker = {}
    PROVE  Spec => ActiveStaysActive
<1> DEFINE Stays == \A o \in Org : sub[o].status = "ACTIVE" => sub'[o].status = "ACTIVE"
<1>1. TypeOK /\ TrialInv /\ [Next]_vars => [Stays]_vars
  BY TrialStep
<1>2. TypeOK /\ TrialInv /\ [Next]_vars => TrialInv'
  BY TrialNext
<1>3. Spec => [][Stays]_vars
  <2> HIDE DEF Stays
  <2> QED
    BY <1>1, <1>2, TrialInit, Invariance, PTL DEF Spec
<1> QED
  BY <1>3 DEF ActiveStaysActive

=============================================================================
