# Formal verification of UGE

UGE is a multi-tenant ERP for small businesses: a NestJS API over PostgreSQL
(`apps/api`), a React client (`apps/web`), a library for the language-model
assistant (`packages/copilot-engine`) and shared types (`packages/shared`).

This directory holds TLA+ models of its services and of the parts of the web
client that keep a state of their own, the TLC configurations that check them on
small instances, and proofs, checked by TLAPS, that their main safety properties
hold for any number of products, calls, tenants, users and rows.

All paths below are relative to the repository; `modules/` stands for
`apps/api/src/modules/`, `common/` for `apps/api/src/common/` and `web/` for
`apps/web/src/`.

## 1. The system

Several Node processes, or several requests of one process, run concurrently; the
only state they share is the database. Prisma runs `$transaction(async tx => ...)`
under PostgreSQL's READ COMMITTED with a 5 s time-out; elsewhere each statement
commits on its own. Three consequences make the API hard to test:

* a plain read takes no lock, and what it returned may be out of date when it is
  used;
* an UPDATE waits for the row lock and re-evaluates its WHERE clause on the
  latest row, so a condition is safe only *inside* the UPDATE;
* two transactions may wait for each other.

The web client adds three more: requests of one tab are answered in any order,
what it decides on is a cache, and a page that is left forgets requests that go on.

| Component | State it keeps | Operations | Talks to | What is hard | What makes it correct |
|---|---|---|---|---|---|
| stock (`modules/stock`) | `products.stockQuantity`, `stock_movements` | `recordIn`, `recordOut`, `recordAdjustment`, the two `…InTransaction` helpers | called by sales and purchases inside their transactions | unlocked reads before a write, oversell, INTEGER range | no lost update, never negative, every movement documents its step |
| sales (`modules/sales`) | `sales`, `sale_items` | `create` | stock, products | several rows in one transaction, locked in the order of the lines | all-or-nothing, prices and costs frozen at commit, no call waits for ever |
| purchases (`modules/purchases`) | `purchase_orders`, `purchase_order_items` | `create`, `receive`, `cancel` | stock, products (purchase price) | status tested on an unlocked read and written unconditionally | goods booked once, status follows the goods |
| products (`modules/products`) | `products` | `create`, `update`, `archive`, import | stock (initial quantity), import wizard | SKUs read, then inserted in another statement | an import is all-or-nothing and accounts for every row |
| suppliers (`modules/suppliers`) | `suppliers` | CRUD | purchases | — | tenant scoping |
| billing (`modules/billing`), campay (`modules/campay`) | `subscriptions`, `payment_transactions` | `checkout`, webhook, poll, `applyPaymentResult`, `activateSubscription` | CamPay (mobile money), auth (initial row), web page (polls) | duplicated, reordered or lost webhooks; calls that fail after they took effect; two payments at once | activation is paid for and happens once, a paid period is never lost |
| subscription guard, status, quota (`common/guards`, `common/subscription`, `common/entitlements`) | `subscriptions.status`, `copilotRequestsUsed` | `canActivate`, `consumeOne` | every protected route | background write after the answer, counter shared by concurrent calls | a paid subscription is not expired, quota is bounded |
| platform administration (`modules/admin`, `web/admin`) | `organizations.suspendedAt`, `admin_audit_logs`, the administrator's tab | sign-in, consultation, `suspend`, `reactivate`, `extendTrial`, paging of the log | billing's rows | test, then write; trace in another statement; rows that move between pages | the log tells the state and every access, and can be read without a gap |
| authentication (`modules/auth`) | `refresh_tokens`, `login_verifications`, `password_reset_tokens`, `email_verification_tokens` | `register`, `login`, `verify`, `resend`, `refresh`, `logout`, `forgotPassword`, `resetPassword`, `verifyEmail` | users, mail, web client | rotation and codes read, then written | attempts are bounded, a code opens one session, a reset closes sessions |
| organizations, users, invitations (`modules/organizations`, `users`, `invites`) | `organizations`, `users`, `pending_invites` | register, create and accept an invitation, update | entitlements, auth | SERIALIZABLE with retries; acceptance not tested again | one founder, one user per invitation, seats within the plan |
| copilot (`modules/copilot`, `packages/copilot-engine`, `web/pages/copilot`) | the conversation, in the page | `chat`, daily report: loop of tool calls | the language model, reports, forecast, … | the model may ask for tools for ever; late answers | ends within `maxToolIterations`; answers follow their questions |
| whatsapp (`modules/whatsapp`) | none | inbound webhook, `sendText`, daily report | copilot, Meta | acknowledged before processed, delivered again | one reply per acknowledged delivery |
| reports, finance, forecast, fraud, commercial, purchasing analyses | expenses only | reads | stock movements, sales | reconstruct the past from movements | agree with the ledger |
| web session client (`web/lib/apiClient.ts`, `web/auth`) | tokens in local storage, user displayed | requests, refresh, restore, logout | auth | concurrent refreshes of one token | the stored token is alive; requests end |
| web routes (`web/routes`, onboarding, payment pages) | route, cached organization | redirections, onboarding, payment | organizations, billing | decisions on a stale cache | who has paid enters; redirections settle |
| web pages (`web/pages`, `web/hooks`) | TanStack Query's cache | queries and mutations | every controller | each mutation lists by hand what it makes stale; guards written twice | pages show what their user did, and offer what the API accepts |
| import wizard (`web/import`) | file, columns, step | choose, read, associate, import | products | several files read at once | nothing is imported unmapped |
| mail, health, config, filters, interceptors, time, validators, seed, shared, public pages | — | input and output, functions, declarations | | | |

`PROJECT.json` repeats this list with the status of each component and lists, line
by line, the hazards found in the code (`hazards`) with the properties that cover
them.

## 2. The modules

| Module | What it is |
|---|---|
| `StockLedger` | What the stock services promise: a stock and an append-only ledger per product; a call posts once, all at once. |
| `Inventory` | Stock, sales, purchases and price updates, statement by statement, over rows with locks. Implements `StockLedger`. |
| `Billing` | Subscriptions, payments, CamPay, the guard, the quota and the extension of trials. |
| `Sessions` | Login challenges, refresh tokens, links sent by mail. |
| `WebClient` | The session of a tab; EXTENDS `Sessions`: each request of the tab is a call of the API. |
| `Accounts` | Organizations, users, invitations and seats. |
| `Assistant` | The copilot's page, the engine, the WhatsApp webhook. |
| `Administration` | The back office and its audit log. |
| `Catalogue` | Products, their SKUs, the import and its wizard. |
| `Screens` | Pages, their queries and changes, and the guards that answer. |
| `Routing` | Redirections on the cached organization, onboarding, payment pages. |
| `MCInventory`, `MCBilling`, `MCRouting` | Small instances of one component. |
| `MCShop`, `MCCustomers`, `MCPlatform` | Runs of several components, one *scene* per behaviour (section 3). |
| `Selection` | The rows of a table a condition selects, in order, and how many; used by `Inventory` and `Catalogue`. |
| `InventoryProofs`, `BillingProofs`, `SessionsProofs`, `AccountsProofs`, `AdministrationProofs`, `AssistantProofs`, `WebProofs` | Theorems (section 4). |
| `Rows` | Lemmas about tables kept as sequences of rows and about selections of them, used by the proofs. |

Tables are sequences of rows in the order of their creation, or functions when
their rows exist from the start. A call in progress is a record: the step it is at
and the local variables it will still use. A variable whose comment says it
*observes* is history for the properties and never read by a guard. A definition
preceded by `Variant:` is the plausible bug that a mutant of `PROJECT.json` puts in
the place of the definition that follows it.

### Inventory

A *request* is one HTTP call running in one transaction. `req[t]` is its program
counter and local variables: the input, the item it is at, the quantity read
without a lock (`seen`), the sale lines built so far. `rows[p]` is the committed
row of product `p` together with its movements, in commit order; `draft[p]` the
same as the transaction that holds `lock[p]` sees it. `Visible` is what READ
COMMITTED shows, `CanLock` when an UPDATE proceeds.

| Action | Code |
|---|---|
| `Submit` | a controller is called; the first statement depends on the operation |
| `CheckOrder` | `purchase-orders.service.ts` `receive`, `cancel`: unlocked read and test of the status |
| `ReadProduct` | `stock.service.ts:32, 152`: unlocked read that ends in `previousQuantity` |
| `Increment` | `incrementStockInTransaction` after its read; for a reception also the purchase price |
| `Decrement` | `decrementStockInTransaction`: guarded `updateMany`, read back, movement; for a sale its line |
| `Adjust` | `recordAdjustment` after its read |
| `Finish` | last statement (order status, sale) and commit |
| `Refuse` | every exception the code throws in these places, and the rollback |
| `Abort`, `TimeOut` | failure at any moment; Prisma's time-out or PostgreSQL's deadlock victim |
| `CreateOrder`, `UpdatePrices` | single-statement calls (products are looked up first, their owner never changes) |

An UPDATE and the statements that follow while its row stays locked are one step:
nobody can see or change what is between them. `receive` updates the stock and
the purchase price in two UPDATEs of one row, for that reason one step. The
totals of sales and orders are sums of lines and are left out, as are notes,
customers and dates. In `Init`, a product has its initial stock and no movement,
as `ProductsService.create` leaves it. An order's status is written and committed
in one step: the row lock it takes could only delay it.

### Billing

`sub[o]` and `pay[x]` are the rows; `payLock[x]` the row lock taken by the
conditional `updateMany` that claims a payment; `provider[x]` the collection as
CamPay knows it; `call[w]` what worker `w` is doing: its local variables are
those the code reads before it writes. `checkout`, webhook and poll, guard, quota
and extension are each split where another process can run: between two
statements outside a transaction, or between a read and a write inside one.

CamPay is external. It may accept a collection, refuse it, accept it and have its
answer lost, or answer a body without a reference, which `String(undefined)` turns
into a reference of its own (`Reference = "other"`). Webhooks are repeatable as
soon as the customer has answered (`ReceiveWebhook`), in any order, or never come.
`otherAmount` stands for any mismatch of amount or currency.

Time is a counter; periods, trials and extensions last one or two units. A plan is
its period and its quota. Plan lookups, calls refused before they write anything, and
listings are left out.

### Sessions

`job[c]` is an API call; every statement commits alone, except the transactions of
`resetPassword` and `verifyEmail`, and `CrashCall` stops a call after any of them. The
two statements of `verifyEmail` touch rows that nobody else reads meanwhile and are one
step, which waits for a reset that holds the row of the user; those of `resetPassword` are three: the UPDATE of the user, which locks its row
against another reset, the UPDATE of the sessions, which sees those committed when it
starts and locks them, and the COMMIT, which publishes all.
A code is the number of times one was sent for its challenge, so that a call either
carries the last one sent when it began, or any other (0). `password` is a version
number; `issued` says under which version the call that opened a session began, and
`until` the last version it may be found under, which is the next one when it is
inserted while a reset has closed the sessions it saw and not committed yet.

| Action | Code (`modules/auth/auth.service.ts`) |
|---|---|
| `Login`, `Invalidate`, `CreateChallenge` | `login`, `createLoginVerification`: the password is tested, the challenges in progress are closed, a new one is inserted |
| `Verify`, `CloseChallenge`, `Reserve`, `Compare`, `ConsumeCode`, `Issue` | `verifyLoginCode`: test, closing of an exhausted challenge, conditional reservation of an attempt, comparison with the code read afterwards, conditional consumption, session |
| `Resend`, `Regenerate` | `resendLoginCode`: test of cooldown and lifetime, then an unconditional update |
| `RefreshReads`, `Revoke`, `Issue` | `refresh`: the token is read as not revoked, revoked without a condition, another is issued |
| `OpenSession` | the other calls that issue tokens (registration, accepted invitation) |
| `FollowLink`, `ResetPassword`, `SweepSessions`, `CommitReset` | `resetPassword`: test of the link, the transaction statement by statement |
| `Logout`, `SendLink`, `VerifyEmail` | `logout`, `forgotPassword`, `sendVerificationEmail`, `verifyEmail` |

A session issued after a reset by a call that began before it keeps the version that call
began under: `LiveSessionsFollowPassword` allows it as such, and section 3 says what that
leaves of the comment in the code. Hashing, signatures and the wording of mails are left
out.

### WebClient

One tab: `store` is local storage, `user` and `loading` the state of `AuthProvider`,
`request[c]` a request of the tab, which is also the call `c` of `Sessions`: the API
executes `RefreshReads`, `Revoke` and `Issue`, and the answer names the token issued.

| Action | Code |
|---|---|
| `LoadPageAgain` | `AuthContext.tsx`: the session is restored from the tokens; the requests of the page are forgotten |
| `Ask`, `AskSession` | a query or mutation; a login, registration or invitation |
| `Serve`, `ServeSession`, `ReadAnswer`, `SessionOpened` | the guard of the API, the answer |
| `HandleDenied`, `TryRefresh`, `Refreshed` | `apiClient.ts`: on 401, one exchange of the stored token and one retry; else the session is forgotten |
| `LoseAnswer`, `LogoutOfTab`, `ExpireAccess` | network failure; logout, which never calls the API; expiry of the access token |

### Accounts

| Action | Code |
|---|---|
| `Register`, `FoundCompany` | `auth.service.ts` `register`: address tested, then organization, owner and subscription in one transaction; a unique index refuses the loser of a race |
| `Invite`, `Count`, `Insert`, `Retry` | `invites.service.ts` `create`: the limit is read, seats are counted and the row inserted in a SERIALIZABLE transaction, retried on conflict |
| `Accept`, `Join` | `accept`: tests, then user and `acceptedAt` in one transaction that tests nothing again |
| `ChangePlan`, `NextDay`, `DropErrand` | the subscription changes; time; a call that stops |

SERIALIZABLE is modelled by `Conflicts`: an insertion that another transaction which
overlapped it has made obsolete may not commit. PostgreSQL may refuse more than that
(`MayFail`).

### Assistant

`exchange[e]` is a call of the engine: of one of the three mutations of the page, or
of a worker of the webhook. The model answers, or asks for any set of tools; `long`
marks an answer that the API will refuse in the next question.

| Action | Code |
|---|---|
| `SendMessage`, `HandleDailyReport`, `HandleSendWhatsAppReport`, `ClearConversation`, `LeavePage`, `Conclude` | `web/pages/copilot/CopilotPage.tsx`, `useCopilot.ts` |
| `ConsumeQuota` | `CopilotQuotaGuard`, which counts before the body is validated (`ValidChat`) |
| `AskModel`, `ExecuteTool`, `FailExchange` | `copilot-engine.ts`: one turn of the loop, its tools one after the other |
| `ReceiveWebhook` | `whatsapp-webhook.controller.ts`: acknowledged, then processed; Meta delivers the batch again when the acknowledgement is lost |
| `NextInbound`, `SendText`, `DropInbound` | `processInbound`: texts in order; the first failure, or a crash, drops the rest |

### Administration

`task[a]` is the API call of an administrator's tab, `tab[a]` what it keeps: token,
files shown, page of the log.

| Action | Code |
|---|---|
| `SignInOffice`, `EnterOffice`, `LoadOffice`, `Restore`, `TurnedAway`, `SignOut`, `ExpireToken`, `Disable` | `platform-admin-auth.service.ts`, `AdminAuthContext.tsx`, `adminApiClient.ts`; only `/me` looks the administrator up again |
| `View`, `ShowFile` | `admin-organizations.controller.ts:36-42`: read, then traced, then answered |
| `Decide`, `ApplyDecision`, `CommitDecision`, `FailTask` | `suspend`, `reactivate`: unlocked test, then UPDATE and trace in one transaction |
| `OpenJournal`, `TurnPage` | `AdminAuditLogsPage.tsx`, `admin-audit-log.service.ts`: pages by offset from the newest row |

The log is ordered by `createdAt`, here the order of commits; rows that tie or whose
clocks disagree would make the order of pages undefined.

### Catalogue

| Action | Code |
|---|---|
| `ChooseFile`, `FileRead`, `Associate`, `Preview`, `BackToMapping`, `ResetWizard`, `RemountWizard`, `ClickImport` | `web/import/ImportWizard.tsx`; files are read asynchronously, in any order |
| `ReadExisting`, `InsertRows`, `ImportAnswered`, `LoseImport` | `products-import.service.ts`: validation and the SKUs that exist, one transaction, the answer |
| `TestSku`, `CreateProduct`, `UpdateProduct` | `products.service.ts`: SKU tested, then inserted; the unique index decides |

### Screens

For one user, one page and one query at a time (entries of TanStack Query's cache do
not depend on each other): `Served` reads the table of controllers, with the roles,
the feature and the tables of each; `Page(p)` what a page asks and what it offers to
the role and the features it knows; `Hooks` what each mutation invalidates.

| Action | Code |
|---|---|
| `SignIn`, `Visit`, `LearnFeatures` | routes and `RoleGuard`; the organization is cached |
| `ChangeStanding` | the subscription changes under the user |
| `ServeQuery`, `LoseQuery`, `Arrive`, `Fail` | the guards of the API and the fetch, retried once; the refusal of an expired subscription redirects |
| `SubmitMutation`, `Perform`, `LoseChange`, `Succeed` | a change of the page, its answer, `invalidateQueries` |

### Routing

`cachedFirm` is the cache entry of the organization and `lookup` the request that
fills it, which only some places ask (`AsksFirm`). A redirection is a step of its own.
An organization is open, locked for its subscription, or suspended, which hides the
rest: a payment opens a locked one and does nothing to a suspended one, whose refusals
carry another code, on which nothing redirects. Once closed, a payment window waits for
the lookup it invalidated (`payment = "closing"`) or has only to navigate (`"leaving"`),
and does so wherever the user has gone meanwhile.

| Action | Code |
|---|---|
| `Redirect` | `ProtectedRoute.tsx`, `HomeRoute.tsx` |
| `AnswerLookup`, `ReceiveLookup`, `FailLookup`, `RedirectExpired`, `RedirectUnauthorized` | `useOrganization`, `main.tsx` |
| `Walk`, `Reload`, `ChoosePlan`, `OpenPendingPlan`, `RegisterFirm`, `LogIn`, `AcceptInvite`, `LogOut` | what the user does on the public pages |
| `SendStep`, `SaveStep`, `StepSaved`, `StepFailed`, `Welcome` | the onboarding; pages in `Skippable` go on when saving fails |
| `OpenPayment`, `PaymentSettles`, `ClosePayment`, `LeavePayment` | `CheckoutPage.tsx`, `SubscriptionExpiredPage.tsx`, `PaymentModal.tsx` |
| `LockFirm` | a subscription ends or an administrator suspends (the end of a suspension is left out) |

## 3. What the runs check

The three large runs put several components together although their models share no
state: each behaviour plays one *scene*, in which one component moves and the others
keep their initial state, so state spaces add instead of multiplying. What is checked
is each component by itself; where components interact, one module contains both
(`WebClient` with the sessions of the API, `Screens` with its guards, `Routing` with
organizations and payments, `Assistant` with the quota, `Inventory` with stock, sales
and purchases, `Catalogue` with the wizard).

| Run | Instance | Question and answer |
|---|---|---|
| `stock` (`MCShop`) | scene *stock*: 3 calls, 2 products, stocks 2 and 1, `MaxInt` 4, 7 inputs of 2 tenants | `TypeOK`, `LedgerReplays`, `FirstMovementShowsInitialStock`, `TenantIsolation`, `ImplementsLedger`, `EveryCallEnds` hold. |
| | scene *accounts*: 2 organizations, 2 addresses, 2 calls, 2 invitations, a limit of 2 seats or none, 1 retry | `FoundedByOne`, `OneUserPerInvite`, `SeatsRespected`, `InvitationAnswered` hold. |
| | scene *page*: 2 tools, 2 rounds, chats of 2 messages, conversation of 4, quota 2 | `AnswersFollowQuestions`, `ExchangesEnd` hold. |
| | scene *inbound*: a batch of 3 messages, 2 of them texts, 2 workers, 2 deliveries | `RepliedOnce`, `ExchangesEnd` hold. |
| `purchases` (`MCInventory`) | 3 calls, one order naming a product twice, of either tenant, 2 prices, `MaxInt` 6 | Receptions, cancellations, a sale, a count and price updates. `OrderFollowsGoods`, `AllOrNothing`, `SoldAtCurrentPrices` hold. |
| `customers` (`MCCustomers`) | scene *billing*: 1 organization, 2 plans, 2 payments, 2 workers, `MaxTime` 2; CamPay's answers arrive, no administrator | `TypeOK`, `ActivationIsPaid`, `ActiveStaysActive`, `ExpiredTrialIsOver`, `QuotaHolds` hold. |
| | scene *challenges*: 1 user, 2 calls, 2 challenges, 2 codes each, 1 attempt | `TriesBounded`, `LoginClosesEarlier`, `OneSessionPerChallenge` hold. |
| | scene *tokens*: the same user, 2 refresh tokens, 2 links | `LiveSessionsFollowPassword` holds. |
| | scene *screens*: every role on one query, the owner on those that sales and purchases make stale; trial, standard plan, locked; 1 change | `ScreenShowsOwnWork`, `PagesAgreeWithGuards` hold. |
| | scene *administration*: 2 administrators, 1 organization, pages of 1 row, log of 3 | `JournalTellsState`, `AccessIsJournaled`, `PagesMissNothing` hold. |
| | scene *catalogue*: 2 files, one with a blank, a refused and a repeated row; 2 imports, 2 products, 1 other call | `ImportAccounted`, `NothingUnmapped` hold. |
| `platform` (`MCPlatform`) | scene *billing*: 1 payment, 2 workers (one may run the administrator's call), answers may be lost | `AwaitingUntilPaid`, `PaidIsActivated` hold. |
| | scene *web*: 1 user, 2 requests, 2 tokens, 1 retry | `StoredTokenLives`, `RequestsEnd` hold. |
| | scene *routing*: 1 organization, onboarding of a skippable page and the review | `RoutingTypeOK`, `PaidCustomerEnters`, `RedirectsSettle` hold. |
| `received_twice` | 2 calls | `ReceivedOnce` is violated. |
| `cancelled_received` | 2 calls | `CancelledTouchesNoStock` is violated. |
| `entry_adds_up` | 2 calls | `EntryAddsUp` is violated. |
| `overwritten_active` | 1 payment, 1 administrator | `ActiveStaysActive` is violated. |
| `expired_extension` | 1 administrator, guard | `ExpiredTrialIsOver` is violated. |
| `overwritten_success` | answers may be lost | `FinalStatusKept` is violated. |
| `lost_period` | 2 payments settled concurrently | `PaidPeriodKept` is violated. |
| `checkout_bounce` (`MCRouting`) | 1 organization | `PaidCheckoutEnters` is violated. |

### Where code and its documents disagree

The eight violated properties are what tests or comments of the repository say;
each is a few steps of two calls, or of a page and its cache.

1. *Received twice* — two receptions read `PENDING` (`purchase-orders.service.ts:82`),
   both add the goods, both write `RECEIVED`. The e2e test expects 400 of the second.
   What survives is `OrderFollowsGoods`: RECEIVED orders have goods, PENDING ones none.
2. *Cancelled after reception* — the cancellation read `PENDING` first and writes
   last (`purchase-orders.service.ts:118-126`).
3. *Entries that do not add up* — `previousQuantity` is the unlocked read
   (`stock.service.ts:51`). The sequence of `newQuantity` is still right, which is why
   `LedgerReplays` replays from it and not from `previousQuantity`.
4. *Trial written over a paid subscription* — `extendTrial` tests, then writes.
5. *Extended trial marked expired* — the guard's background write requires `TRIAL`,
   not that the trial is over.
6. *SUCCESS overwritten by FAILED* — the catch clause of `checkout` when the answer of
   CamPay, or the write of its reference, fails after the customer paid.
7. *Paid period lost* — two payments prolong the same `currentPeriodEnd`.
8. *Paid, and sent away* — closing the payment window of `/checkout` waits for
   `invalidateQueries(['organization'])` (`CheckoutPage.tsx:36`), but nothing displayed
   there asks that query, so nothing is fetched and `ProtectedRoute` reads the locked
   organization that an earlier page left in the cache.
   `SubscriptionExpiredPage` asks it, and there `PaidCustomerEnters` holds.

`customers` checks `ActiveStaysActive` and `ExpiredTrialIsOver` where their cause, the
administrator, is excluded (`AdminWorker = {}`): the constant delimits which behaviour
of the code breaks the promise, and the two theorems assume the same. Without lost
answers (`AnswersLost = FALSE`) `FinalStatusKept` would hold whatever the code does, so
no passing run lists it.

### What the models show besides

Behaviours that the models contain and that no run is about. Most are harmless to the
promises checked, and no document of the repository speaks of them; where a comment says
otherwise, it is named:

* `Sessions`: two concurrent logins each close the challenges in progress and then
  create their own, so two codes may be active, although the comment of
  `auth.service.ts:341-343` expects one; `LoginClosesEarlier` is what remains true.
  Two refreshes of one token both succeed. A reset does not end every session already
  open, as the comment of `auth.service.ts:550-551` has it: a refresh that read its
  token before the reset issues another session after it, and any call may insert one
  between the last UPDATE of the reset and its COMMIT. Such a session lives until the
  next reset, a logout or its end. `LiveSessionsFollowPassword` excepts these two cases
  and no other: a session that outlives a reset comes from a call begun before its
  COMMIT that inserts it after its last UPDATE.
* `WebClient`: the loser of a concurrent refresh forgets the session the winner has
  stored (`apiClient.ts:53`); a refresh that ends after a logout stores tokens again;
  `logout` does not tell the API, nor empties the query cache, so the next account is
  first redirected on the organization of the previous one.
* `Assistant`: an answer too long, or too many messages, makes every later chat
  refused until the conversation is cleared; the quota is consumed by chats that are
  refused or fail; reports and replies on WhatsApp do not consume it; a failing message
  drops the rest of an acknowledged batch.
* `Screens`: some actions are offered to roles the API refuses (`OfferedToAll` names
  them, and `PagesAgreeWithGuards` excepts no other); an analysis is not refreshed by
  the sales it analyses; a first fetch in flight when a change is announced keeps what
  it read before.
* `Administration`: two concurrent suspensions both succeed and are both traced; the
  token of a deactivated administrator stays valid until it expires.
* `Catalogue`: line numbers count the rows left when blank ones are dropped; an import
  whose answer is lost is announced as one that imported nothing.
* `Billing`: an answer of collect without a reference is saved as the string
  "undefined"; a paid period has an end that nothing enforces. Copilot calls that had
  read the quota of a trial or of a larger plan, before a payment reset the counter,
  each pass the quota of the plan paid by a unit. The comment of
  `copilot-quota.service.ts:57-63` speaks of two calls and one unit: that is
  `QuotaHolds` for two workers, and with n of them the excess reaches n - 1.

### Bounds, and why they are enough

* Products, calls, workers: a stale read takes one reader and one writer, a deadlock
  two transactions on two rows; the third call interleaves with either.
* `MaxInt` 4 or 6 stands for 2^31 - 1: the inputs reach it, so entries that exceed the
  column fail and roll back. The proofs are for every value.
* `MaxTime` (clock) and `MaxEnd` (how far extensions may push a trial) bound the
  clock of `Billing`: trials end before, at and after it. Two payments are enough to
  reset a counter, renew a period or be settled together.
* Durations of `Sessions` are one tick (codes, cooldown, challenges) or none (refresh
  tokens and links, which the next tick makes expire), and the clock has one: with
  `MaxClock` 1 the branch of `Resend` that refuses a challenge too old is not reached;
  the proofs are for every duration. In the scene *web* the clock does not move: the
  expiry of access tokens is an action.
* `MaxAttempts` 1 and two codes: a resend resets the attempts while a comparison is
  under way. `MaxChallenges`, `MaxTokens`, `MaxLinks`, `MaxCodes`, `MaxInvites`,
  `MaxJournal`, `MaxProducts`, `MaxImports`, `MaxChanges`, `MaxShown` and
  `MaxDeliveries` bound tables and histories; each allows two actors to hold one row
  each, and the log of three rows an entry written between two pages.
* Organizations are founded in the order of their names (`InOrder`), which stand for
  identifiers the database gives.
* `Viewers` follows every role on one query and the owner on two others: what a role
  may ask does not depend on the query followed, and what a mutation invalidates not on
  the role. `Readers` has one administrator: pages are read by one tab.
* Each request of `Inventory` makes one call; a client that makes several is several.
* Symmetry is used on requests, payments and the workers that are not
  administrators', and in no run that checks liveness.
* `CHECK_DEADLOCK FALSE` in `customers`, `platform` and the runs of `Billing`: the clock
  and the tables are bounded, and an organization without a subscription row, a user
  nobody calls for, may have nothing left to do. `MCShop` checks deadlock, and names
  what exhausts its bounds (`AccountsOver`, `InboundOver`).

### Fairness

Nothing is assumed of users, of CamPay's webhooks, of Meta or of failures.

* `Inventory`: `WF(Step(t))` — the event loop and PostgreSQL execute a statement that
  can be executed; `WF(TimeOut(t))` — Prisma's interactive transactions end after 5 s
  and PostgreSQL kills a deadlock's victim after 1 s. Without `TimeOut`, two sales
  deadlock (the mutant of `EveryCallEnds`).
* `Billing`: `WF(Step(w))`; failures are finitely many (`<>[][~Abort]`); and `SF(Poll)`
  for each payment: the page asks every 3 s while the payment is PENDING
  (`useBilling.ts`). Strong fairness, because a poll waits for a free worker.
* `Accounts`, `Assistant`: weak fairness of the steps of a call that has begun; the
  model and the tools answer or fail, as their HTTP clients' time-outs make them.
* `WebClient`: weak fairness of what the browser and the API have begun. `RequestsEnd`
  excepts a user who loads the page again for ever.
* `Routing`: React renders (`WF(Redirect)`), a lookup ends, if only by failing.
  `RedirectsSettle` excepts a user who moves for ever.

The large runs state the fairness of their scenes together: `Duty(i)` is the
disjunction of the steps of the `i`-th process of each component. A behaviour plays one
scene, and in it only one disjunct can ever be enabled, so weak fairness of the
disjunction is that of the component.

## 4. What is proved

All theorems are for any constants that satisfy the assumption of their module, which
states types only, or what a DTO or an environment default requires (positive periods,
at least one item per sale, at least one organization, the standings
a subscription may give).

**`InventoryProofs`**, for any products, tenants, calls and inputs, any initial stocks
and any `MaxInt`:

* `TypeCorrect`: `Spec => []TypeOK`. No stock is negative or beyond the column. The
  inductive invariant `TypeInv` adds `Cursor`: a request that reads or writes stands at
  one of its items, and one that receives names an order that exists, whose items never
  change.
* `LedgerCorrect`: `Spec => []LedgerReplays`. `LedgerInv` says that the committed row
  *and* the working copy of every product replay: a write appends to the copy a movement
  that documents the copy's stock (`WriteReplays`), a commit publishes the copy, a
  rollback restores the row.
* `FirstMovementCorrect`: `Spec => []FirstMovementShowsInitialStock`. The quantity shown
  is read without a lock, so the invariant must follow the read: `FirstInv` says that a
  pending read either is of the initial stock, or comes too late to be first, and that an
  unlocked row equals its copy.
* `OrdersCorrect`: `Spec => []OrderFollowsGoods`. `OwnOrder` says that a call which is
  about to end an order has found it under its own organization; it holds from the test
  of the status to the end of the call although the status may change in between.
* `TenantsAreIsolated`: `Spec => []TenantIsolation`. The lookup names the organization,
  the UPDATE does not: `TenantInv` carries the owner from the read (`ReadAtHome`) to the
  lock (`LockedAtHome`) and, by `PostInv` (a movement belongs to the call that wrote it),
  to the movement.
* `SalesAreTrue`: `Spec => SoldAtCurrentPrices`. `PriceInv` says that a line of a sale
  shows the price and the cost of the working copy that the sale holds locked, which no
  other call can change before the commit.
* `AllOrNothingHolds`: `Spec => []AllOrNothing`. What a call has written so far is a
  prefix of what its items ask, one movement per item done, in order: `BooksInv` follows
  for each product the movements in the working copy (`WritesItems`), the lines of the
  sale (`WritesLines`) and, after the commit, that all items are written. Movements of
  several calls interleave in one ledger, so the proof counts: the movements of a call are
  a set of indices, `Rank` places one among them and `Nth` finds it again (`Selection`),
  where the filtered sequence of the library is recursive and out of the provers' reach.
* `Refinement`: `Spec => ImplementsLedger`, under the mapping of `Inventory!Ledger` (the
  stocks and movements of the committed rows). `DraftInv` says that a working copy is the
  committed ledger followed by movements of the call that holds the lock, `PostedInv` that
  a call with a committed movement is done. Then the commit of a call posts its movements
  and nobody else's, for the first time, all products at once (`FinishIsPost`), and every
  other step stutters (`OthersStutter`).

**`BillingProofs`**, for any organizations, plans, payments and workers, with lost
answers and administrators allowed unless said otherwise:

* `TypeCorrect`: `Spec => []TypeOK`, where `TypeOK` also says who may hold a row lock;
* `ActivationCorrect`: `Spec => ActivationIsPaid`;
* `AwaitingCorrect`: `Spec => AwaitingUntilPaid`;
* `QuotaCorrect`: `Spec => []QuotaHolds`. `QuotaInv` counts the calls that have read
  another quota than the plan now gives (`Outdated`): each may still add its unit, and the
  worker whose payment reset the counter is none of them. Before the first payment every
  call has read the quota of the trial, which is therefore never passed;
* `TrialsEndInTime` and `PaidStaysPaid`: without administrators,
  `Spec => []ExpiredTrialIsOver` and `Spec => ActiveStaysActive`. `TrialInv` says that
  what the guard read (a trial whose end has passed) is still so when it writes, because
  nobody but an administrator moves the end of a trial and the clock only grows.

The first four share `BillingInv`, which says of every call what it may still rely on
when it writes, long after it has read: the payment it names is recorded
(`NamesPayment`); CamPay is asked once per payment (`CollectsOnce`), so what it has
collected stays collected and a success a call has heard of is one (`HeardRight`); a
claimed payment is locked, PENDING and collected (`Claims`) — this is where the
conditional `updateMany` is needed; what is about to be extended does not wait for its
first payment (`MayStillExtend`).
`LeavesOthers` and `OthersKeep` say once what a step must leave alone for the other calls
to keep theirs.

**`SessionsProofs`**, for any users, calls and durations:

* `TypeCorrect`: `SessionsSpec => []SessionsTypeOK`.
* `EarlierStayClosed`: `SessionsSpec => []LoginClosesEarlier`. `ClosedInv`: a login about
  to create its challenge has closed all those it will follow; `RowEffect` says once for
  all steps about a challenge that none of them opens it again.
* `AttemptsBound`: `SessionsSpec => []TriesBounded`. The comparison comes after the
  reservation, and a resend may reset the counter between them, so `TriesInv` counts the
  comparisons under way: what has been compared and what is about to be is within the
  attempts of the codes sent so far.
* `ResetClosesSessions`: `SessionsSpec => []LiveSessionsFollowPassword`. `ResetInv`
  follows a reset through its three steps: one at a time has the row of a user, and what
  is inserted after it has closed the sessions it saw may last until the next password
  (`MayLast`), and no longer. It needs `PastKnown`: a call that is about to issue a
  session began under a password that has been (`IssuingJobs`).
* `OneSession`: `SessionsSpec => []OneSessionPerChallenge`. `OpeningInv`: a call about to
  open a session for a challenge has consumed it, is alone to do so, and has opened none.

**`AccountsProofs`**: `AccountsTypeCorrect`, `OneFounder` (`[]FoundedByOne`),
`InvitationsAreUsedOnce` (`[]OneUserPerInvite`) and `SeatsAreBounded`
(`SeatsRespected`, an action property). `AccountsInv` adds that a call about to accept has
found its invitation (`AcceptKnown`) and that nobody belongs, or is invited, to an
organization that does not exist (`AtHome`). The acceptance tests nothing again in its
transaction: what makes it safe is the unique address, to which `OneUserPerInvite` ties
the invitation. The count of the seats and the insertion are two statements of a
serializable transaction: `SeatsCounted` says that what the call saw is fewer than the limit and that each seat
seen is still there, was given up, or has passed from an invitation to the member it
became (`CountedMembers`, `Held`); what the call did not see, invitations that a plan
without limit allowed meanwhile and expired ones whose acceptance was under way, is what
`Unseen` counts.

**`AdministrationProofs`**: `AdministrationTypeCorrect`, `DecisionsAreJournaled`
(`[]JournalTellsState`), `AccessesAreJournaled` (`[]AccessIsJournaled`) and
`PagesAreComplete` (`[]PagesMissNothing`). The state and its trace commit together: the
last decision traced is what `LastSuspends` reads, and steps that write no trace change
neither (`Untraced`). For the pages, `PagesReadDown`: entries are only added above, so a
page begins at or above the row where the one before ended, and what has been read since
page 1 is all that was there down to some row.

**`AssistantProofs`**: `AssistantTypeCorrect`, `AnswersStayBehindQuestions` (`[]AnswersFollowQuestions`, from
`Waiting`: while a mutation is awaited its question is the last message) and
`RepliesAreCovered` (`[]RepliedOnce`). For the last, `Covered` says that, for each
message, the replies sent and the workers that have not replied to it yet are no more than
the deliveries, which are the acknowledgements lost and at most one received.

**`WebProofs`**, for any pages of onboarding, organizations, files, requests and users:

* `RoutingTypeCorrect`, and `WhoPaidEnters`: `RoutingSpec => []PaidCustomerEnters`. A
  user is let go by the window of payment and then redirected by the cache:
  `EntersOnceTold` says that, once the window lets the user go, neither the cache nor an
  answer still under way says locked of an organization that is not (`CacheFollows`);
  while the window waits, no lookup older than the payment is under way.
* `CatalogueTypeCorrect`, `ImportsAreAccounted` (`[]ImportAccounted`) and
  `NothingIsUnmapped` (`[]NothingUnmapped`). `Undecided`: before it answers, an import
  has created nothing, and the rows it will insert are rows of its file, the others being
  its errors; the insertion skips the SKUs taken in the meantime in one statement, and
  answers what it created.
* `ClientTypeCorrect` and `TokenStaysUsable` (`[]StoredTokenLives`), on `WebClient` and
  the calls of `Sessions` together. `AnswersFresh`: a token an answer brings is alive and
  nobody else has it; `RevokedByOwner`: whoever is about to revoke the token stored does
  it for a request the tab waits for, or has forgotten by a load of its page.
* `ScreensTypeCorrect`, `PagesAgree` (`[]PagesAgreeWithGuards`) and `ScreenIsFresh`
  (`[]ScreenShowsOwnWork`), for every role, standing and query, where the run follows
  few. `PageAsks` and `PageSends` compare the tests of the fourteen pages, one by one,
  with the table of the controllers (`MayAsk`, `MaySend`). `Refreshes` compares the tables
  a change writes with the keys its hook invalidates: they agree on every list of records
  but for the alerts, which the creation or the edition of a product touches and does not
  refresh, and `AlertsPages` shows that no page offers one beside the other. `FreshInv`
  then follows the answer in flight (`Owed`): unless it is marked late, it has read all
  that the user was told of.

`Rows` holds what these proofs need of insertions, updates and selections of a table.

No safety property of a passing run is only model-checked. Liveness is, and everything
under fairness, which this prover does not do: `EveryCallEnds`, `PaidIsActivated`,
`ExchangesEnd`, `InvitationAnswered`, `RequestsEnd` and `RedirectsSettle`. The properties
of the runs that expect a violation are refuted on one instance, which is enough.

## 5. What is not modelled, and why

* Pure input and output: mail, health, the HTTP envelope, configuration, the seed and the
  administration script, layouts of reports and CSV files, marketing pages, the text of
  prompts, answers and templates.
* Cryptography: password hashing, signatures of tokens, webhooks and callbacks.
* Computation on committed rows, much of it in real numbers: finance, forecast, fraud,
  commercial and purchasing analyses, statistics and listings of the back office. Several
  are made of more than one statement, so their figures may disagree for an instant
  (`admin-dashboard.service.ts:38-110` subtracts two counts). The facts on which the
  reconstruction of past stocks rests are proved (`LedgerReplays`,
  `FirstMovementShowsInitialStock`); the order of movements by `createdAt`, a clock of the
  API read before the row is locked, is not modelled (`reports.service.ts:221`).
* Columns that no rule of the models reads: thresholds and archiving of products (an
  archived product keeps its SKU), names and settings of organizations, notes, the log of
  tokens used by the copilot; suppliers and expenses, whose rows are independent.
* Functions of one value, tested case by case in the repository: calendar days in Douala,
  stock status, validators, parsing of cells, suggestion of columns.
* A crash between CamPay's answer to `collect` and the saving of its reference
  (`billing.service.ts:147`) is a behaviour of `Billing`; what should become of that
  payment no document says, and only a webhook can settle it.
