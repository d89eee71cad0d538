------------------------------ MODULE Screens ------------------------------
(***************************************************************************)
(* The screens of the web application (apps/web/src/pages), the queries    *)
(* they ask and the changes they send (apps/web/src/hooks), and the guards *)
(* of the API that answer (the controllers, RolesGuard, FeatureGuard and   *)
(* SubscriptionGuard).  One query is followed at a time: the entries of    *)
(* TanStack Query's cache do not depend on each other.                     *)
(***************************************************************************)
EXTENDS Naturals, Sequences

CONSTANTS
  Viewers,     \* users considered: role, standing and the query followed
  Standings,   \* what the organization's subscription may come to give
  MaxChanges   \* bound of the changes committed

VARIABLES
  viewer,    \* who is signed in, their organization's standing, the query followed
  screen,    \* the page displayed
  known,     \* the features in the cached organization
  entry,     \* the cache entry of the query followed
  change,    \* the mutation in progress
  version,   \* changes this user has committed to what the query reads
  told       \* those this user has been told of where the query is displayed

screenVars == <<viewer, screen, known, entry, change, version, told>>

-----------------------------------------------------------------------------
(* Roles and features.                                                     *)
Role == {"OWNER", "ADMIN", "DIRECTOR", "STOCK_MANAGER", "CASHIER", "EMPLOYEE"}

FinanceRoles == {"OWNER", "ADMIN", "DIRECTOR"}
StockRoles == FinanceRoles \cup {"STOCK_MANAGER"}
SalesRoles == FinanceRoles \cup {"CASHIER"}
BillingRoles == {"OWNER", "ADMIN"}

StandardFeatures == {"CORE", "FINANCE_BASIC", "REPORTS_STANDARD"}
ProFeatures ==
  StandardFeatures \cup
    {"FORECAST", "FRAUD", "FINANCE_ADVANCED", "COMMERCIAL", "PURCHASING_AI", "WHATSAPP"}

(* A trial, or no subscription at all, gives everything that Pro does.     *)
Features(standing) ==
  CASE standing \in {"TRIAL", "PRO", "SUSPENDED"} -> ProFeatures
    [] standing = "STANDARD" -> StandardFeatures
    [] standing = "LOCKED" -> {}

-----------------------------------------------------------------------------
(* The endpoints: the roles and the feature they require, the tables they  *)
(* read or write.  "skip" is @SkipSubscriptionCheck.                       *)
Endpoint(roles, feature, tables) ==
  [roles |-> roles, feature |-> feature, tables |-> tables, skip |-> FALSE]

Skipped(roles, tables) ==
  [roles |-> roles, feature |-> "CORE", tables |-> tables, skip |-> TRUE]

SalesController ==
  [sales      |-> Endpoint(Role, "CORE", {"sale"}),
   createSale |-> Endpoint(SalesRoles, "CORE", {"sale", "product", "movement"})]

StockController ==
  [movements |-> Endpoint(Role, "CORE", {"movement"}),
   alerts    |-> Endpoint(Role, "CORE", {"product"}),
   recordIn  |-> Endpoint(StockRoles, "CORE", {"product", "movement"}),
   recordOut |-> Endpoint(StockRoles, "CORE", {"product", "movement"}),
   adjust    |-> Endpoint(StockRoles, "CORE", {"product", "movement"})]

ProductsController ==
  [products       |-> Endpoint(Role, "CORE", {"product"}),
   product        |-> Endpoint(Role, "CORE", {"product"}),
   createProduct  |-> Endpoint(StockRoles, "CORE", {"product"}),
   importProducts |-> Endpoint(StockRoles, "CORE", {"product"}),
   updateProduct  |-> Endpoint(StockRoles, "CORE", {"product"}),
   archiveProduct |-> Endpoint(StockRoles, "CORE", {"product"})]

PurchaseOrdersController ==
  [purchases      |-> Endpoint(Role, "CORE", {"order"}),
   createPurchase |-> Endpoint(StockRoles, "CORE", {"order"}),
   receive        |-> Endpoint(StockRoles, "CORE", {"order", "product", "movement"}),
   cancel         |-> Endpoint(StockRoles, "CORE", {"order"})]

SuppliersController ==
  [suppliers      |-> Endpoint(Role, "CORE", {"supplier"}),
   createSupplier |-> Endpoint(FinanceRoles, "CORE", {"supplier"})]

ExpensesController ==
  [expenses      |-> Endpoint(FinanceRoles, "CORE", {"expense"}),
   createExpense |-> Endpoint(FinanceRoles, "CORE", {"expense"})]

FinanceController ==
  [summary       |-> Endpoint(FinanceRoles, "FINANCE_BASIC", {"sale", "expense"}),
   profitability |-> Endpoint(FinanceRoles, "FINANCE_ADVANCED", {"sale"}),
   trend         |-> Endpoint(FinanceRoles, "FINANCE_ADVANCED", {"sale", "expense"})]

FraudController == [anomalies |-> Endpoint(FinanceRoles, "FRAUD", {"product", "movement", "sale"})]

ForecastController == [forecast |-> Endpoint(Role, "FORECAST", {"product", "sale"})]

PurchasingController ==
  [recommendations |-> Endpoint(Role, "PURCHASING_AI", {"product", "sale", "order"})]

CommercialController ==
  [toPush    |-> Endpoint(Role, "COMMERCIAL", {"product", "sale"}),
   insights  |-> Endpoint(Role, "COMMERCIAL", {"sale"}),
   crossSell |-> Endpoint(Role, "COMMERCIAL", {"sale"})]

ReportsController ==
  [dailyList   |-> Endpoint(FinanceRoles, "REPORTS_STANDARD", {"sale", "expense"}),
   daily       |-> Endpoint(FinanceRoles, "REPORTS_STANDARD", {"sale", "expense", "product", "movement"}),
   monthly     |-> Endpoint(FinanceRoles, "REPORTS_STANDARD", {"sale", "expense", "product", "movement"}),
   downloadPdf |-> Endpoint(FinanceRoles, "REPORTS_STANDARD", {})]

CopilotController ==
  [chat   |-> Endpoint(FinanceRoles, "CORE", {}),
   advise |-> Endpoint(FinanceRoles, "CORE", {})]

WhatsAppController == [sendReport |-> Endpoint(FinanceRoles, "WHATSAPP", {})]

UsersController == [users |-> Endpoint(Role, "CORE", {"user"})]

InvitesController ==
  [invites      |-> Endpoint({"OWNER"}, "CORE", {"invite"}),
   createInvite |-> Endpoint({"OWNER"}, "CORE", {"invite"})]

OrganizationsController == [organization |-> Skipped(Role, {"organization", "subscription"})]

(* "settle" is the webhook that settles the payment a checkout began.      *)
BillingController ==
  [plans        |-> Skipped(Role, {}),
   subscription |-> Skipped(BillingRoles, {"subscription"}),
   transactions |-> Skipped(BillingRoles, {"payment"}),
   checkout     |-> Skipped(BillingRoles, {"payment"}),
   settle       |-> Skipped(BillingRoles, {"payment", "subscription"})]

(* The endpoint a query or a change is sent to.                            *)
Served(name) ==
  CASE name \in DOMAIN SalesController -> SalesController[name]
    [] name \in DOMAIN StockController -> StockController[name]
    [] name \in DOMAIN ProductsController -> ProductsController[name]
    [] name \in DOMAIN PurchaseOrdersController -> PurchaseOrdersController[name]
    [] name \in DOMAIN SuppliersController -> SuppliersController[name]
    [] name \in DOMAIN ExpensesController -> ExpensesController[name]
    [] name \in DOMAIN FinanceController -> FinanceController[name]
    [] name \in DOMAIN FraudController -> FraudController[name]
    [] name \in DOMAIN ForecastController -> ForecastController[name]
    [] name \in DOMAIN PurchasingController -> PurchasingController[name]
    [] name \in DOMAIN CommercialController -> CommercialController[name]
    [] name \in DOMAIN ReportsController -> ReportsController[name]
    [] name \in DOMAIN CopilotController -> CopilotController[name]
    [] name \in DOMAIN WhatsAppController -> WhatsAppController[name]
    [] name \in DOMAIN UsersController -> UsersController[name]
    [] name \in DOMAIN InvitesController -> InvitesController[name]
    [] name \in DOMAIN OrganizationsController -> OrganizationsController[name]
    [] name \in DOMAIN BillingController -> BillingController[name]

(* SubscriptionGuard, FeatureGuard and RolesGuard, in this order; "CORE"   *)
(* stands for no @RequireFeature.                                          *)
SubscriptionRefuses(e, standing) == ~e.skip /\ standing \in {"LOCKED", "SUSPENDED"}

Accepted(name) ==
  LET e == Served(name) IN
  /\ ~SubscriptionRefuses(e, viewer.standing)
  /\ e.feature = "CORE" \/ e.feature \in Features(viewer.standing)
  /\ viewer.role \in e.roles

-----------------------------------------------------------------------------
(* The hooks: the key of each query and the keys each change invalidates.  *)
QueryKeys ==
  [products        |-> <<"products">>,
   product         |-> <<"products", "id">>,
   movements       |-> <<"stock", "movements", "id">>,
   alerts          |-> <<"stock", "alerts">>,
   sales           |-> <<"sales">>,
   purchases       |-> <<"purchases">>,
   suppliers       |-> <<"suppliers">>,
   expenses        |-> <<"expenses", "period">>,
   summary         |-> <<"finance", "summary", "period">>,
   profitability   |-> <<"finance", "products-profitability", "period">>,
   trend           |-> <<"finance", "monthly-trend", "months">>,
   anomalies       |-> <<"fraud", "anomalies">>,
   forecast        |-> <<"forecast", "replenishment">>,
   recommendations |-> <<"purchasing", "recommendations">>,
   toPush          |-> <<"commercial", "products-to-push">>,
   insights        |-> <<"commercial", "customer-insights">>,
   crossSell       |-> <<"commercial", "cross-sell">>,
   daily           |-> <<"reports", "daily", "date">>,
   dailyList       |-> <<"reports", "daily-list", "period">>,
   monthly         |-> <<"reports", "monthly", "month">>,
   users           |-> <<"users">>,
   invites         |-> <<"organization", "invites">>,
   organization    |-> <<"organization", "me">>,
   plans           |-> <<"billing", "plans">>,
   subscription    |-> <<"billing", "subscription">>,
   transactions    |-> <<"billing", "transactions">>]

Query == DOMAIN QueryKeys

ASSUME ScreensAssumption ==
  /\ Standings \subseteq {"TRIAL", "STANDARD", "PRO", "LOCKED", "SUSPENDED"}
  /\ Viewers \subseteq [role: Role, standing: Standings, query: Query]
  /\ MaxChanges \in Nat

StockKeys == {<<"stock", "movements">>, <<"stock", "alerts">>, <<"products">>}

SalesHooks == [createSale |-> {<<"sales">>} \cup StockKeys]

StockHooks == [m \in {"recordIn", "recordOut", "adjust"} |-> StockKeys]

ProductsHooks ==
  [m \in {"createProduct", "importProducts", "updateProduct", "archiveProduct"} |->
     {<<"products">>}]

\* Variant: a reception does not invalidate the order itself.
PurchasesHooksStockOnly ==
  [createPurchase |-> {<<"purchases">>},
   receive        |-> StockKeys,
   cancel         |-> {<<"purchases">>}]

PurchasesHooks ==
  [createPurchase |-> {<<"purchases">>},
   receive        |-> {<<"purchases">>} \cup StockKeys,
   cancel         |-> {<<"purchases">>}]

SuppliersHooks == [createSupplier |-> {<<"suppliers">>}]

ExpensesHooks == [createExpense |-> {<<"expenses">>, <<"finance">>}]

InvitesHooks == [createInvite |-> {<<"organization", "invites">>}]

(* The window that follows a payment invalidates when it is closed on a    *)
(* success.                                                                *)
BillingHooks ==
  [checkout |-> {<<"billing", "transactions">>},
   settle   |-> {<<"billing", "subscription">>, <<"billing", "transactions">>}]

(* Questions to the copilot, downloads and messages invalidate nothing.    *)
CopilotHooks == [m \in {"chat", "advise", "downloadPdf", "sendReport"} |-> {}]

Mutation ==
  UNION {DOMAIN SalesHooks, DOMAIN StockHooks, DOMAIN ProductsHooks,
         DOMAIN PurchasesHooks, DOMAIN SuppliersHooks, DOMAIN ExpensesHooks,
         DOMAIN InvitesHooks, DOMAIN BillingHooks, DOMAIN CopilotHooks}

(* The keys that the success of a change invalidates.                      *)
Hooks(m) ==
  CASE m \in DOMAIN SalesHooks -> SalesHooks[m]
    [] m \in DOMAIN StockHooks -> StockHooks[m]
    [] m \in DOMAIN ProductsHooks -> ProductsHooks[m]
    [] m \in DOMAIN PurchasesHooks -> PurchasesHooks[m]
    [] m \in DOMAIN SuppliersHooks -> SuppliersHooks[m]
    [] m \in DOMAIN ExpensesHooks -> ExpensesHooks[m]
    [] m \in DOMAIN InvitesHooks -> InvitesHooks[m]
    [] m \in DOMAIN BillingHooks -> BillingHooks[m]
    [] m \in DOMAIN CopilotHooks -> CopilotHooks[m]

(* A key invalidates those it begins.                                      *)
Begins(key, other) ==
  DOMAIN key \subseteq DOMAIN other /\ \A i \in DOMAIN key : other[i] = key[i]

Invalidates(m) == \E key \in Hooks(m) : Begins(key, QueryKeys[viewer.query])

Touches(m) == Served(m).tables \cap Served(viewer.query).tables # {}

-----------------------------------------------------------------------------
(* The pages: what each asks and sends, its dialogues included.            *)
Has(roles) == viewer.role \in roles

Shows(feature) == feature \in known

When(condition, names) == {n \in names : condition}

SaleForm == [asks |-> {"products"}, sends |-> {"createSale"}]
StockMovementForm == [asks |-> {"products"}, sends |-> {"recordIn", "recordOut", "adjust"}]
PurchaseOrderForm == [asks |-> {"suppliers", "products"}, sends |-> {"createPurchase"}]
InviteTeamPanel == [asks |-> {"invites"}, sends |-> {"createInvite"}]
SupplierForm == [asks |-> {}, sends |-> {"createSupplier"}]
ExpenseForm == [asks |-> {}, sends |-> {"createExpense"}]
DailyReportDetail == [asks |-> {"daily"}, sends |-> {}]
PaymentModal == [asks |-> {}, sends |-> {"checkout", "settle"}]

ProductForm(editing) ==
  [asks |-> {}, sends |-> {IF editing THEN "updateProduct" ELSE "createProduct"}]

DashboardAsks ==
  {"products", "purchases", "sales", "movements", "users", "suppliers"}
    \cup When(Has(FinanceRoles), {"summary"})
    \cup When(Has(FinanceRoles) /\ Shows("FINANCE_ADVANCED"), {"profitability"})
    \cup When(Shows("FORECAST"), {"forecast"})
    \cup When(Has(FinanceRoles) /\ Shows("FRAUD"), {"anomalies"})
    \cup When(Shows("PURCHASING_AI"), {"recommendations"})
    \cup When(Shows("COMMERCIAL"), {"toPush", "crossSell"})

\* Variant: the quick actions of the dashboard are not filtered by role.
DashboardPageOffersAll ==
  [asks |-> DashboardAsks,
   sends |-> SaleForm.sends \cup ProductForm(FALSE).sends \cup StockMovementForm.sends]

QuickActions ==
  When(Has(SalesRoles), SaleForm.sends)
    \cup When(Has(StockRoles), ProductForm(FALSE).sends \cup StockMovementForm.sends
                                \cup PurchaseOrderForm.sends)

(* The button that orders a recommended product is not tested for a role.  *)
AttentionTable == When(Shows("PURCHASING_AI"), PurchaseOrderForm.sends)

CopilotCard == When(Has(FinanceRoles), {"advise"})

PerformanceCard == When(Has(FinanceRoles) /\ Has(SalesRoles), SaleForm.sends)

(* A catalogue still empty has a button of its own.                        *)
DashboardPage ==
  [asks |-> DashboardAsks,
   sends |-> QuickActions \cup AttentionTable \cup CopilotCard \cup PerformanceCard
               \cup When(Has(StockRoles), ProductForm(FALSE).sends)]

ProductsPage ==
  [asks |-> {"products"}, sends |-> When(Has(StockRoles), ProductForm(FALSE).sends)]

ProductDetailPage ==
  [asks |-> {"product", "movements", "sales"},
   sends |-> {"chat"}
               \cup When(Has(StockRoles), ProductForm(TRUE).sends \cup {"archiveProduct"})]

(* The forecast and the recommendations are asked whatever the plan.       *)
StockAsks ==
  {"products", "movements", "alerts", "forecast", "recommendations"}
    \cup PurchaseOrderForm.asks

ReplenishmentTab == When(Has(StockRoles), PurchaseOrderForm.sends)

StockPage ==
  [asks |-> StockAsks,
   sends |-> When(Has(StockRoles), StockMovementForm.sends) \cup ReplenishmentTab]

SalesPage ==
  [asks |-> {"sales"} \cup SaleForm.asks, sends |-> When(Has(SalesRoles), SaleForm.sends)]

SaleDetailPage == [asks |-> {"sales"}, sends |-> {"chat"}]

PurchasesPage ==
  [asks |-> {"purchases", "suppliers", "recommendations"} \cup PurchaseOrderForm.asks,
   sends |-> When(Has(StockRoles), PurchaseOrderForm.sends)
               \cup When(Has(FinanceRoles), SupplierForm.sends)]

PurchaseOrderDetailPage ==
  [asks |-> {"purchases"}, sends |-> {"chat"} \cup When(Has(StockRoles), {"receive", "cancel"})]

CommercialPage ==
  [asks |-> When(Shows("COMMERCIAL"), {"toPush", "insights", "crossSell"}), sends |-> {}]

FinanceAsks ==
  {"summary", "expenses"}
    \cup When(Shows("FINANCE_ADVANCED"), {"profitability", "trend"})
    \cup When(Shows("FRAUD"), {"anomalies"})

FinancePage == [asks |-> FinanceAsks, sends |-> ExpenseForm.sends \cup {"chat"}]

CopilotAsks ==
  {"alerts"} \cup PurchaseOrderForm.asks
    \cup When(Shows("FRAUD"), {"anomalies"})
    \cup When(Shows("FORECAST"), {"forecast"})
    \cup When(Shows("PURCHASING_AI"), {"recommendations"})
    \cup When(Shows("COMMERCIAL"), {"toPush"})

(* A card orders what the forecast needs and the purchase analysis priced. *)
RecommendationCards ==
  When(Shows("FORECAST") /\ Shows("PURCHASING_AI"), PurchaseOrderForm.sends)

CopilotPage ==
  [asks |-> CopilotAsks,
   sends |-> {"chat", "advise"} \cup RecommendationCards
               \cup When(Shows("WHATSAPP"), {"sendReport"})]

ReportsPage ==
  [asks |-> {"dailyList", "monthly"} \cup DailyReportDetail.asks, sends |-> {"downloadPdf"}]

UsersPage ==
  [asks |-> {"users"} \cup When(Has({"OWNER"}), InviteTeamPanel.asks),
   sends |-> When(Has({"OWNER"}), InviteTeamPanel.sends)]

BillingPage ==
  [asks |-> {"subscription", "plans", "transactions"} \cup PaymentModal.asks,
   sends |-> PaymentModal.sends]

Page(p) ==
  CASE p = "dashboard" -> DashboardPage
    [] p = "products" -> ProductsPage
    [] p = "product" -> ProductDetailPage
    [] p = "stock" -> StockPage
    [] p = "sales" -> SalesPage
    [] p = "sale" -> SaleDetailPage
    [] p = "purchases" -> PurchasesPage
    [] p = "order" -> PurchaseOrderDetailPage
    [] p = "commercial" -> CommercialPage
    [] p = "finance" -> FinancePage
    [] p = "copilot" -> CopilotPage
    [] p = "reports" -> ReportsPage
    [] p = "users" -> UsersPage
    [] p = "billing" -> BillingPage
    [] OTHER -> [asks |-> {}, sends |-> {}]

(* The routes, with RoleGuard; AppLayout asks the organization on each.    *)
RouteRoles(p) ==
  CASE p \in {"finance", "copilot", "reports"} -> FinanceRoles
    [] p = "billing" -> BillingRoles
    [] OTHER -> Role

Screen ==
  {"dashboard", "products", "product", "stock", "sales", "sale", "purchases", "order",
   "commercial", "finance", "copilot", "reports", "users", "billing"}

Asked(p) == IF p \in Screen THEN Page(p).asks \cup {"organization"} ELSE {}

-----------------------------------------------------------------------------
(* The cache.  "held" is the version displayed, "got" whether there is     *)
(* any; "base" the version the answer in flight has read; "late" that a    *)
(* success was announced while a fetch was in flight that could not be     *)
(* begun again.                                                            *)
NoEntry ==
  [got |-> FALSE, held |-> 0, fetch |-> "none", base |-> 0, retry |-> FALSE,
   failed |-> FALSE, late |-> FALSE]

NoChange == [what |-> "none", at |-> "none", shown |-> FALSE]

Fetching(e) == e.fetch # "none"

Fetch(e) == [e EXCEPT !.fetch = "sent", !.retry = FALSE, !.failed = FALSE, !.late = FALSE]

(* A query that becomes displayed joins the fetch in flight, if any.       *)
Mounted(e, was, is) ==
  IF is /\ ~was /\ ~Fetching(e) THEN Fetch(e) ELSE e

Displayed == viewer.query \in Asked(screen)

SignIn ==
  /\ screen = "login"
  /\ viewer' \in Viewers
  /\ screen' = "home"
  /\ UNCHANGED <<known, entry, change, version, told>>

Visit(p) ==
  /\ screen # "login"
  /\ p # screen
  /\ viewer.role \in RouteRoles(p)
  /\ screen' = p
  /\ entry' = Mounted(entry, Displayed, viewer.query \in Asked(p))
  /\ UNCHANGED <<viewer, known, change, version, told>>

(* The answer about the organization: the features it shows change, and    *)
(* with them the queries that are enabled.                                 *)
LearnFeatures ==
  /\ screen \in Screen
  /\ known' = Features(viewer.standing)
  /\ known' # known
  /\ UNCHANGED <<viewer, screen, change, version, told>>
  /\ entry' = Mounted(entry, Displayed, Displayed')

ChangeStanding ==
  /\ screen # "login"
  /\ \E s \in Standings \ {viewer.standing} : viewer' = [viewer EXCEPT !.standing = s]
  /\ UNCHANGED <<screen, known, entry, change, version, told>>

(* The API answers a query, with what is committed now.                    *)
ServeQuery ==
  /\ entry.fetch = "sent"
  /\ entry' = IF Accepted(viewer.query)
              THEN [entry EXCEPT !.fetch = "read", !.base = version]
              ELSE [entry EXCEPT !.fetch = IF SubscriptionRefuses(Served(viewer.query), viewer.standing)
                                              /\ viewer.standing = "LOCKED"
                                           THEN "expired" ELSE "refused"]
  /\ UNCHANGED <<viewer, screen, known, change, version, told>>

LoseQuery ==
  /\ entry.fetch \in {"sent", "read"}
  /\ entry' = [entry EXCEPT !.fetch = "refused"]
  /\ UNCHANGED <<viewer, screen, known, change, version, told>>

Arrive ==
  /\ entry.fetch = "read"
  /\ entry' = [entry EXCEPT !.fetch = "none", !.got = TRUE, !.held = entry.base]
  /\ UNCHANGED <<viewer, screen, known, change, version, told>>

(* A failure is retried once, whatever it is; the second one is shown.     *)
Fail ==
  /\ entry.fetch \in {"refused", "expired"}
  /\ \/ /\ ~entry.retry
        /\ entry' = [entry EXCEPT !.fetch = "sent", !.retry = TRUE]
        /\ UNCHANGED <<screen, known, change, told>>
     \/ /\ entry.retry
        /\ entry.fetch = "refused"
        /\ entry' = [entry EXCEPT !.fetch = "none", !.failed = TRUE]
        /\ UNCHANGED <<screen, known, change, told>>
     \/ /\ entry.retry
        /\ entry.fetch = "expired"      \* handleAuthAndSubscriptionRedirects
        /\ screen' = "subscription-expired"
        /\ entry' = NoEntry
        /\ known' = {}
        /\ change' = NoChange
        /\ told' = 0
  /\ UNCHANGED <<viewer, version>>

-----------------------------------------------------------------------------
(* A change is sent from the page displayed, answered by the API, and      *)
(* announced to the hook even if the page has changed.                     *)
SubmitMutation(m) ==
  /\ screen \in Screen
  /\ m \in Page(screen).sends
  /\ Touches(m)
  /\ change = NoChange
  /\ version < MaxChanges
  /\ change' = [what |-> m, at |-> "sent", shown |-> Displayed]
  /\ UNCHANGED <<viewer, screen, known, entry, version, told>>

Perform ==
  /\ change.at = "sent"
  /\ IF Accepted(change.what)
     THEN change' = [change EXCEPT !.at = "done"] /\ version' = version + 1
     ELSE change' = NoChange /\ UNCHANGED version
  /\ UNCHANGED <<viewer, screen, known, entry, told>>

LoseChange ==
  /\ change.at \in {"sent", "done"}
  /\ change' = NoChange
  /\ UNCHANGED <<viewer, screen, known, entry, version, told>>

(* invalidateQueries: a query displayed is fetched again, in place of the  *)
(* fetch in flight if there is data already; one not displayed will be     *)
(* fetched when it is.                                                     *)
Refetched(e) ==
  CASE Displayed /\ (e.got \/ ~Fetching(e)) -> Fetch(e)
    [] Fetching(e) /\ ~(Displayed /\ e.got) -> [e EXCEPT !.late = TRUE]
    [] OTHER -> e

Succeed ==
  /\ change.at = "done"
  /\ change' = NoChange
  /\ entry' = IF Invalidates(change.what) THEN Refetched(entry) ELSE entry
  /\ told' = IF change.shown THEN version ELSE told
  /\ UNCHANGED <<viewer, screen, known, version>>

ScreensInit ==
  /\ viewer = [role |-> "OWNER", standing |-> "TRIAL", query |-> "organization"]
  /\ screen = "login"
  /\ known = {}
  /\ entry = NoEntry
  /\ change = NoChange
  /\ version = 0
  /\ told = 0

ScreensNext ==
  \/ SignIn
  \/ \E p \in Screen : Visit(p)
  \/ LearnFeatures
  \/ ChangeStanding
  \/ ServeQuery \/ LoseQuery \/ Arrive \/ Fail
  \/ \E m \in Mutation : SubmitMutation(m)
  \/ Perform \/ LoseChange \/ Succeed

ScreensSpec == ScreensInit /\ [][ScreensNext]_screenVars

-----------------------------------------------------------------------------
ScreensTypeOK ==
  /\ viewer \in [role: Role, standing: Standings \cup {"TRIAL"}, query: Query]
  /\ screen \in Screen \cup {"login", "home", "subscription-expired"}
  /\ known \subseteq ProFeatures
  /\ entry \in [got: BOOLEAN, held: Nat, fetch: {"none", "sent", "read", "refused", "expired"},
                base: Nat, retry: BOOLEAN, failed: BOOLEAN, late: BOOLEAN]
  /\ change \in [what: Mutation \cup {"none"}, at: {"none", "sent", "done"}, shown: BOOLEAN]
  /\ version \in Nat /\ told \in Nat

(* The queries that list records, as opposed to those that analyse them:   *)
(* an analysis is computed again only when its page is opened, except the  *)
(* finances after an expense.                                              *)
Records ==
  {"products", "product", "movements", "alerts", "sales", "purchases", "suppliers",
   "expenses", "invites", "subscription", "transactions"}

(* A page at rest that lists records never shows less than what the user   *)
(* did on a page that lists them and was told of, unless the fetch in      *)
(* flight at that moment could not be begun again (apps/web/src/hooks).    *)
ScreenShowsOwnWork ==
  /\ Displayed /\ viewer.query \in Records
  /\ entry.got /\ ~Fetching(entry) /\ ~entry.failed /\ ~entry.late
  => entry.held >= told

(* Offered to every role, though the API refuses some of them.             *)
OfferedToAll ==
  {<<"product", "chat">>, <<"sale", "chat">>, <<"order", "chat">>,
   <<"dashboard", "createPurchase">>}

(* The tests of roles and features of the pages agree with those of the    *)
(* controllers: a page asks nothing that the role of the user forbids and  *)
(* offers nothing that the API will refuse, once the features it knows are *)
(* those of the organization (apps/web/src/auth/roles.ts, lib/             *)
(* entitlements.ts).                                                       *)
PagesAgreeWithGuards ==
  screen \in Screen =>
    /\ \A q \in Asked(screen) : viewer.role \in Served(q).roles
    /\ known = Features(viewer.standing) /\ viewer.standing \notin {"LOCKED", "SUSPENDED"} =>
         \A m \in Page(screen).sends :
           <<screen, m>> \in OfferedToAll \/ Accepted(m)

=============================================================================
