--------------------------- MODULE Administration ---------------------------
(***************************************************************************)
(* The back office: apps/api/src/modules/admin and apps/web/src/admin.     *)
(* Platform administrators sign in, consult organizations, suspend and     *)
(* reactivate them and read the audit log, each from one tab.  Sensitive   *)
(* actions change the organization and write their trace in one READ       *)
(* COMMITTED transaction; a consultation is traced in a statement of its   *)
(* own.  The extension of trials is in Billing.                            *)
(***************************************************************************)
EXTENDS Naturals, Sequences, FiniteSets

CONSTANTS
  Admins,      \* platform administrators
  Clients,     \* organizations
  NoClient,    \* targetId of an entry about no organization
  Readers,     \* those who may open the audit log; bounds the model
  PageSize,    \* rows of a page of the audit log
  MaxJournal   \* bound of the audit log

ASSUME AdministrationAssumption ==
  /\ IsFiniteSet(Admins)
  /\ Readers \subseteq Admins
  /\ NoClient \notin Clients
  /\ PageSize \in Nat \ {0}
  /\ MaxJournal \in Nat

VARIABLES
  suspended,   \* the organizations whose suspendedAt is set
  enabled,     \* the administrators whose isActive is true
  journal,     \* admin_audit_logs, in the order of createdAt
  task,        \* the API call of each tab
  tab          \* what each tab keeps

administrationVars == <<suspended, enabled, journal, task, tab>>

-----------------------------------------------------------------------------
Action == {"login", "view", "suspend", "reactivate"}

Entry == [admin: Admins, action: Action, client: Clients \cup {NoClient}]

Task == [at: {"idle", "login", "view", "apply", "record"},
         action: Action, client: Clients \cup {NoClient}]

NoTask == [at |-> "idle", action |-> "view", client |-> NoClient]

(* "token" is uge_admin_access_token; "known" is the context's admin,      *)
(* "restoring" its isLoading.  "shown" is how often the tab received the   *)
(* file of each organization.  "page" is the page of the audit log on      *)
(* screen, 0 when it is not, "read" the entries it has shown since page 1  *)
(* and "from" how many entries there were then; they only observe.         *)
Tab == [token: {"none", "live", "expired"}, known: BOOLEAN, restoring: BOOLEAN,
        shown: [Clients -> Nat], page: Nat, read: SUBSET Nat, from: Nat]

EmptyTab == [token |-> "none", known |-> FALSE, restoring |-> FALSE,
             shown |-> [c \in Clients |-> 0], page |-> 0, read |-> {}, from |-> 0]

Inside(a) == tab[a].known /\ ~tab[a].restoring

AtRest(a) == task[a].at = "idle"

Record(a, action, client) ==
  journal' = Append(journal, [admin |-> a, action |-> action, client |-> client])

Leave(a) == task' = [task EXCEPT ![a] = NoTask]

-----------------------------------------------------------------------------
(* PlatformAdminAuthService.login: the token is signed, then the sign-in   *)
(* is traced, then the token is answered.                                  *)
SignInOffice(a) ==
  /\ AtRest(a) /\ ~tab[a].known /\ ~tab[a].restoring
  /\ a \in enabled
  /\ task' = [task EXCEPT ![a].at = "login"]
  /\ UNCHANGED <<suspended, enabled, journal, tab>>

EnterOffice(a) ==
  /\ task[a].at = "login"
  /\ Len(journal) < MaxJournal
  /\ Record(a, "login", NoClient)
  /\ tab' = [tab EXCEPT ![a].token = "live", ![a].known = TRUE]
  /\ Leave(a)
  /\ UNCHANGED <<suspended, enabled>>

(* Loading a page: the session is restored from the token, by /me, the     *)
(* only route that looks the administrator up again.                       *)
LoadOffice(a) ==
  /\ AtRest(a)
  /\ tab' = [tab EXCEPT ![a] = [EmptyTab EXCEPT !.token = tab[a].token,
                                                !.shown = tab[a].shown,
                                                !.restoring = tab[a].token # "none"]]
  /\ UNCHANGED <<suspended, enabled, journal, task>>

Restore(a) ==
  /\ tab[a].restoring
  /\ tab' = [tab EXCEPT
       ![a] = IF tab[a].token = "live" /\ a \in enabled
              THEN [@ EXCEPT !.known = TRUE, !.restoring = FALSE]
              ELSE [@ EXCEPT !.token = "none", !.restoring = FALSE]]
  /\ UNCHANGED <<suspended, enabled, journal, task>>

(* PlatformAdminAuthGuard on every other route: the token alone decides;   *)
(* the tab answers a 401 by dropping it and loading /admin/login.          *)
Admitted(a) == tab[a].token = "live"

TurnedAway(a) ==
  /\ AtRest(a) /\ Inside(a) /\ ~Admitted(a)
  /\ tab' = [tab EXCEPT ![a] = [EmptyTab EXCEPT !.shown = tab[a].shown]]
  /\ UNCHANGED <<suspended, enabled, journal, task>>

SignOut(a) ==
  /\ Inside(a)
  /\ tab' = [tab EXCEPT ![a] = [EmptyTab EXCEPT !.shown = tab[a].shown]]
  /\ UNCHANGED <<suspended, enabled, journal, task>>

(* Eight hours pass; the account is deactivated in the database.           *)
ExpireToken(a) ==
  /\ tab[a].token = "live"
  /\ tab' = [tab EXCEPT ![a].token = "expired"]
  /\ UNCHANGED <<suspended, enabled, journal, task>>

Disable(a) ==
  /\ enabled' = enabled \ {a}
  /\ UNCHANGED <<suspended, journal, task, tab>>

-----------------------------------------------------------------------------
(* GET /admin/organizations/:id reads the file, then traces the view.      *)
View(a, c) ==
  /\ AtRest(a) /\ Inside(a) /\ Admitted(a)
  /\ task' = [task EXCEPT ![a] = [at |-> "view", action |-> "view", client |-> c]]
  /\ UNCHANGED <<suspended, enabled, journal, tab>>

\* Variant: the trace is not awaited, and its failure is not noticed.
ShowFileAnyway(a) ==
  /\ task[a].at = "view"
  /\ Len(journal) < MaxJournal
  /\ Record(a, "view", task[a].client) \/ UNCHANGED journal
  /\ tab' = [tab EXCEPT ![a].shown[task[a].client] = @ + 1]
  /\ Leave(a)
  /\ UNCHANGED <<suspended, enabled>>

ShowFile(a) ==
  /\ task[a].at = "view"
  /\ Len(journal) < MaxJournal
  /\ Record(a, "view", task[a].client)
  /\ tab' = [tab EXCEPT ![a].shown[task[a].client] = @ + 1]
  /\ Leave(a)
  /\ UNCHANGED <<suspended, enabled>>

(* The one decision the file of an organization offers.  A file out of     *)
(* date offers the other, which the API refuses: nothing changes.          *)
Offered(c) == IF c \in suspended THEN "reactivate" ELSE "suspend"

(* suspend, reactivate: unlocked read and test, then the transaction.      *)
Decide(a, c) ==
  /\ AtRest(a) /\ Inside(a) /\ Admitted(a)
  /\ task' = [task EXCEPT ![a] = [at |-> "apply", action |-> Offered(c), client |-> c]]
  /\ UNCHANGED <<suspended, enabled, journal, tab>>

(* The UPDATE takes the row lock of the organization and keeps it.         *)
Unlocked(c) == \A b \in Admins : ~(task[b].at = "record" /\ task[b].client = c)

Applied(a) ==
  IF task[a].action = "suspend" THEN suspended \cup {task[a].client}
                                ELSE suspended \ {task[a].client}

\* Variant: the change is committed, and the trace written after it.
ApplyDecisionAtOnce(a) ==
  /\ task[a].at = "apply"
  /\ suspended' = Applied(a)
  /\ task' = [task EXCEPT ![a].at = "record"]
  /\ UNCHANGED <<enabled, journal, tab>>

ApplyDecision(a) ==
  /\ task[a].at = "apply"
  /\ Unlocked(task[a].client)
  /\ task' = [task EXCEPT ![a].at = "record"]
  /\ UNCHANGED <<suspended, enabled, journal, tab>>

CommitDecision(a) ==
  /\ task[a].at = "record"
  /\ Len(journal) < MaxJournal
  /\ suspended' = Applied(a)
  /\ Record(a, task[a].action, task[a].client)
  /\ Leave(a)
  /\ UNCHANGED <<enabled, tab>>

(* The API stops, or a statement fails: an open transaction is undone.     *)
FailTask(a) ==
  /\ ~AtRest(a)
  /\ Leave(a)
  /\ UNCHANGED <<suspended, enabled, journal, tab>>

-----------------------------------------------------------------------------
(* A page of a list of n rows, newest first: skip (page - 1) * pageSize,   *)
(* take pageSize.                                                          *)
\* Variant: pages are counted from 0.
FirstRowFromZero(p) == p * PageSize

FirstRow(p) == (p - 1) * PageSize

PageRows(n, p) ==
  {i \in 1..n : n - i \in FirstRow(p)..(FirstRow(p) + PageSize - 1)}

PageCount(n) == IF n = 0 THEN 1 ELSE ((n - 1) \div PageSize) + 1

(* AdminAuditLogsPage: page 1, then the following ones.                    *)
OpenJournal(a) ==
  /\ a \in Readers
  /\ AtRest(a) /\ Inside(a) /\ Admitted(a)
  /\ tab' = [tab EXCEPT ![a].page = 1, ![a].from = Len(journal),
                              ![a].read = PageRows(Len(journal), 1)]
  /\ UNCHANGED <<suspended, enabled, journal, task>>

TurnPage(a) ==
  /\ AtRest(a) /\ Inside(a) /\ Admitted(a)
  /\ tab[a].page \in 1..(PageCount(Len(journal)) - 1)
  /\ tab' = [tab EXCEPT ![a].page = @ + 1,
                         ![a].read = @ \cup PageRows(Len(journal), tab[a].page + 1)]
  /\ UNCHANGED <<suspended, enabled, journal, task>>

-----------------------------------------------------------------------------
AdministrationInit ==
  /\ suspended = {}
  /\ enabled = Admins
  /\ journal = <<>>
  /\ task = [a \in Admins |-> NoTask]
  /\ tab = [a \in Admins |-> EmptyTab]

AdministrationNext ==
  \E a \in Admins :
    \/ SignInOffice(a) \/ EnterOffice(a) \/ LoadOffice(a) \/ Restore(a)
    \/ TurnedAway(a) \/ SignOut(a) \/ ExpireToken(a) \/ Disable(a)
    \/ ShowFile(a) \/ ApplyDecision(a) \/ CommitDecision(a) \/ FailTask(a)
    \/ OpenJournal(a) \/ TurnPage(a)
    \/ \E c \in Clients : View(a, c) \/ Decide(a, c)

AdministrationSpec == AdministrationInit /\ [][AdministrationNext]_administrationVars

-----------------------------------------------------------------------------
AdministrationTypeOK ==
  /\ suspended \subseteq Clients
  /\ enabled \subseteq Admins
  /\ journal \in Seq(Entry)
  /\ task \in [Admins -> Task]
  /\ tab \in [Admins -> Tab]

Decisions(c) ==
  {i \in DOMAIN journal : journal[i].client = c /\ journal[i].action \in {"suspend", "reactivate"}}

(* An organization is suspended exactly when the last decision traced is   *)
(* a suspension, though administrators decide at once and calls fail: no   *)
(* action without a trace and no trace of an action that failed            *)
(* (admin-organizations.service.ts:142-196, admin-audit-log.service.ts:    *)
(* 20-26).                                                                 *)
JournalTellsState ==
  \A c \in Clients :
    c \in suspended <=>
      \E i \in Decisions(c) :
        /\ journal[i].action = "suspend"
        /\ \A j \in Decisions(c) : j <= i

Traces(a, action, c) ==
  {i \in DOMAIN journal : journal[i] = [admin |-> a, action |-> action, client |-> c]}

(* Nobody holds a token without a sign-in in the log, nor has received the *)
(* file of an organization more often than the log says, whatever fails    *)
(* between the reading and the trace (admin-organizations.controller.ts:   *)
(* 35-43, platform-admin-auth.service.ts:44-56).                           *)
AccessIsJournaled ==
  \A a \in Admins :
    /\ tab[a].token # "none" => Traces(a, "login", NoClient) # {}
    /\ \A c \in Clients : tab[a].shown[c] <= Cardinality(Traces(a, "view", c))

(* Whoever reads the log page after page misses no entry that was there at *)
(* the first, though others are written meanwhile and shift the pages      *)
(* (admin-audit-log.service.ts:45-64, AdminAuditLogsPage).                 *)
PagesMissNothing ==
  \A a \in Admins : \A i \in 1..tab[a].from :
    (\E j \in tab[a].read : j < i) => i \in tab[a].read

=============================================================================
