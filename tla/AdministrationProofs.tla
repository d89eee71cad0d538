------------------------ MODULE AdministrationProofs ------------------------
(***************************************************************************)
(* Theorems about the back office, for any number of administrators,       *)
(* organizations and rows of a page.  An administrator's call carries the  *)
(* organization and the decision from the reading to the transaction, and  *)
(* several may carry decisions on one organization; the row lock makes     *)
(* their transactions commit in the order of their traces, so that one     *)
(* step of the model writes a change together with the trace that tells    *)
(* it.  The invariant adds what a call under way names.                    *)
(***************************************************************************)
EXTENDS Administration, Rows, FiniteSetTheorems

-----------------------------------------------------------------------------
\* A trace is added at the end, and names what it tells.
LEMMA Recorded ==
  ASSUME AdministrationTypeOK, NEW a \in Admins, NEW action \in Action,
         NEW c \in Clients \cup {NoClient}, Record(a, action, c)
  PROVE  LET n == Len(journal) + 1 IN
         /\ journal' \in Seq(Entry)
         /\ n \notin DOMAIN journal /\ DOMAIN journal' = DOMAIN journal \cup {n}
         /\ \A i \in DOMAIN journal : journal'[i] = journal[i] /\ i <= n /\ i \in Nat
         /\ n \in Nat /\ journal'[n] = [admin |-> a, action |-> action, client |-> c]
<1>1. [admin |-> a, action |-> action, client |-> c] \in Entry
  BY DEF Entry
<1>2. journal \in Seq(Entry)
  BY DEF AdministrationTypeOK
<1>3. \A i \in DOMAIN journal : i <= Len(journal) /\ i \in Nat
  BY <1>2
<1>4. Len(journal) \in Nat
  BY <1>2
<1> QED
  BY <1>1, <1>2, <1>3, <1>4, Appended DEF Record

\* What a call carries: the organization of the file, or of the decision.
TaskNames ==
  \A a \in Admins :
    /\ task[a].at \in {"view", "apply", "record"} => task[a].client \in Clients
    /\ task[a].at \in {"apply", "record"} => task[a].action \in {"suspend", "reactivate"}

LEMMA AdministrationInits ==
  AdministrationInit =>
    AdministrationTypeOK /\ TaskNames /\ JournalTellsState /\ AccessIsJournaled
<1> SUFFICES ASSUME AdministrationInit
             PROVE  AdministrationTypeOK /\ TaskNames /\ JournalTellsState /\ AccessIsJournaled
  OBVIOUS
<1>1. NoTask \in Task /\ NoTask.at = "idle"
  BY DEF NoTask, Task, Action
<1>2. EmptyTab \in Tab /\ EmptyTab.token = "none" /\ \A c \in Clients : EmptyTab.shown[c] = 0
  BY DEF EmptyTab, Tab
<1>3. AdministrationTypeOK
  BY <1>1, <1>2, EmptySeq DEF AdministrationInit, AdministrationTypeOK
<1>4. TaskNames
  BY <1>1 DEF AdministrationInit, TaskNames
<1>5. DOMAIN journal = {} /\ suspended = {}
  BY DEF AdministrationInit
<1>6. JournalTellsState
  BY <1>5 DEF JournalTellsState, Decisions
<1>7. \A a \in Admins : \A x, c : Cardinality(Traces(a, x, c)) = 0
  BY <1>5, FS_EmptySet DEF Traces
<1>8. AccessIsJournaled
  BY <1>2, <1>7 DEF AdministrationInit, AccessIsJournaled
<1> QED
  BY <1>3, <1>4, <1>6, <1>8

-----------------------------------------------------------------------------
\* The steps that write no trace: no organization changes, and no tab gains
\* a token or a file.
Untraced(a) ==
  \/ SignInOffice(a) \/ LoadOffice(a) \/ Restore(a) \/ TurnedAway(a) \/ SignOut(a)
  \/ ExpireToken(a) \/ Disable(a) \/ ApplyDecision(a) \/ FailTask(a)
  \/ OpenJournal(a) \/ TurnPage(a) \/ \E c \in Clients : View(a, c) \/ Decide(a, c)

Traced(a) == EnterOffice(a) \/ ShowFile(a) \/ CommitDecision(a)

LEMMA AdministrationSteps ==
  ASSUME [AdministrationNext]_administrationVars
  PROVE  \/ UNCHANGED administrationVars
         \/ \E a \in Admins : Untraced(a) \/ Traced(a)
  BY DEF AdministrationNext, Untraced, Traced

\* The calls: their types, and what they name.
LEMMA TaskNext ==
  ASSUME AdministrationTypeOK, TaskNames, [AdministrationNext]_administrationVars
  PROVE  task' \in [Admins -> Task] /\ TaskNames'
<1>t. task \in [Admins -> Task]
  BY DEF AdministrationTypeOK
<1>z. \A a \in Admins : Leave(a) => task' \in [Admins -> Task] /\ TaskNames'
  <2>1. NoTask \in Task /\ NoTask.at = "idle"
    BY DEF NoTask, Task, Action
  <2> QED
    BY <1>t, <2>1 DEF Leave, TaskNames
<1>0. CASE task' = task
  BY <1>0, <1>t DEF TaskNames
<1>1. ASSUME NEW a \in Admins, SignInOffice(a)
      PROVE  task' \in [Admins -> Task] /\ TaskNames'
  <2>1. task' = [task EXCEPT ![a] = [task[a] EXCEPT !.at = "login"]]
    BY <1>1 DEF SignInOffice
  <2>2. /\ [task[a] EXCEPT !.at = "login"] \in Task
        /\ [task[a] EXCEPT !.at = "login"].at = "login"
    BY <1>t DEF Task
  <2> QED
    BY <2>1, <2>2, <1>t DEF TaskNames
<1>2. ASSUME NEW a \in Admins, NEW c \in Clients, View(a, c) \/ Decide(a, c)
      PROVE  task' \in [Admins -> Task] /\ TaskNames'
  <2> PICK at \in {"view", "apply"}, x \in {"view", "suspend", "reactivate"} :
        /\ at = "apply" => x \in {"suspend", "reactivate"}
        /\ task' = [task EXCEPT ![a] = [at |-> at, action |-> x, client |-> c]]
    BY <1>2 DEF View, Decide, Offered
  <2>1. [at |-> at, action |-> x, client |-> c] \in Task
    BY DEF Task, Action
  <2> QED
    BY <2>1, <1>t DEF TaskNames
<1>3. ASSUME NEW a \in Admins, ApplyDecision(a)
      PROVE  task' \in [Admins -> Task] /\ TaskNames'
  <2> DEFINE e == [task[a] EXCEPT !.at = "record"]
  <2>1. task' = [task EXCEPT ![a] = e] /\ task[a].at = "apply"
    BY <1>3 DEF ApplyDecision
  <2>2. e \in Task /\ e.client = task[a].client /\ e.action = task[a].action
    BY <1>t DEF Task
  <2> HIDE DEF e
  <2> QED
    BY <2>1, <2>2, <1>t DEF TaskNames
<1>4. \/ task' = task
      \/ \E a \in Admins :
           \/ Leave(a) \/ SignInOffice(a) \/ ApplyDecision(a)
           \/ \E c \in Clients : View(a, c) \/ Decide(a, c)
  BY DEF AdministrationNext, administrationVars, EnterOffice, LoadOffice, Restore, TurnedAway,
         SignOut, ExpireToken, Disable, ShowFile, CommitDecision, FailTask, OpenJournal, TurnPage
<1> QED
  BY <1>z, <1>0, <1>1, <1>2, <1>3, <1>4

\* The steps without a trace: types, and what the tabs keep.
LEMMA UntracedStep ==
  ASSUME AdministrationTypeOK, NEW a \in Admins, Untraced(a)
  PROVE  /\ suspended' = suspended /\ journal' = journal /\ enabled' \subseteq Admins
         /\ tab' \in [Admins -> Tab]
         /\ \A b \in Admins :
              /\ tab'[b].token # "none" => tab[b].token # "none"
              /\ tab'[b].shown = tab[b].shown
<1>t. /\ tab \in [Admins -> Tab] /\ tab[a] \in Tab /\ enabled \subseteq Admins
      /\ journal \in Seq(Entry)
  BY DEF AdministrationTypeOK
<1>n. Len(journal) \in Nat
  BY <1>t
<1>0. suspended' = suspended /\ journal' = journal /\ enabled' \subseteq Admins
  BY <1>t DEF Untraced, SignInOffice, LoadOffice, Restore, TurnedAway, SignOut, ExpireToken,
         Disable, ApplyDecision, FailTask, OpenJournal, TurnPage, View, Decide
<1>a. \A t \in Tab :
        /\ tab' = [tab EXCEPT ![a] = t]
        /\ t.token # "none" => tab[a].token # "none"
        /\ t.shown = tab[a].shown
        => /\ tab' \in [Admins -> Tab]
           /\ \A b \in Admins :
                /\ tab'[b].token # "none" => tab[b].token # "none"
                /\ tab'[b].shown = tab[b].shown
  BY <1>t
<1>1. CASE tab' = tab
  BY <1>0, <1>1, <1>t
<1>2. ASSUME NEW t, tab' = [tab EXCEPT ![a] = t], t \in Tab,
             t.token # "none" => tab[a].token # "none", t.shown = tab[a].shown
      PROVE  /\ suspended' = suspended /\ journal' = journal /\ enabled' \subseteq Admins
             /\ tab' \in [Admins -> Tab]
             /\ \A b \in Admins :
                  /\ tab'[b].token # "none" => tab[b].token # "none"
                  /\ tab'[b].shown = tab[b].shown
  BY <1>0, <1>2, <1>a
<1>3. CASE TurnedAway(a) \/ SignOut(a)
  <2> DEFINE t == [EmptyTab EXCEPT !.shown = tab[a].shown]
  <2>1. tab' = [tab EXCEPT ![a] = t]
    BY <1>3 DEF TurnedAway, SignOut
  <2>2. t \in Tab /\ t.token = "none" /\ t.shown = tab[a].shown
    BY <1>t DEF Tab, EmptyTab
  <2> HIDE DEF t
  <2> QED
    BY <2>1, <2>2, <1>2
<1>4. CASE LoadOffice(a)
  <2> DEFINE t == [EmptyTab EXCEPT !.token = tab[a].token, !.shown = tab[a].shown,
                                   !.restoring = tab[a].token # "none"]
  <2>1. tab' = [tab EXCEPT ![a] = t]
    BY <1>4 DEF LoadOffice
  <2>2. t \in Tab /\ t.token = tab[a].token /\ t.shown = tab[a].shown
    BY <1>t DEF Tab, EmptyTab
  <2> HIDE DEF t
  <2> QED
    BY <2>1, <2>2, <1>2
<1>5. CASE Restore(a)
  <2> DEFINE t == [tab[a] EXCEPT !.known = TRUE, !.restoring = FALSE]
             f == [tab[a] EXCEPT !.token = "none", !.restoring = FALSE]
  <2>1. tab' = [tab EXCEPT ![a] = t] \/ tab' = [tab EXCEPT ![a] = f]
    BY <1>5 DEF Restore
  <2>2. t \in Tab /\ t.token = tab[a].token /\ t.shown = tab[a].shown
    BY <1>t DEF Tab
  <2>3. f \in Tab /\ f.token = "none" /\ f.shown = tab[a].shown
    BY <1>t DEF Tab
  <2> HIDE DEF t, f
  <2> QED
    BY <2>1, <2>2, <2>3, <1>2
<1>6. CASE ExpireToken(a)
  <2> DEFINE t == [tab[a] EXCEPT !.token = "expired"]
  <2>1. tab' = [tab EXCEPT ![a] = t] /\ tab[a].token = "live"
    BY <1>6 DEF ExpireToken
  <2>2. t \in Tab /\ t.shown = tab[a].shown
    BY <1>t DEF Tab
  <2> HIDE DEF t
  <2> QED
    BY <2>1, <2>2, <1>2
<1>7. CASE OpenJournal(a)
  <2> DEFINE r == PageRows(Len(journal), 1)
             t == [tab[a] EXCEPT !.page = 1, !.from = Len(journal), !.read = r]
  <2>1. tab' = [tab EXCEPT ![a] = t]
    BY <1>7 DEF OpenJournal
  <2>2. r \subseteq Nat
    BY <1>n DEF PageRows
  <2> HIDE DEF r
  <2>3. t \in Tab /\ t.shown = tab[a].shown /\ t.token = tab[a].token
    BY <2>2, <1>t, <1>n DEF Tab
  <2> HIDE DEF t
  <2> QED
    BY <2>1, <2>3, <1>2
<1>8. CASE TurnPage(a)
  <2> DEFINE r == tab[a].read \cup PageRows(Len(journal), tab[a].page + 1)
             p == tab[a].page + 1
             t == [tab[a] EXCEPT !.page = p, !.read = r]
  <2>1. tab' = [tab EXCEPT ![a] = t]
    BY <1>8 DEF TurnPage
  <2>2. PageRows(Len(journal), tab[a].page + 1) \subseteq Nat /\ tab[a].read \subseteq Nat
        /\ tab[a].page \in Nat
    BY <1>t, <1>n DEF PageRows, Tab
  <2>3. r \subseteq Nat /\ p \in Nat
    BY <2>2
  <2> HIDE DEF r, p
  <2>4. t \in Tab /\ t.shown = tab[a].shown /\ t.token = tab[a].token
    BY <2>3, <1>t DEF Tab
  <2> HIDE DEF t
  <2> QED
    BY <2>1, <2>4, <1>2
<1>9. \/ tab' = tab
      \/ TurnedAway(a) \/ SignOut(a) \/ LoadOffice(a) \/ Restore(a) \/ ExpireToken(a)
      \/ OpenJournal(a) \/ TurnPage(a)
  BY DEF Untraced, SignInOffice, Disable, ApplyDecision, FailTask, View, Decide
<1> QED
  BY <1>1, <1>3, <1>4, <1>5, <1>6, <1>7, <1>8, <1>9


\* The steps with a trace: the call whose trace it is, and what it changes.
LEMMA TracedStep ==
  ASSUME AdministrationTypeOK, TaskNames, NEW a \in Admins, Traced(a)
  PROVE  /\ enabled' = enabled /\ tab' \in [Admins -> Tab]
         /\ \A b \in Admins \ {a} : tab'[b] = tab[b]
         /\ \/ /\ Record(a, "login", NoClient) /\ suspended' = suspended
               /\ tab'[a].shown = tab[a].shown
            \/ \E c \in Clients :
                 /\ Record(a, "view", c) /\ suspended' = suspended
                 /\ tab'[a].token = tab[a].token
                 /\ tab'[a].shown = [tab[a].shown EXCEPT ![c] = @ + 1]
            \/ \E c \in Clients :
                 /\ \/ Record(a, "suspend", c) /\ suspended' = suspended \cup {c}
                    \/ Record(a, "reactivate", c) /\ suspended' = suspended \ {c}
                 /\ tab' = tab
<1>t. tab \in [Admins -> Tab] /\ tab[a] \in Tab
  BY DEF AdministrationTypeOK
<1>1. CASE EnterOffice(a)
  <2> DEFINE t == [tab[a] EXCEPT !.token = "live", !.known = TRUE]
  <2>1. tab' = [tab EXCEPT ![a] = t]
    BY <1>1 DEF EnterOffice
  <2>2. t \in Tab /\ t.shown = tab[a].shown
    BY <1>t DEF Tab
  <2> HIDE DEF t
  <2>3. /\ tab' \in [Admins -> Tab] /\ tab'[a].shown = tab[a].shown
        /\ \A b \in Admins \ {a} : tab'[b] = tab[b]
    BY <2>1, <2>2, <1>t
  <2> QED
    BY <1>1, <2>3 DEF EnterOffice
<1>2. CASE ShowFile(a)
  <2> PICK c : c = task[a].client
    OBVIOUS
  <2> DEFINE f == [tab[a].shown EXCEPT ![c] = @ + 1]
             t == [tab[a] EXCEPT !.shown = f]
  <2>1. c \in Clients
    BY <1>2 DEF TaskNames, ShowFile
  <2>2. tab' = [tab EXCEPT ![a] = t]
    BY <1>2 DEF ShowFile
  <2>3. tab[a].shown \in [Clients -> Nat]
    BY <1>t DEF Tab
  <2>4. f \in [Clients -> Nat]
    BY <2>1, <2>3
  <2>5. f = [tab[a].shown EXCEPT ![c] = @ + 1]
    OBVIOUS
  <2> HIDE DEF f
  <2>6. t \in Tab /\ t.shown = f /\ t.token = tab[a].token
    BY <2>4, <1>t DEF Tab
  <2> HIDE DEF t
  <2>7. /\ tab' \in [Admins -> Tab]
        /\ tab'[a].shown = f /\ tab'[a].token = tab[a].token
        /\ \A b \in Admins \ {a} : tab'[b] = tab[b]
    BY <2>2, <2>6, <1>t
  <2>8. Record(a, "view", c) /\ suspended' = suspended /\ enabled' = enabled
    BY <1>2 DEF ShowFile
  <2> QED
    BY <2>1, <2>5, <2>7, <2>8
<1>3. CASE CommitDecision(a)
  <2>1. task[a].client \in Clients /\ task[a].action \in {"suspend", "reactivate"}
    BY <1>3 DEF TaskNames, CommitDecision
  <2> QED
    BY <1>3, <1>t, <2>1 DEF CommitDecision, Applied
<1> QED
  BY <1>1, <1>2, <1>3 DEF Traced

\* Every step keeps the types.
LEMMA AdministrationTypeNext ==
  ASSUME AdministrationTypeOK, TaskNames, [AdministrationNext]_administrationVars
  PROVE  AdministrationTypeOK'
<1>1. task' \in [Admins -> Task]
  BY TaskNext
<1>2. CASE UNCHANGED administrationVars
  BY <1>2 DEF administrationVars, AdministrationTypeOK
<1>3. ASSUME NEW a \in Admins, Untraced(a) PROVE AdministrationTypeOK'
  <2>1. /\ suspended' = suspended /\ journal' = journal /\ enabled' \subseteq Admins
        /\ tab' \in [Admins -> Tab]
    BY <1>3, UntracedStep
  <2> QED
    BY <1>1, <2>1 DEF AdministrationTypeOK
<1>4. ASSUME NEW a \in Admins, Traced(a) PROVE AdministrationTypeOK'
  <2>1. /\ enabled' = enabled /\ tab' \in [Admins -> Tab] /\ suspended' \subseteq Clients
        /\ \E x \in Action, c \in Clients \cup {NoClient} : Record(a, x, c)
    BY <1>4, TracedStep DEF AdministrationTypeOK, Action
  <2>2. journal' \in Seq(Entry)
    BY <2>1, Recorded
  <2> QED
    BY <1>1, <2>1, <2>2 DEF AdministrationTypeOK
<1> QED
  BY <1>2, <1>3, <1>4, AdministrationSteps

-----------------------------------------------------------------------------
\* The last decision traced about an organization.
LastSuspends(c) ==
  \E i \in Decisions(c) : journal[i].action = "suspend" /\ \A j \in Decisions(c) : j <= i

LEMMA JournalNext ==
  ASSUME AdministrationTypeOK, TaskNames, JournalTellsState,
         [AdministrationNext]_administrationVars
  PROVE  JournalTellsState'
<1>j. \A c \in Clients : c \in suspended <=> LastSuspends(c)
  BY DEF JournalTellsState, LastSuspends
<1>0. ASSUME journal' = journal, suspended' = suspended PROVE JournalTellsState'
  BY <1>0 DEF JournalTellsState, Decisions
<1>1. CASE UNCHANGED administrationVars
  BY <1>0, <1>1 DEF administrationVars
<1>2. ASSUME NEW a \in Admins, Untraced(a) PROVE JournalTellsState'
  BY <1>0, <1>2, UntracedStep
<1>3. ASSUME NEW a \in Admins, Traced(a) PROVE JournalTellsState'
  <2> PICK x \in Action, c \in Clients \cup {NoClient} :
        /\ Record(a, x, c)
        /\ \/ x \in {"login", "view"} /\ suspended' = suspended
           \/ x = "suspend" /\ c \in Clients /\ suspended' = suspended \cup {c}
           \/ x = "reactivate" /\ c \in Clients /\ suspended' = suspended \ {c}
    BY <1>3, TracedStep DEF Action
  <2> PICK n : n = Len(journal) + 1
    OBVIOUS
  <2>1. /\ n \notin DOMAIN journal /\ DOMAIN journal' = DOMAIN journal \cup {n}
        /\ \A i \in DOMAIN journal : journal'[i] = journal[i] /\ i <= n /\ i \in Nat
        /\ n \in Nat /\ journal'[n] = [admin |-> a, action |-> x, client |-> c]
    BY Recorded
  <2>2. ASSUME NEW d \in Clients, d # c \/ x \in {"login", "view"}
        PROVE  d \in suspended' <=> LastSuspends(d)'
    <3>1. Decisions(d)' = Decisions(d)
      BY <2>1, <2>2 DEF Decisions
    <3>2. \A i \in Decisions(d) : journal'[i] = journal[i]
      BY <2>1 DEF Decisions
    <3>3. d \in suspended' <=> d \in suspended
      BY <2>2
    <3> QED
      BY <3>1, <3>2, <3>3, <1>j DEF LastSuspends
  <2>3. ASSUME NEW d \in Clients, d = c, x \in {"suspend", "reactivate"}
        PROVE  d \in suspended' <=> LastSuspends(d)'
    <3>1. Decisions(d)' = Decisions(d) \cup {n}
      BY <2>1, <2>3 DEF Decisions
    <3>2. \A i \in Decisions(d) : i <= n /\ i # n /\ i \in Nat
      BY <2>1 DEF Decisions
    <3>3. journal'[n].action = x
      BY <2>1
    <3>4. LastSuspends(d)' <=> x = "suspend"
      BY <3>1, <3>2, <3>3, <2>1 DEF LastSuspends
    <3> QED
      BY <2>3, <3>4
  <2>4. \A d \in Clients : d \in suspended' <=> LastSuspends(d)'
    BY <2>2, <2>3 DEF Action
  <2> QED
    BY <2>4 DEF JournalTellsState, LastSuspends
<1> QED
  BY <1>1, <1>2, <1>3, AdministrationSteps

\* Traces are never lost; a view that is traced is one more.
LEMMA TracesFinite ==
  ASSUME AdministrationTypeOK, NEW a, NEW x, NEW c
  PROVE  IsFiniteSet(Traces(a, x, c)) /\ Cardinality(Traces(a, x, c)) \in Nat
<1>1. DOMAIN journal = 1..Len(journal) /\ Len(journal) \in Nat
  BY DEF AdministrationTypeOK
<1>2. IsFiniteSet(DOMAIN journal)
  BY <1>1, FS_Interval
<1>3. Traces(a, x, c) \subseteq DOMAIN journal
  BY DEF Traces
<1> QED
  BY <1>2, <1>3, FS_Subset, FS_CardinalityType

LEMMA AccessNext ==
  ASSUME AdministrationTypeOK, TaskNames, AccessIsJournaled,
         [AdministrationNext]_administrationVars
  PROVE  AccessIsJournaled'
<1>j. \A a \in Admins :
        /\ tab[a].token # "none" => Traces(a, "login", NoClient) # {}
        /\ \A c \in Clients : tab[a].shown[c] <= Cardinality(Traces(a, "view", c))
  BY DEF AccessIsJournaled
<1>s. \A a \in Admins : tab[a].shown \in [Clients -> Nat]
  BY DEF AdministrationTypeOK, Tab
<1>1. CASE UNCHANGED administrationVars
  BY <1>1 DEF administrationVars, AccessIsJournaled, Traces
<1>2. ASSUME NEW a \in Admins, Untraced(a) PROVE AccessIsJournaled'
  <2>1. /\ journal' = journal
        /\ \A b \in Admins :
             /\ tab'[b].token # "none" => tab[b].token # "none"
             /\ tab'[b].shown = tab[b].shown
    BY <1>2, UntracedStep
  <2>2. \A b, x, c : Traces(b, x, c)' = Traces(b, x, c)
    BY <2>1 DEF Traces
  <2> QED
    BY <2>1, <2>2, <1>j DEF AccessIsJournaled
<1>3. ASSUME NEW a \in Admins, Traced(a) PROVE AccessIsJournaled'
  <2> PICK x \in Action, c \in Clients \cup {NoClient} :
        /\ Record(a, x, c)
        /\ \/ x = "login" /\ c = NoClient /\ tab'[a].shown = tab[a].shown
           \/ /\ x = "view" /\ c \in Clients /\ tab'[a].token = tab[a].token
              /\ tab'[a].shown = [tab[a].shown EXCEPT ![c] = @ + 1]
           \/ tab' = tab
    BY <1>3, TracedStep DEF Action
  <2> PICK n : n = Len(journal) + 1
    OBVIOUS
  <2>0. \A b \in Admins \ {a} : tab'[b] = tab[b]
    BY <1>3, TracedStep
  <2>1. /\ n \notin DOMAIN journal /\ DOMAIN journal' = DOMAIN journal \cup {n}
        /\ \A i \in DOMAIN journal : journal'[i] = journal[i]
        /\ journal'[n] = [admin |-> a, action |-> x, client |-> c]
    BY Recorded
  <2>2. \A b, y, d : Traces(b, y, d) \subseteq Traces(b, y, d)'
    BY <2>1 DEF Traces
  <2>3. Traces(a, x, c)' = Traces(a, x, c) \cup {n} /\ n \notin Traces(a, x, c)
    BY <2>1 DEF Traces
  <2>4. Cardinality(Traces(a, x, c)') = Cardinality(Traces(a, x, c)) + 1
    BY <2>3, TracesFinite, FS_AddElement
  <2>5. \A b, y, d : /\ Cardinality(Traces(b, y, d)) \in Nat
                     /\ Cardinality(Traces(b, y, d)') \in Nat
                     /\ Cardinality(Traces(b, y, d)) <= Cardinality(Traces(b, y, d)')
    <3> TAKE b, y, d
    <3>1. Traces(b, y, d)' \subseteq Traces(b, y, d) \cup {n}
      BY <2>1 DEF Traces
    <3>2. IsFiniteSet(Traces(b, y, d)') /\ Cardinality(Traces(b, y, d)') \in Nat
      BY ZenonT(40), <3>1, TracesFinite, FS_AddElement, FS_Subset, FS_CardinalityType
    <3> QED
      BY <2>2, <3>2, TracesFinite, FS_Subset
  <2>6. ASSUME NEW b \in Admins, tab'[b].token # "none"
        PROVE  Traces(b, "login", NoClient)' # {}
    <3>1. CASE tab[b].token # "none"
      BY <3>1, <1>j, <2>2
    <3>2. CASE tab[b].token = "none"
      <4>1. b = a /\ x = "login" /\ c = NoClient
        BY <2>0, <2>6, <3>2
      <4> QED
        BY <4>1, <2>3
    <3> QED
      BY <3>1, <3>2
  <2>7. ASSUME NEW b \in Admins, NEW d \in Clients
        PROVE  tab'[b].shown[d] <= Cardinality(Traces(b, "view", d)')
    <3>0. /\ tab[b].shown[d] <= Cardinality(Traces(b, "view", d))
          /\ tab[b].shown[d] \in Nat /\ tab[b].shown \in [Clients -> Nat]
      BY <1>j, <1>s
    <3>1. CASE tab'[b].shown[d] = tab[b].shown[d]
      BY <3>0, <3>1, <2>5
    <3>2. CASE tab'[b].shown[d] # tab[b].shown[d]
      <4>1. b = a /\ x = "view" /\ d = c /\ tab'[b].shown[d] = tab[b].shown[d] + 1
        BY <3>0, <3>2, <2>0
      <4> QED
        BY <3>0, <4>1, <2>4, <2>5
    <3> QED
      BY <3>1, <3>2
  <2> QED
    BY <2>6, <2>7 DEF AccessIsJournaled
<1> QED
  BY <1>1, <1>2, <1>3, AdministrationSteps

(* Every reachable state of the back office is well typed, whatever        *)
(* administrators do at once and whatever fails                            *)
(* (admin-organizations.service.ts, AdminAuthContext.tsx).                 *)
THEOREM AdministrationTypeCorrect == AdministrationSpec => []AdministrationTypeOK
  BY AdministrationInits, TaskNext, AdministrationTypeNext, PTL DEF AdministrationSpec

(* The audit log tells which organizations are suspended: no decision is   *)
(* without its trace, none is traced that failed, and the traces are in    *)
(* the order of the decisions (admin-organizations.service.ts:142-196).    *)
THEOREM DecisionsAreJournaled == AdministrationSpec => []JournalTellsState
  BY AdministrationInits, TaskNext, AdministrationTypeNext, JournalNext, PTL
     DEF AdministrationSpec

(* Nobody sees a file or enters the back office without a trace of it,     *)
(* whatever fails in between (admin-organizations.controller.ts:35-43,     *)
(* platform-admin-auth.service.ts:44-56).                                  *)
THEOREM AccessesAreJournaled == AdministrationSpec => []AccessIsJournaled
  BY AdministrationInits, TaskNext, AdministrationTypeNext, AccessNext, PTL
     DEF AdministrationSpec

-----------------------------------------------------------------------------
(* Pages are counted from the newest entry, and entries are only added: a  *)
(* page begins at or above the row where the one before ended.  What has   *)
(* been read since page 1 is then all that was there down to a row, that   *)
(* the pages turned could not have passed with the entries of the moment.  *)
ReadDownTo(a, m) ==
  /\ \A j \in tab[a].read : j + tab[a].page * PageSize > m
  /\ \A i \in 1..tab[a].from : i + tab[a].page * PageSize > m => i \in tab[a].read

PagesReadDown ==
  \A a \in Admins :
    IF tab[a].page = 0 THEN tab[a].read = {}
    ELSE tab[a].from <= Len(journal) /\ \E m \in 0..Len(journal) : ReadDownTo(a, m)

\* A page, with the number of its first row for a number of rows.
LEMMA RowsOfPage ==
  ASSUME NEW n \in Nat, NEW p \in Nat
  PROVE  /\ p * PageSize \in Nat /\ (p + 1) * PageSize = p * PageSize + PageSize
         /\ PageRows(n, p + 1) =
              {i \in 1..n : n - i \in p * PageSize..(p * PageSize + PageSize - 1)}
<1>1. PageSize \in Nat /\ (p + 1) - 1 = p
  BY AdministrationAssumption
<1>2. p * PageSize \in Nat /\ (p + 1) * PageSize = p * PageSize + PageSize
  BY <1>1
<1> QED
  BY <1>1, <1>2 DEF PageRows, FirstRow

\* The journal never shrinks, and a tab opens it, turns a page or keeps what
\* it has read, unless it begins again.
LEMMA TabReads ==
  ASSUME AdministrationTypeOK, TaskNames, [AdministrationNext]_administrationVars
  PROVE  /\ Len(journal) \in Nat /\ Len(journal') \in Nat /\ Len(journal) <= Len(journal')
         /\ \A b \in Admins :
              \/ tab'[b].page = 0 /\ tab'[b].read = {}
              \/ /\ tab'[b].page = tab[b].page /\ tab'[b].read = tab[b].read
                 /\ tab'[b].from = tab[b].from
              \/ /\ journal' = journal
                 /\ tab'[b].page = 1 /\ tab'[b].from = Len(journal)
                 /\ tab'[b].read = PageRows(Len(journal), 1)
              \/ /\ journal' = journal
                 /\ tab[b].page # 0 /\ tab'[b].page = tab[b].page + 1
                 /\ tab'[b].from = tab[b].from
                 /\ tab'[b].read = tab[b].read \cup PageRows(Len(journal), tab[b].page + 1)
<1> DEFINE Reads(b) ==
      \/ tab'[b].page = 0 /\ tab'[b].read = {}
      \/ /\ tab'[b].page = tab[b].page /\ tab'[b].read = tab[b].read
         /\ tab'[b].from = tab[b].from
      \/ /\ journal' = journal
         /\ tab'[b].page = 1 /\ tab'[b].from = Len(journal)
         /\ tab'[b].read = PageRows(Len(journal), 1)
      \/ /\ journal' = journal
         /\ tab[b].page # 0 /\ tab'[b].page = tab[b].page + 1
         /\ tab'[b].from = tab[b].from
         /\ tab'[b].read = tab[b].read \cup PageRows(Len(journal), tab[b].page + 1)
<1>t. tab \in [Admins -> Tab] /\ Len(journal) \in Nat /\ journal \in Seq(Entry)
  BY DEF AdministrationTypeOK
<1>0. CASE UNCHANGED administrationVars
  BY <1>0, <1>t DEF administrationVars
<1>k. ASSUME NEW a \in Admins, NEW t,
             tab' = [tab EXCEPT ![a] = t],
             t.page = tab[a].page, t.read = tab[a].read, t.from = tab[a].from
      PROVE  \A b \in Admins : Reads(b)
  BY <1>t, <1>k
<1>z. ASSUME NEW a \in Admins, NEW t,
             tab' = [tab EXCEPT ![a] = t], t.page = 0, t.read = {}
      PROVE  \A b \in Admins : Reads(b)
  BY <1>t, <1>z
<1>1. ASSUME NEW a \in Admins, Untraced(a)
      PROVE  journal' = journal /\ \A b \in Admins : Reads(b)
  <2>0. journal' = journal /\ tab[a] \in Tab
    BY <1>1, <1>t, UntracedStep
  <2>1. CASE TurnedAway(a) \/ SignOut(a)
    <3> DEFINE t == [EmptyTab EXCEPT !.shown = tab[a].shown]
    <3>1. tab' = [tab EXCEPT ![a] = t] /\ t.page = 0 /\ t.read = {}
      BY <2>1 DEF TurnedAway, SignOut, EmptyTab
    <3> HIDE DEF t, Reads
    <3> QED
      BY <2>0, <3>1, <1>z
  <2>2. CASE LoadOffice(a)
    <3> DEFINE t == [EmptyTab EXCEPT !.token = tab[a].token, !.shown = tab[a].shown,
                                     !.restoring = tab[a].token # "none"]
    <3>1. tab' = [tab EXCEPT ![a] = t] /\ t.page = 0 /\ t.read = {}
      BY <2>2 DEF LoadOffice, EmptyTab
    <3> HIDE DEF t, Reads
    <3> QED
      BY <2>0, <3>1, <1>z
  <2>3. CASE Restore(a)
    <3> DEFINE t == [tab[a] EXCEPT !.known = TRUE, !.restoring = FALSE]
               f == [tab[a] EXCEPT !.token = "none", !.restoring = FALSE]
    <3>1. tab' = [tab EXCEPT ![a] = t] \/ tab' = [tab EXCEPT ![a] = f]
      BY <2>3 DEF Restore
    <3>2. t.page = tab[a].page /\ t.read = tab[a].read /\ t.from = tab[a].from
      BY <2>0 DEF Tab
    <3>3. f.page = tab[a].page /\ f.read = tab[a].read /\ f.from = tab[a].from
      BY <2>0 DEF Tab
    <3> HIDE DEF t, f, Reads
    <3> QED
      BY <2>0, <3>1, <3>2, <3>3, <1>k
  <2>4. CASE ExpireToken(a)
    <3> DEFINE t == [tab[a] EXCEPT !.token = "expired"]
    <3>1. tab' = [tab EXCEPT ![a] = t]
      BY <2>4 DEF ExpireToken
    <3>2. t.page = tab[a].page /\ t.read = tab[a].read /\ t.from = tab[a].from
      BY <2>0 DEF Tab
    <3> HIDE DEF t, Reads
    <3> QED
      BY <2>0, <3>1, <3>2, <1>k
  <2>5. CASE OpenJournal(a)
    <3> DEFINE t == [tab[a] EXCEPT !.page = 1, !.from = Len(journal),
                                   !.read = PageRows(Len(journal), 1)]
    <3>1. tab' = [tab EXCEPT ![a] = t]
      BY <2>5 DEF OpenJournal
    <3>2. t.page = 1 /\ t.read = PageRows(Len(journal), 1) /\ t.from = Len(journal)
      BY <2>0 DEF Tab
    <3> HIDE DEF t
    <3> QED
      BY <2>0, <3>1, <3>2, <1>t
  <2>6. CASE TurnPage(a)
    <3> DEFINE t == [tab[a] EXCEPT !.page = tab[a].page + 1,
                       !.read = tab[a].read \cup PageRows(Len(journal), tab[a].page + 1)]
    <3>0. PageCount(Len(journal)) - 1 \in Int
      BY <1>t, AdministrationAssumption DEF PageCount
    <3>1. tab' = [tab EXCEPT ![a] = t] /\ tab[a].page # 0
      <4>1. tab[a].page \in 1..(PageCount(Len(journal)) - 1)
        BY <2>6 DEF TurnPage
      <4>2. tab[a].page # 0
        BY <3>0, <4>1
      <4> QED
        BY <2>6, <4>2 DEF TurnPage
    <3>2. /\ t.page = tab[a].page + 1 /\ t.from = tab[a].from
          /\ t.read = tab[a].read \cup PageRows(Len(journal), tab[a].page + 1)
      BY <2>0 DEF Tab
    <3> HIDE DEF t
    <3> QED
      BY <2>0, <3>1, <3>2, <1>t
  <2>7. CASE tab' = tab
    BY <2>0, <2>7
  <2>8. \/ tab' = tab
        \/ TurnedAway(a) \/ SignOut(a) \/ LoadOffice(a) \/ Restore(a) \/ ExpireToken(a)
        \/ OpenJournal(a) \/ TurnPage(a)
    BY <1>1 DEF Untraced, SignInOffice, Disable, ApplyDecision, FailTask, View, Decide
  <2> HIDE DEF Reads
  <2> QED
    BY <2>0, <2>1, <2>2, <2>3, <2>4, <2>5, <2>6, <2>7, <2>8
<1>2. ASSUME NEW a \in Admins, Traced(a)
      PROVE  Len(journal') = Len(journal) + 1 /\ \A b \in Admins : Reads(b)
  <2>0. /\ tab[a] \in Tab
        /\ \E x, c : journal' = Append(journal, [admin |-> a, action |-> x, client |-> c])
    BY <1>2, <1>t DEF Traced, EnterOffice, ShowFile, CommitDecision, Record
  <2>1. Len(journal') = Len(journal) + 1
    BY <1>t, <2>0
  <2>2. CASE EnterOffice(a)
    <3> DEFINE t == [tab[a] EXCEPT !.token = "live", !.known = TRUE]
    <3>1. tab' = [tab EXCEPT ![a] = t]
      BY <2>2 DEF EnterOffice
    <3>2. t.page = tab[a].page /\ t.read = tab[a].read /\ t.from = tab[a].from
      BY <2>0 DEF Tab
    <3> HIDE DEF t, Reads
    <3> QED
      BY <2>1, <3>1, <3>2, <1>k
  <2>3. CASE ShowFile(a)
    <3> DEFINE f == [tab[a].shown EXCEPT ![task[a].client] = @ + 1]
    <3> DEFINE t == [tab[a] EXCEPT !.shown = f]
    <3>1. tab' = [tab EXCEPT ![a] = t]
      BY <2>3 DEF ShowFile
    <3> HIDE DEF f
    <3>2. t.page = tab[a].page /\ t.read = tab[a].read /\ t.from = tab[a].from
      BY <2>0 DEF Tab
    <3> HIDE DEF t, Reads
    <3> QED
      BY <2>1, <3>1, <3>2, <1>k
  <2>4. CASE CommitDecision(a)
    BY <2>1, <2>4 DEF CommitDecision
  <2> HIDE DEF Reads
  <2> QED
    BY <1>2, <2>1, <2>2, <2>3, <2>4 DEF Traced
<1> HIDE DEF Reads
<1>3. /\ Len(journal') \in Nat /\ Len(journal) <= Len(journal')
      /\ \A b \in Admins : Reads(b)
  <2>1. CASE UNCHANGED administrationVars
    BY <1>0, <1>t, <2>1 DEF administrationVars, Reads
  <2>2. CASE \E a \in Admins : Untraced(a)
    BY <1>1, <1>t, <2>2
  <2>3. CASE \E a \in Admins : Traced(a)
    BY <1>2, <1>t, <2>3
  <2> QED
    BY <2>1, <2>2, <2>3, AdministrationSteps
<1> QED
  BY <1>t, <1>3 DEF Reads

LEMMA PagesNext ==
  ASSUME AdministrationTypeOK, TaskNames, PagesReadDown, [AdministrationNext]_administrationVars
  PROVE  PagesReadDown'
<1> DEFINE n == Len(journal)
<1>p. PageSize \in Nat \ {0}
  BY AdministrationAssumption
<1>1. /\ n \in Nat /\ Len(journal') \in Nat /\ n <= Len(journal')
      /\ \A b \in Admins :
           \/ tab'[b].page = 0 /\ tab'[b].read = {}
           \/ /\ tab'[b].page = tab[b].page /\ tab'[b].read = tab[b].read
              /\ tab'[b].from = tab[b].from
           \/ /\ journal' = journal
              /\ tab'[b].page = 1 /\ tab'[b].from = n
              /\ tab'[b].read = PageRows(n, 1)
           \/ /\ journal' = journal
              /\ tab[b].page # 0 /\ tab'[b].page = tab[b].page + 1
              /\ tab'[b].from = tab[b].from
              /\ tab'[b].read = tab[b].read \cup PageRows(n, tab[b].page + 1)
  BY TabReads
<1> SUFFICES ASSUME NEW b \in Admins
             PROVE  IF tab'[b].page = 0 THEN tab'[b].read = {}
                    ELSE /\ tab'[b].from <= Len(journal')
                         /\ \E m \in 0..Len(journal') : ReadDownTo(b, m)'
  BY DEF PagesReadDown
<1>t. /\ tab[b].page \in Nat /\ tab[b].from \in Nat /\ tab[b].read \subseteq Nat
  BY DEF AdministrationTypeOK, Tab
<1>2. tab[b].page # 0 => tab[b].from <= n /\ \E m \in 0..n : ReadDownTo(b, m)
  BY DEF PagesReadDown
<1>3. tab[b].page = 0 => tab[b].read = {}
  BY DEF PagesReadDown
<1> HIDE DEF n
<1>4. CASE tab'[b].page = 0 /\ tab'[b].read = {}
  BY <1>4
<1>5. CASE /\ tab'[b].page = tab[b].page /\ tab'[b].read = tab[b].read
           /\ tab'[b].from = tab[b].from
  <2>1. CASE tab[b].page = 0
    BY <1>3, <1>5, <2>1
  <2>2. CASE tab[b].page # 0
    <3> PICK m \in 0..n : ReadDownTo(b, m)
      BY <1>2, <2>2
    <3>1. ReadDownTo(b, m)'
      BY <1>5 DEF ReadDownTo
    <3>2. m \in 0..Len(journal') /\ tab'[b].from <= Len(journal')
      BY <1>1, <1>2, <1>5, <1>t, <2>2
    <3> QED
      BY <1>5, <2>2, <3>1, <3>2
  <2> QED
    BY <2>1, <2>2
<1>6. CASE /\ journal' = journal
           /\ tab'[b].page = 1 /\ tab'[b].from = n
           /\ tab'[b].read = PageRows(n, 1)
  <2>1. PageRows(n, 1) = {i \in 1..n : n - i \in 0..(PageSize - 1)} /\ 1 * PageSize = PageSize
    <3>1. /\ 0 * PageSize = 0 /\ 0 + 1 = 1 /\ 0 + PageSize - 1 = PageSize - 1
          /\ 1 * PageSize = PageSize
      BY <1>p
    <3>2. PageRows(n, 0 + 1) =
            {i \in 1..n : n - i \in 0 * PageSize..(0 * PageSize + PageSize - 1)}
      BY <1>1, RowsOfPage
    <3> QED
      BY <3>1, <3>2
  <2>2. ReadDownTo(b, n)'
    <3>1. \A i \in 1..n : i + PageSize > n <=> n - i \in 0..(PageSize - 1)
      BY <1>1, <1>p
    <3>2. \A i \in PageRows(n, 1) : i + PageSize > n
      BY <2>1, <3>1
    <3>3. \A i \in 1..n : i + PageSize > n => i \in PageRows(n, 1)
      BY <2>1, <3>1
    <3> QED
      BY <1>6, <2>1, <3>2, <3>3 DEF ReadDownTo, n
  <2>3. n \in 0..Len(journal') /\ tab'[b].from <= Len(journal')
    BY <1>1, <1>6
  <2> QED
    BY <1>6, <2>2, <2>3 DEF n
<1>7. CASE /\ journal' = journal
           /\ tab[b].page # 0 /\ tab'[b].page = tab[b].page + 1
           /\ tab'[b].from = tab[b].from
           /\ tab'[b].read = tab[b].read \cup PageRows(n, tab[b].page + 1)
  <2> PICK m \in 0..n : ReadDownTo(b, m)
    BY <1>2, <1>7
  <2> DEFINE k == tab[b].page * PageSize
  <2>1. /\ k \in Nat /\ (tab[b].page + 1) * PageSize = k + PageSize
        /\ PageRows(n, tab[b].page + 1) = {i \in 1..n : n - i \in k..(k + PageSize - 1)}
    BY <1>1, <1>t, RowsOfPage
  <2>2. /\ \A j \in tab[b].read : j + k > m
        /\ \A i \in 1..tab[b].from : i + k > m => i \in tab[b].read
    BY DEF ReadDownTo
  <2>3. PICK q \in 0..n : q <= m + PageSize /\ (q # m + PageSize => q = n)
    <3>1. CASE m + PageSize <= n
      <4>1. m + PageSize \in 0..n
        BY <1>1, <1>p, <3>1
      <4>2. m + PageSize <= m + PageSize
        BY <1>1, <1>p
      <4> WITNESS m + PageSize \in 0..n
      <4> QED
        BY <4>2
    <3>2. CASE ~(m + PageSize <= n)
      <4>1. n \in 0..n /\ n <= m + PageSize
        BY <1>1, <1>p, <3>2
      <4> QED
        BY <4>1
    <3> QED
      BY <3>1, <3>2
  <2> HIDE DEF k
  <2>4. \A j \in tab'[b].read : j + (k + PageSize) > q
    <3> SUFFICES ASSUME NEW j \in tab'[b].read PROVE j + (k + PageSize) > q
      OBVIOUS
    <3>1. CASE j \in tab[b].read
      <4>1. j \in Nat /\ j + k > m
        BY <1>t, <2>2, <3>1
      <4> QED
        BY <1>1, <1>p, <2>1, <2>3, <4>1
    <3>2. CASE j \in PageRows(n, tab[b].page + 1)
      <4>1. j \in 1..n /\ n - j \in k..(k + PageSize - 1)
        BY <2>1, <3>2
      <4> QED
        BY <1>1, <1>p, <2>1, <2>3, <4>1
    <3> QED
      BY <1>7, <3>1, <3>2
  <2>5. \A i \in 1..tab[b].from : i + (k + PageSize) > q => i \in tab'[b].read
    <3> SUFFICES ASSUME NEW i \in 1..tab[b].from, i + (k + PageSize) > q, i \notin tab[b].read
                 PROVE  i \in PageRows(n, tab[b].page + 1)
      BY <1>7
    <3>1. ~(i + k > m) /\ i \in Nat
      BY <2>2, <1>t
    <3>2. i \in 1..n
      BY <1>1, <1>2, <1>7, <1>t
    <3>3. q = n
      BY <1>1, <1>p, <2>1, <2>3, <3>1
    <3>4. n - i \in k..(k + PageSize - 1)
      BY <1>1, <1>p, <2>1, <3>1, <3>2, <3>3
    <3> QED
      BY <2>1, <3>2, <3>4
  <2>6. ReadDownTo(b, q)'
    BY <1>7, <2>1, <2>4, <2>5 DEF ReadDownTo
  <2>7. q \in 0..Len(journal') /\ tab'[b].from <= Len(journal') /\ tab'[b].page # 0
    BY <1>1, <1>2, <1>7, <1>t, <2>3 DEF n
  <2> QED
    BY <2>6, <2>7
<1> QED
  BY <1>1, <1>4, <1>5, <1>6, <1>7

(* Whoever reads the audit log page after page misses no entry that was    *)
(* there at the first, for any number of rows of a page and any entries    *)
(* written meanwhile (admin-audit-log.service.ts:45-64).                   *)
THEOREM PagesAreComplete == AdministrationSpec => []PagesMissNothing
<1>1. AdministrationInit => PagesReadDown
  <2>1. EmptyTab.page = 0 /\ EmptyTab.read = {}
    BY DEF EmptyTab
  <2> QED
    BY <2>1 DEF AdministrationInit, PagesReadDown
<1>2. AdministrationTypeOK /\ PagesReadDown => PagesMissNothing
  <2> SUFFICES ASSUME AdministrationTypeOK, PagesReadDown, NEW a \in Admins,
                      NEW i \in 1..tab[a].from, NEW j \in tab[a].read, j < i
               PROVE  i \in tab[a].read
    BY DEF PagesMissNothing
  <2>1. /\ tab[a].page \in Nat /\ tab[a].from \in Nat /\ tab[a].read \subseteq Nat
        /\ Len(journal) \in Nat
    BY DEF AdministrationTypeOK, Tab
  <2>2. tab[a].page # 0
    BY DEF PagesReadDown
  <2> PICK m \in 0..Len(journal) : ReadDownTo(a, m)
    BY <2>2 DEF PagesReadDown
  <2>3. tab[a].page * PageSize \in Nat
    BY <2>1, RowsOfPage
  <2>4. j + tab[a].page * PageSize > m
    BY DEF ReadDownTo
  <2>5. i + tab[a].page * PageSize > m
    <3> DEFINE k == tab[a].page * PageSize
    <3>1. j \in Nat /\ i \in Nat /\ k \in Nat /\ m \in Nat /\ j + k > m
      BY <2>1, <2>3, <2>4
    <3> HIDE DEF k
    <3>2. i + k > m
      BY <3>1
    <3> QED
      BY <3>2 DEF k
  <2> QED
    BY <2>5 DEF ReadDownTo
<1> QED
  BY <1>1, <1>2, AdministrationInits, TaskNext, AdministrationTypeNext, PagesNext, PTL
     DEF AdministrationSpec

=============================================================================
