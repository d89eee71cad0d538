------------------------------ MODULE Accounts ------------------------------
(***************************************************************************)
(* Organizations, their users and the invitations that add to them:        *)
(* register (apps/api/src/modules/auth/auth.service.ts), invites.service.ts *)
(* and organizations.service.ts.  An invitation is created in a            *)
(* SERIALIZABLE transaction that counts the seats taken; registrations and *)
(* acceptances are READ COMMITTED transactions.                            *)
(***************************************************************************)
EXTENDS Naturals, Sequences, FiniteSets

CONSTANTS
  Companies,      \* organizations that may be founded
  Emails,         \* addresses, unique among the users
  AccountCalls,   \* HTTP calls in progress
  SeatLimits,     \* Plan.features.maxUsers of the plans
  Unlimited,      \* no limit: maxUsers null, TRIAL or no subscription
  MaxRetries,     \* MAX_SEAT_CHECK_RETRIES
  InviteLife,     \* INVITE_EXPIRY_DAYS
  MaxDay,         \* bound of the clock
  MaxInvites      \* bound of pending_invites

ASSUME AccountsAssumption ==
  /\ Companies # {} /\ Emails # {}
  /\ IsFiniteSet(AccountCalls)
  /\ SeatLimits \subseteq Nat
  /\ Unlimited \notin SeatLimits
  /\ {MaxRetries, InviteLife, MaxDay, MaxInvites} \subseteq Nat

VARIABLES
  today,
  founded,     \* organizations that exist
  seatLimit,   \* the limit read from the subscription of each organization
  people,      \* users, in the order of their creation
  invites,     \* pending_invites
  errand       \* what each call is doing

accountVars == <<today, founded, seatLimit, people, invites, errand>>

Limit == SeatLimits \cup {Unlimited}

-----------------------------------------------------------------------------
(* "invite" is the invitation the user accepted, 0 for the one who         *)
(* registered the organization.                                            *)
Person == [email: Emails, company: Companies, invite: Nat]

(* "limit" is the one its creation was checked against; it only observes.  *)
(* "accepted" is acceptedAt, 0 when it is null: days count from 1.         *)
Invitation == [company: Companies, email: Emails, expires: Nat, accepted: Nat, limit: Limit]

(* "seats" and "seen" are what the transaction saw: the seats taken and    *)
(* the number of invitations; "people" how many users it saw.              *)
Errand ==
  [at: {"idle", "register", "count", "insert", "accept"}, company: Companies,
   email: Emails, invite: Nat, attempt: Nat, expires: Nat, limit: Limit,
   seen: Nat, people: Nat]

NoErrand ==
  [at |-> "idle", company |-> CHOOSE o \in Companies : TRUE,
   email |-> CHOOSE e \in Emails : TRUE, invite |-> 0, attempt |-> 0, expires |-> 0,
   limit |-> Unlimited, seen |-> 0, people |-> 0]

Available(c) == errand[c].at = "idle"

EndErrand(c) == errand' = [errand EXCEPT ![c] = NoErrand]

EmailTaken(e) == \E u \in DOMAIN people : people[u].email = e

(* The invitations that count as seats.                                    *)
PendingInvites(o) ==
  {i \in DOMAIN invites :
     invites[i].company = o /\ invites[i].accepted = 0 /\ invites[i].expires > today}

Members(o) == {u \in DOMAIN people : people[u].company = o}

Seats(o) == Cardinality(Members(o)) + Cardinality(PendingInvites(o))

-----------------------------------------------------------------------------
(* register: the address is looked up, the password hashed, then one       *)
(* transaction creates the organization, its owner and its subscription.   *)
Register(c) ==
  /\ Available(c)
  /\ \E e \in Emails :
       /\ ~EmailTaken(e)
       /\ errand' = [errand EXCEPT ![c].at = "register", ![c].email = e]
  /\ UNCHANGED <<today, founded, seatLimit, people, invites>>

\* Variant: the organization is created before the transaction.
FoundedFirst(c) ==
  /\ errand[c].at = "register"
  /\ \E o \in Companies \ founded :
       /\ founded' = founded \cup {o}
       /\ IF EmailTaken(errand[c].email)
          THEN UNCHANGED people
          ELSE people' = Append(people, [email |-> errand[c].email, company |-> o, invite |-> 0])
  /\ EndErrand(c)
  /\ UNCHANGED <<today, seatLimit, invites>>

(* The unique index on the address rolls the whole transaction back.       *)
FoundCompany(c) ==
  /\ errand[c].at = "register"
  /\ IF EmailTaken(errand[c].email)
     THEN UNCHANGED <<founded, people>>
     ELSE \E o \in Companies \ founded :
            /\ founded' = founded \cup {o}
            /\ people' = Append(people, [email |-> errand[c].email, company |-> o, invite |-> 0])
  /\ EndErrand(c)
  /\ UNCHANGED <<today, seatLimit, invites>>

(* The plan of an organization changes: activation, trial, administrator.  *)
ChangePlan(o) ==
  /\ o \in founded
  /\ \E l \in Limit \ {seatLimit[o]} : seatLimit' = [seatLimit EXCEPT ![o] = l]
  /\ UNCHANGED <<today, founded, people, invites, errand>>

-----------------------------------------------------------------------------
Inviting(c) == errand[c].at \in {"count", "insert"}

(* invites.create: the expiry is computed once, before the attempts.       *)
Invite(c) ==
  /\ Available(c)
  /\ Len(invites) + Cardinality({d \in AccountCalls : Inviting(d)}) < MaxInvites
  /\ \E o \in founded, e \in Emails :
       errand' = [errand EXCEPT ![c] = [NoErrand EXCEPT !.at = "count", !.company = o,
                                          !.email = e, !.expires = today + InviteLife]]
  /\ UNCHANGED <<today, founded, seatLimit, people, invites>>

(* The snapshot of an attempt: the limit and, if there is one, the seats.  *)
Count(c) ==
  LET o == errand[c].company  limit == seatLimit[o] IN
  /\ errand[c].at = "count"
  /\ IF limit # Unlimited /\ Seats(o) >= limit
     THEN EndErrand(c)
     ELSE errand' = [errand EXCEPT ![c].at = "insert", ![c].limit = limit,
                                   ![c].seen = Len(invites), ![c].people = Len(people)]
  /\ UNCHANGED <<today, founded, seatLimit, people, invites>>

(* Serialization: of two transactions that each counted the seats of an    *)
(* organization and did not see what the other added, one fails.           *)
\* Variant: the transaction runs at the default isolation level.
NeverConflicts(c) == FALSE

Conflicts(c) ==
  /\ errand[c].limit # Unlimited
  /\ \E i \in DOMAIN invites :
       /\ i > errand[c].seen
       /\ invites[i].company = errand[c].company
       /\ invites[i].limit # Unlimited

(* Predicate locks are coarser than the rows read: any serializable        *)
(* transaction that overlaps may make this one fail.                       *)
MayFail(c) ==
  \/ Len(invites) > errand[c].seen
  \/ \E d \in AccountCalls \ {c} : errand[d].at = "insert"

Insert(c) ==
  /\ errand[c].at = "insert"
  /\ ~Conflicts(c)
  /\ invites' = Append(invites, [company |-> errand[c].company, email |-> errand[c].email,
                                 expires |-> errand[c].expires, accepted |-> 0,
                                 limit |-> errand[c].limit])
  /\ EndErrand(c)
  /\ UNCHANGED <<today, founded, seatLimit, people>>

(* P2034: another attempt, while there are any left.                       *)
\* Variant: every attempt is the first.
RetryForever(c) ==
  /\ errand[c].at = "insert"
  /\ Conflicts(c) \/ MayFail(c)
  /\ IF errand[c].attempt < MaxRetries
     THEN errand' = [errand EXCEPT ![c].at = "count"]
     ELSE EndErrand(c)
  /\ UNCHANGED <<today, founded, seatLimit, people, invites>>

Retry(c) ==
  /\ errand[c].at = "insert"
  /\ Conflicts(c) \/ MayFail(c)
  /\ IF errand[c].attempt < MaxRetries
     THEN errand' = [errand EXCEPT ![c].at = "count", ![c].attempt = @ + 1]
     ELSE EndErrand(c)
  /\ UNCHANGED <<today, founded, seatLimit, people, invites>>

-----------------------------------------------------------------------------
(* accept: findValidByToken and the look-up of the address, the password   *)
(* hashed, then one transaction creates the user and marks the invitation, *)
(* which is not read again.                                                *)
Acceptable(i) == invites[i].accepted = 0 /\ invites[i].expires >= today

Accept(c) ==
  /\ Available(c)
  /\ \E i \in DOMAIN invites :
       /\ Acceptable(i)
       /\ ~EmailTaken(invites[i].email)
       /\ errand' = [errand EXCEPT ![c].at = "accept", ![c].invite = i]
  /\ UNCHANGED <<today, founded, seatLimit, people, invites>>

\* Variant: the user is created by upsert, so that a second acceptance passes.
JoinAgain(c) ==
  LET i == errand[c].invite IN
  /\ errand[c].at = "accept"
  /\ people' = Append(people, [email |-> invites[i].email,
                               company |-> invites[i].company, invite |-> i])
  /\ invites' = [invites EXCEPT ![i].accepted = today]
  /\ EndErrand(c)
  /\ UNCHANGED <<today, founded, seatLimit>>

Join(c) ==
  LET i == errand[c].invite IN
  /\ errand[c].at = "accept"
  /\ IF EmailTaken(invites[i].email)
     THEN UNCHANGED <<people, invites>>
     ELSE /\ people' = Append(people, [email |-> invites[i].email,
                                       company |-> invites[i].company, invite |-> i])
          /\ invites' = [invites EXCEPT ![i].accepted = today]
  /\ EndErrand(c)
  /\ UNCHANGED <<today, founded, seatLimit>>

(* The process stops between two statements: the transaction is undone.    *)
DropErrand(c) ==
  /\ ~Available(c)
  /\ EndErrand(c)
  /\ UNCHANGED <<today, founded, seatLimit, people, invites>>

NextDay ==
  /\ today < MaxDay
  /\ today' = today + 1
  /\ UNCHANGED <<founded, seatLimit, people, invites, errand>>

AccountsInit ==
  /\ today = 1
  /\ founded = {}
  /\ seatLimit = [o \in Companies |-> Unlimited]
  /\ people = <<>>
  /\ invites = <<>>
  /\ errand = [c \in AccountCalls |-> NoErrand]

InvitingSteps(c) == Count(c) \/ Insert(c) \/ Retry(c)

AccountStep(c) == FoundCompany(c) \/ InvitingSteps(c) \/ Join(c)

AccountsNext ==
  \/ \E c \in AccountCalls :
       AccountStep(c) \/ Register(c) \/ Invite(c) \/ Accept(c) \/ DropErrand(c)
  \/ \E o \in Companies : ChangePlan(o)
  \/ NextDay

(* Node runs every call that has begun: its next statement is executed.    *)
AccountsFairness ==
  \A c \in AccountCalls : WF_accountVars(InvitingSteps(c))

AccountsSpec == AccountsInit /\ [][AccountsNext]_accountVars /\ AccountsFairness

-----------------------------------------------------------------------------
AccountsTypeOK ==
  /\ today \in Nat \ {0}
  /\ founded \subseteq Companies
  /\ seatLimit \in [Companies -> Limit]
  /\ people \in Seq(Person)
  /\ invites \in Seq(Invitation)
  /\ errand \in [AccountCalls -> Errand]

(* Whatever fails or races, an organization never exists without the user  *)
(* who registered it, and has one only (auth.service.ts:96-138).           *)
FoundedByOne ==
  \A o \in founded : \E u \in Members(o) :
    /\ people[u].invite = 0
    /\ \A v \in Members(o) : people[v].invite = 0 => v = u

(* An invitation is marked accepted exactly when one user came of it, in   *)
(* its organization and under its address, though acceptances, other       *)
(* invitations of the address and registrations race (invites.service.ts:  *)
(* 132-160).                                                               *)
OneUserPerInvite ==
  /\ \A i \in DOMAIN invites :
       invites[i].accepted # 0 <=> \E u \in DOMAIN people : people[u].invite = i
  /\ \A u, v \in DOMAIN people : people[u].email = people[v].email => u = v
  /\ \A u \in DOMAIN people : people[u].invite # 0 =>
       /\ people[u].invite \in DOMAIN invites
       /\ invites[people[u].invite].email = people[u].email
       /\ invites[people[u].invite].company = people[u].company

(* What a count cannot see: invitations created meanwhile while there was  *)
(* no limit, and expired invitations whose acceptance was under way.       *)
Unseen(c) ==
  Cardinality({i \in PendingInvites(errand[c].company) :
                 i > errand[c].seen /\ invites[i].limit = Unlimited})
  + Cardinality({u \in Members(errand[c].company) :
                   /\ u > errand[c].people /\ people[u].invite # 0
                   /\ LET i == invites[people[u].invite] IN
                      \/ i.accepted >= i.expires
                      \/ people[u].invite > errand[c].seen /\ i.limit = Unlimited})

(* Invitations created at the same instant never exceed the seats of the   *)
(* plan: the transaction that commits counted all that others committed    *)
(* (invites.service.ts:41-50).                                             *)
SeatsRespected ==
  [][\A c \in AccountCalls, o \in Companies :
       Insert(c) /\ errand[c].company = o /\ errand[c].limit # Unlimited
         => Seats(o)' <= errand[c].limit + Unseen(c)]_accountVars

(* A creation of an invitation always answers: conflicts are retried a     *)
(* bounded number of times (invites.service.ts:100-109).                   *)
InvitationAnswered ==
  \A c \in AccountCalls : []<>~Inviting(c)

=============================================================================
