--------------------------- MODULE AccountsProofs ---------------------------
(***************************************************************************)
(* Theorems about Accounts, for any number of organizations, addresses and *)
(* concurrent calls.  The unique address of a user is what makes both hold *)
(* although registrations and acceptances test it outside of their         *)
(* transaction: the invariant adds that a call under way names an          *)
(* invitation and an organization that exist, and that nobody belongs to   *)
(* one that does not.                                                      *)
(***************************************************************************)
EXTENDS Accounts, Rows, FiniteSetTheorems

-----------------------------------------------------------------------------
\* A call that is about to accept an invitation, or to insert one, has found
\* it, or the organization it invites to.
AcceptKnown ==
  \A c \in AccountCalls :
    /\ errand[c].at = "accept" => errand[c].invite \in DOMAIN invites
    /\ errand[c].at \in {"count", "insert"} => errand[c].company \in founded

\* What a call does next is well typed.
LEMMA ErrandTypes ==
  /\ NoErrand \in Errand /\ NoErrand.at = "idle"
  /\ \A e \in Errand :
       /\ e.company \in Companies /\ e.email \in Emails /\ e.limit \in Limit
       /\ e.invite \in Nat /\ e.attempt \in Nat /\ e.expires \in Nat
       /\ \A x \in Emails : [e EXCEPT !.at = "register", !.email = x] \in Errand
       /\ \A i \in Nat : [e EXCEPT !.at = "accept", !.invite = i] \in Errand
       /\ \A l \in Limit, n, m \in Nat :
            [e EXCEPT !.at = "insert", !.limit = l, !.seen = n, !.people = m] \in Errand
       /\ \A k \in Nat : [e EXCEPT !.at = "count", !.attempt = k] \in Errand
<1>1. NoErrand \in Errand /\ NoErrand.at = "idle"
  BY AccountsAssumption DEF NoErrand, Errand, Limit
<1>2. ASSUME NEW e \in Errand
      PROVE  /\ e.company \in Companies /\ e.email \in Emails /\ e.limit \in Limit
             /\ e.invite \in Nat /\ e.attempt \in Nat /\ e.expires \in Nat
             /\ \A x \in Emails : [e EXCEPT !.at = "register", !.email = x] \in Errand
             /\ \A i \in Nat : [e EXCEPT !.at = "accept", !.invite = i] \in Errand
             /\ \A l \in Limit, n, m \in Nat :
                  [e EXCEPT !.at = "insert", !.limit = l, !.seen = n, !.people = m] \in Errand
             /\ \A k \in Nat : [e EXCEPT !.at = "count", !.attempt = k] \in Errand
  BY <1>2 DEF Errand
<1> QED
  BY <1>1, <1>2

\* The initial state is well typed.
LEMMA AccountsTypeInit == AccountsInit => AccountsTypeOK
<1>1. NoErrand \in Errand
  BY ErrandTypes
<1>2. AccountsInit => today \in Nat \ {0} /\ seatLimit \in [Companies -> Limit]
  BY DEF AccountsInit, Limit
<1> QED
  BY <1>1, <1>2, EmptySeq DEF AccountsInit, AccountsTypeOK

\* What the rows of a well-typed state hold.
LEMMA AccountRows ==
  ASSUME AccountsTypeOK
  PROVE  /\ people \in Seq(Person) /\ invites \in Seq(Invitation)
         /\ Len(people) \in Nat /\ Len(invites) \in Nat
         /\ \A u \in DOMAIN people :
              /\ u \in Nat /\ people[u] \in Person
              /\ people[u].email \in Emails /\ people[u].company \in Companies
              /\ people[u].invite \in Nat
         /\ \A i \in DOMAIN invites :
              /\ i \in Nat /\ i # 0 /\ invites[i] \in Invitation
              /\ invites[i].email \in Emails /\ invites[i].company \in Companies
         /\ \A c \in AccountCalls : errand[c] \in Errand
<1>1. /\ \A u \in DOMAIN people : u \in Nat /\ people[u] \in Person
      /\ \A i \in DOMAIN invites : i \in Nat /\ i # 0 /\ invites[i] \in Invitation
  BY DEF AccountsTypeOK
<1>2. \A u \in DOMAIN people :
        /\ people[u].email \in Emails /\ people[u].company \in Companies
        /\ people[u].invite \in Nat
  BY <1>1 DEF Person
<1>3. \A i \in DOMAIN invites : invites[i].email \in Emails /\ invites[i].company \in Companies
  BY <1>1 DEF Invitation
<1> QED
  BY <1>1, <1>2, <1>3 DEF AccountsTypeOK

\* A user is added: what the others and the new row are.
LEMMA UserAdded ==
  ASSUME AccountsTypeOK, NEW e \in Emails, NEW o \in Companies, NEW i \in Nat,
         people' = Append(people, [email |-> e, company |-> o, invite |-> i])
  PROVE  LET n == Len(people) + 1 IN
         /\ people' \in Seq(Person)
         /\ n \notin DOMAIN people /\ DOMAIN people' = DOMAIN people \cup {n}
         /\ \A u \in DOMAIN people : people'[u] = people[u]
         /\ people'[n].email = e /\ people'[n].company = o /\ people'[n].invite = i
<1> DEFINE r == [email |-> e, company |-> o, invite |-> i]
<1>1. r \in Person /\ r.email = e /\ r.company = o /\ r.invite = i
  BY DEF Person
<1>2. people \in Seq(Person) /\ people' = Append(people, r)
  BY DEF AccountsTypeOK
<1> HIDE DEF r
<1> QED
  BY <1>1, <1>2, Appended

\* A registration that passes.
LEMMA FoundStep ==
  ASSUME AccountsTypeOK, NEW c \in AccountCalls, FoundCompany(c)
  PROVE  \/ UNCHANGED <<founded, people>>
         \/ \E o \in Companies \ founded :
              /\ founded' = founded \cup {o}
              /\ ~EmailTaken(errand[c].email)
              /\ errand[c].email \in Emails
              /\ people' = Append(people, [email |-> errand[c].email, company |-> o,
                                           invite |-> 0])
<1>1. errand[c].email \in Emails
  BY AccountRows, ErrandTypes
<1> QED
  BY <1>1 DEF FoundCompany

\* An acceptance that passes.
LEMMA JoinStep ==
  ASSUME AccountsTypeOK, NEW c \in AccountCalls, Join(c), errand[c].invite \in DOMAIN invites
  PROVE  LET i == errand[c].invite IN
         \/ UNCHANGED <<people, invites>>
         \/ /\ ~EmailTaken(invites[i].email)
            /\ people' = Append(people, [email |-> invites[i].email,
                                         company |-> invites[i].company, invite |-> i])
            /\ invites' \in Seq(Invitation)
            /\ DOMAIN invites' = DOMAIN invites
            /\ invites'[i].accepted # 0 /\ invites'[i].accepted = today
            /\ \A j \in DOMAIN invites :
                 /\ invites'[j].company = invites[j].company
                 /\ invites'[j].expires = invites[j].expires
                 /\ invites'[j].email = invites[j].email
                 /\ j # i => invites'[j] = invites[j]
<1> DEFINE i == errand[c].invite
           e == [invites[i] EXCEPT !.accepted = today]
<1>1. /\ invites \in Seq(Invitation) /\ invites[i] \in Invitation
      /\ today \in Nat /\ today # 0
  BY AccountRows DEF AccountsTypeOK
<1>2. /\ e \in Invitation /\ e.accepted # 0 /\ e.accepted = today
      /\ e.company = invites[i].company /\ e.email = invites[i].email
      /\ e.expires = invites[i].expires
  BY <1>1 DEF Invitation
<1>3. CASE EmailTaken(invites[i].email)
  BY <1>3 DEF Join
<1>4. CASE ~EmailTaken(invites[i].email)
  <2>1. /\ people' = Append(people, [email |-> invites[i].email,
                                     company |-> invites[i].company, invite |-> i])
        /\ invites' = [invites EXCEPT ![i] = e]
    BY <1>4 DEF Join
  <2> HIDE DEF e
  <2>2. /\ invites' \in Seq(Invitation) /\ DOMAIN invites' = DOMAIN invites
        /\ \A j \in DOMAIN invites : invites'[j] = IF j = i THEN e ELSE invites[j]
    BY <1>1, <1>2, <2>1, OneReplaced
  <2> QED
    BY <1>2, <1>4, <2>1, <2>2
<1> QED
  BY <1>3, <1>4

\* An invitation is added.
LEMMA InsertStep ==
  ASSUME AccountsTypeOK, NEW c \in AccountCalls, Insert(c)
  PROVE  LET n == Len(invites) + 1 IN
         /\ invites' \in Seq(Invitation)
         /\ n # 0 /\ n \notin DOMAIN invites /\ DOMAIN invites' = DOMAIN invites \cup {n}
         /\ \A i \in DOMAIN invites : invites'[i] = invites[i]
         /\ invites'[n].accepted = 0 /\ invites'[n].company = errand[c].company
<1> DEFINE r == [company |-> errand[c].company, email |-> errand[c].email,
                 expires |-> errand[c].expires, accepted |-> 0, limit |-> errand[c].limit]
<1>1. /\ errand[c].company \in Companies /\ errand[c].email \in Emails
      /\ errand[c].limit \in Limit /\ errand[c].expires \in Nat
      /\ invites \in Seq(Invitation) /\ Len(invites) \in Nat
  BY AccountRows, ErrandTypes
<1>2. r \in Invitation /\ r.accepted = 0 /\ r.company = errand[c].company
  BY <1>1 DEF Invitation
<1>3. invites' = Append(invites, r)
  BY DEF Insert
<1> HIDE DEF r
<1> QED
  BY <1>1, <1>2, <1>3, Appended


-----------------------------------------------------------------------------
\* Every step keeps the types.
LEMMA AccountsTypeNext ==
  ASSUME AccountsTypeOK, AcceptKnown, [AccountsNext]_accountVars
  PROVE  AccountsTypeOK'
<1> USE DEF Limit
<1>t. /\ today \in Nat \ {0} /\ founded \subseteq Companies
      /\ seatLimit \in [Companies -> SeatLimits \cup {Unlimited}]
      /\ people \in Seq(Person) /\ invites \in Seq(Invitation)
      /\ errand \in [AccountCalls -> Errand]
  BY DEF AccountsTypeOK
<1>e. \A c \in AccountCalls, e \in Errand :
        errand' = [errand EXCEPT ![c] = e] => errand' \in [AccountCalls -> Errand]
  BY <1>t
<1>z. \A c \in AccountCalls : EndErrand(c) => errand' \in [AccountCalls -> Errand]
  BY <1>e, ErrandTypes DEF EndErrand
<1>1. ASSUME NEW c \in AccountCalls, Register(c) PROVE AccountsTypeOK'
  <2> PICK x \in Emails :
        errand' = [errand EXCEPT ![c] = [errand[c] EXCEPT !.at = "register", !.email = x]]
    BY <1>1 DEF Register
  <2>1. errand' \in [AccountCalls -> Errand]
    BY <1>e, ErrandTypes, AccountRows
  <2> QED
    BY <1>1, <2>1, <1>t DEF Register, AccountsTypeOK
<1>2. ASSUME NEW c \in AccountCalls, FoundCompany(c) PROVE AccountsTypeOK'
  <2>1. founded' \subseteq Companies /\ people' \in Seq(Person)
    BY ZenonT(40), <1>2, <1>t, FoundStep, UserAdded
  <2> QED
    BY <1>2, <2>1, <1>t, <1>z DEF FoundCompany, AccountsTypeOK
<1>3. ASSUME NEW c \in AccountCalls, Count(c) PROVE AccountsTypeOK'
  <2>1. errand[c].company \in Companies /\ Len(invites) \in Nat /\ Len(people) \in Nat
    BY AccountRows, ErrandTypes
  <2>2. seatLimit[errand[c].company] \in Limit
    BY <2>1, <1>t
  <2>3. \/ EndErrand(c)
        \/ errand' = [errand EXCEPT ![c] =
             [errand[c] EXCEPT !.at = "insert", !.limit = seatLimit[errand[c].company],
                               !.seen = Len(invites), !.people = Len(people)]]
    BY <1>3 DEF Count
  <2>4. errand' \in [AccountCalls -> Errand]
    BY ZenonT(40), <2>1, <2>2, <2>3, <1>e, <1>z, ErrandTypes, AccountRows
  <2> QED
    BY <1>3, <2>4, <1>t DEF Count, AccountsTypeOK
<1>4. ASSUME NEW c \in AccountCalls, Insert(c) PROVE AccountsTypeOK'
  <2>1. invites' \in Seq(Invitation)
    BY <1>4, InsertStep
  <2> QED
    BY <1>4, <2>1, <1>t, <1>z DEF Insert, AccountsTypeOK
<1>5. ASSUME NEW c \in AccountCalls, Retry(c) PROVE AccountsTypeOK'
  <2>1. errand[c].attempt \in Nat
    BY AccountRows, ErrandTypes
  <2>2. errand[c].attempt + 1 \in Nat
    BY <2>1
  <2>3. \/ EndErrand(c)
        \/ errand' = [errand EXCEPT ![c] =
             [errand[c] EXCEPT !.at = "count", !.attempt = errand[c].attempt + 1]]
    BY <1>5 DEF Retry
  <2>4. errand' \in [AccountCalls -> Errand]
    BY <2>2, <2>3, <1>e, <1>z, ErrandTypes, AccountRows
  <2> QED
    BY <1>5, <2>4, <1>t DEF Retry, AccountsTypeOK
<1>6. ASSUME NEW c \in AccountCalls, Join(c) PROVE AccountsTypeOK'
  <2> PICK i : i = errand[c].invite
    OBVIOUS
  <2>1. i \in DOMAIN invites
    BY <1>6 DEF AcceptKnown, Join
  <2>2. i \in Nat /\ invites[i].email \in Emails /\ invites[i].company \in Companies
    BY <2>1, AccountRows
  <2>3. people' \in Seq(Person) /\ invites' \in Seq(Invitation)
    BY <1>6, <2>1, <2>2, <1>t, JoinStep, UserAdded
  <2> QED
    BY <1>6, <2>3, <1>t, <1>z DEF Join, AccountsTypeOK
<1>7. ASSUME NEW c \in AccountCalls, Invite(c) PROVE AccountsTypeOK'
  <2> PICK o \in founded, x \in Emails :
        errand' = [errand EXCEPT ![c] = [NoErrand EXCEPT !.at = "count", !.company = o,
                                           !.email = x, !.expires = today + InviteLife]]
    BY <1>7 DEF Invite
  <2>1. today \in Nat /\ InviteLife \in Nat /\ o \in Companies /\ NoErrand \in Errand
    BY <1>t, ErrandTypes, AccountsAssumption
  <2>2. today + InviteLife \in Nat
    BY <2>1
  <2>3. [NoErrand EXCEPT !.at = "count", !.company = o, !.email = x,
                         !.expires = today + InviteLife] \in Errand
    BY <2>1, <2>2 DEF Errand
  <2>4. errand' \in [AccountCalls -> Errand]
    BY <2>3, <1>e
  <2> QED
    BY <1>7, <2>4, <1>t DEF Invite, AccountsTypeOK
<1>8. ASSUME NEW c \in AccountCalls, Accept(c) PROVE AccountsTypeOK'
  <2> PICK i \in DOMAIN invites :
        errand' = [errand EXCEPT ![c] = [errand[c] EXCEPT !.at = "accept", !.invite = i]]
    BY <1>8 DEF Accept
  <2>1. errand' \in [AccountCalls -> Errand]
    BY <1>e, ErrandTypes, AccountRows
  <2> QED
    BY <1>8, <2>1, <1>t DEF Accept, AccountsTypeOK
<1>9. ASSUME NEW c \in AccountCalls, DropErrand(c) PROVE AccountsTypeOK'
  BY <1>9, <1>t, <1>z DEF DropErrand, AccountsTypeOK
<1>10. ASSUME NEW o \in Companies, ChangePlan(o) PROVE AccountsTypeOK'
  <2>1. seatLimit' \in [Companies -> Limit]
    BY <1>10, <1>t DEF ChangePlan
  <2> QED
    BY <1>10, <2>1, <1>t DEF ChangePlan, AccountsTypeOK
<1>11. CASE NextDay
  BY <1>11, <1>t DEF NextDay, AccountsTypeOK
<1>12. CASE UNCHANGED accountVars
  BY <1>12 DEF accountVars, AccountsTypeOK
<1> QED
  BY <1>1, <1>2, <1>3, <1>4, <1>5, <1>6, <1>7, <1>8, <1>9, <1>10, <1>11, <1>12
     DEF AccountsNext, AccountStep, InvitingSteps


-----------------------------------------------------------------------------
\* The steps that touch neither organizations, users nor invitations.
Apart(c) == Register(c) \/ Count(c) \/ Retry(c) \/ Invite(c) \/ Accept(c) \/ DropErrand(c)

LEMMA AccountSteps ==
  ASSUME [AccountsNext]_accountVars
  PROVE  \/ UNCHANGED <<founded, people, invites, errand>>
         \/ \E c \in AccountCalls : Apart(c) \/ FoundCompany(c) \/ Insert(c) \/ Join(c)
  BY DEF AccountsNext, AccountStep, InvitingSteps, accountVars, NextDay, ChangePlan, Apart

\* What the other calls do stays theirs.
LEMMA ErrandMoves ==
  ASSUME AccountsTypeOK, NEW c \in AccountCalls,
         Apart(c) \/ FoundCompany(c) \/ Insert(c) \/ Join(c)
  PROVE  /\ \A d \in AccountCalls \ {c} : errand'[d] = errand[d]
         /\ Apart(c) => UNCHANGED <<founded, people, invites>>
         /\ errand'[c].at = "accept" => errand'[c].invite \in DOMAIN invites
         /\ errand'[c].at \in {"count", "insert"} =>
              \/ errand'[c].company \in founded
              \/ /\ errand[c].at \in {"count", "insert"}
                 /\ errand'[c].company = errand[c].company
<1>e. errand \in [AccountCalls -> Errand] /\ errand[c] \in Errand
  BY DEF AccountsTypeOK
<1>z. EndErrand(c) =>
        /\ errand'[c].at = "idle"
        /\ \A d \in AccountCalls \ {c} : errand'[d] = errand[d]
  BY <1>e, ErrandTypes DEF EndErrand
<1>a. Apart(c) => UNCHANGED <<founded, people, invites>>
  BY DEF Apart, Register, Count, Retry, Invite, Accept, DropErrand
<1>1. CASE FoundCompany(c) \/ Insert(c) \/ Join(c) \/ DropErrand(c)
  <2>1. EndErrand(c)
    BY <1>1 DEF FoundCompany, Insert, Join, DropErrand
  <2> QED
    BY <2>1, <1>a, <1>z
<1>2. CASE Register(c)
  BY <1>2, <1>a, <1>e DEF Register, Errand
<1>3. CASE Count(c)
  BY <1>3, <1>a, <1>e, <1>z DEF Count, Errand
<1>4. CASE Retry(c)
  BY <1>4, <1>a, <1>e, <1>z DEF Retry, Errand
<1>5. CASE Invite(c)
  <2> PICK o \in founded, x \in Emails :
        errand' = [errand EXCEPT ![c] = [NoErrand EXCEPT !.at = "count", !.company = o,
                                           !.email = x, !.expires = today + InviteLife]]
    BY <1>5 DEF Invite
  <2>1. NoErrand \in Errand
    BY ErrandTypes
  <2>2. /\ errand'[c].at = "count" /\ errand'[c].company = o
        /\ \A d \in AccountCalls \ {c} : errand'[d] = errand[d]
    BY <2>1, <1>e DEF Errand
  <2> QED
    BY <2>2, <1>a
<1>6. CASE Accept(c)
  BY <1>6, <1>a, <1>e DEF Accept, Errand
<1> QED
  BY <1>1, <1>2, <1>3, <1>4, <1>5, <1>6 DEF Apart

\* Nobody belongs, or is invited, to an organization that does not exist.
AtHome ==
  /\ \A u \in DOMAIN people : people[u].company \in founded
  /\ \A i \in DOMAIN invites : invites[i].company \in founded

AccountsInv == AcceptKnown /\ AtHome /\ FoundedByOne /\ OneUserPerInvite

LEMMA AccountsInvInit == AccountsInit => AccountsInv
<1> SUFFICES ASSUME AccountsInit PROVE AccountsInv
  OBVIOUS
<1>1. \A c \in AccountCalls : errand[c].at = "idle"
  BY ErrandTypes DEF AccountsInit
<1>2. DOMAIN people = {} /\ DOMAIN invites = {} /\ founded = {}
  BY DEF AccountsInit
<1> QED
  BY <1>1, <1>2 DEF AccountsInv, AcceptKnown, AtHome, FoundedByOne, OneUserPerInvite

LEMMA AcceptKnownNext ==
  ASSUME AccountsTypeOK, AccountsInv, [AccountsNext]_accountVars
  PROVE  AcceptKnown'
<1>k. AcceptKnown
  BY DEF AccountsInv
<1>1. CASE UNCHANGED <<founded, people, invites, errand>>
  BY <1>1, <1>k DEF AcceptKnown
<1>2. ASSUME NEW c \in AccountCalls, Apart(c) \/ FoundCompany(c) \/ Insert(c) \/ Join(c)
      PROVE  AcceptKnown'
  <2>1. founded \subseteq founded' /\ DOMAIN invites \subseteq DOMAIN invites'
    <3>1. CASE Apart(c)
      BY <3>1, ErrandMoves
    <3>2. CASE FoundCompany(c)
      BY <3>2 DEF FoundCompany
    <3>3. CASE Insert(c)
      BY <3>3, InsertStep DEF Insert
    <3>4. CASE Join(c)
      <4>1. errand[c].invite \in DOMAIN invites
        BY <3>4, <1>k DEF AcceptKnown, Join
      <4> QED
        BY <3>4, <4>1, JoinStep DEF Join
    <3> QED
      BY <1>2, <3>1, <3>2, <3>3, <3>4
  <2> QED
    BY <1>2, <1>k, <2>1, ErrandMoves DEF AcceptKnown
<1> QED
  BY <1>1, <1>2, AccountSteps

\* A user who accepted an invitation changes nothing for the founders.
LEMMA FoundersNext ==
  ASSUME AccountsTypeOK, AccountsInv, [AccountsNext]_accountVars
  PROVE  AtHome' /\ FoundedByOne'
<1>r. /\ \A u \in DOMAIN people : people[u].company \in founded
      /\ \A i \in DOMAIN invites : invites[i].company \in founded
  BY DEF AccountsInv, AtHome
<1>f. \A o \in founded : \E u \in DOMAIN people :
        /\ people[u].company = o /\ people[u].invite = 0
        /\ \A v \in DOMAIN people : people[v].company = o /\ people[v].invite = 0 => v = u
  BY DEF AccountsInv, FoundedByOne, Members
<1>0. ASSUME UNCHANGED <<founded, people, invites>> PROVE AtHome' /\ FoundedByOne'
  BY <1>0, <1>r, <1>f DEF AtHome, FoundedByOne, Members
<1>1. ASSUME NEW c \in AccountCalls, FoundCompany(c) PROVE AtHome' /\ FoundedByOne'
  <2>0. invites' = invites
    BY <1>1 DEF FoundCompany
  <2>1. CASE UNCHANGED <<founded, people>>
    BY <2>0, <2>1, <1>0
  <2>2. CASE ~ UNCHANGED <<founded, people>>
    <3> PICK o \in Companies \ founded :
          /\ founded' = founded \cup {o} /\ errand[c].email \in Emails
          /\ people' = Append(people, [email |-> errand[c].email, company |-> o,
                                       invite |-> 0])
      BY <1>1, <2>2, FoundStep
    <3> PICK n : n = Len(people) + 1
      OBVIOUS
    <3>1. /\ n \notin DOMAIN people /\ DOMAIN people' = DOMAIN people \cup {n}
          /\ \A u \in DOMAIN people : people'[u] = people[u]
          /\ people'[n].company = o /\ people'[n].invite = 0
      BY UserAdded
    <3>2. AtHome'
      BY <3>1, <2>0, <1>r DEF AtHome
    <3>3. ASSUME NEW x \in founded'
          PROVE  \E u \in DOMAIN people' :
                   /\ people'[u].company = x /\ people'[u].invite = 0
                   /\ \A v \in DOMAIN people' :
                        people'[v].company = x /\ people'[v].invite = 0 => v = u
      <4>1. CASE x = o
        BY <4>1, <3>1, <1>r
      <4>2. CASE x # o
        BY <4>2, <3>1, <1>f
      <4> QED
        BY <4>1, <4>2
    <3> QED
      BY <3>2, <3>3 DEF FoundedByOne, Members
  <2> QED
    BY <2>1, <2>2
<1>2. ASSUME NEW c \in AccountCalls, Insert(c) PROVE AtHome' /\ FoundedByOne'
  <2>1. errand[c].company \in founded
    BY <1>2 DEF AccountsInv, AcceptKnown, Insert
  <2> PICK n : n = Len(invites) + 1
    OBVIOUS
  <2>2. /\ DOMAIN invites' = DOMAIN invites \cup {n}
        /\ \A i \in DOMAIN invites : invites'[i] = invites[i]
        /\ invites'[n].company = errand[c].company
        /\ UNCHANGED <<founded, people>>
    BY <1>2, InsertStep DEF Insert
  <2>3. AtHome'
    BY <2>1, <2>2, <1>r DEF AtHome
  <2>4. FoundedByOne'
    BY <2>2, <1>f DEF FoundedByOne, Members
  <2> QED
    BY <2>3, <2>4
<1>3. ASSUME NEW c \in AccountCalls, Join(c) PROVE AtHome' /\ FoundedByOne'
  <2> PICK i, n : i = errand[c].invite /\ n = Len(people) + 1
    OBVIOUS
  <2>0. /\ i \in DOMAIN invites /\ i \in Nat /\ i # 0 /\ founded' = founded
        /\ invites[i].email \in Emails /\ invites[i].company \in Companies
    BY <1>3, AccountRows DEF AccountsInv, AcceptKnown, Join
  <2>1. CASE UNCHANGED <<people, invites>>
    BY <2>0, <2>1, <1>0
  <2>2. CASE ~ UNCHANGED <<people, invites>>
    <3>1. /\ people' = Append(people, [email |-> invites[i].email,
                                       company |-> invites[i].company, invite |-> i])
          /\ DOMAIN invites' = DOMAIN invites
          /\ \A j \in DOMAIN invites : invites'[j].company = invites[j].company
      BY <1>3, <2>0, <2>2, JoinStep
    <3>2. /\ n \notin DOMAIN people /\ DOMAIN people' = DOMAIN people \cup {n}
          /\ \A u \in DOMAIN people : people'[u] = people[u]
          /\ people'[n].company = invites[i].company /\ people'[n].invite = i
      BY <2>0, <3>1, UserAdded
    <3>3. AtHome'
      BY <2>0, <3>1, <3>2, <1>r DEF AtHome
    <3>4. FoundedByOne'
      BY <2>0, <3>2, <1>f DEF FoundedByOne, Members
    <3> QED
      BY <3>3, <3>4
  <2> QED
    BY <2>1, <2>2
<1> QED
  BY <1>0, <1>1, <1>2, <1>3, AccountSteps, ErrandMoves

\* The address of the user decides: an acceptance or a registration that
\* another overtook is undone.
LEMMA InvitesNext ==
  ASSUME AccountsTypeOK, AccountsInv, [AccountsNext]_accountVars
  PROVE  OneUserPerInvite'
<1>r. /\ \A i \in DOMAIN invites :
           invites[i].accepted # 0 <=> \E u \in DOMAIN people : people[u].invite = i
      /\ \A u, v \in DOMAIN people : people[u].email = people[v].email => u = v
      /\ \A u \in DOMAIN people : people[u].invite # 0 =>
           /\ people[u].invite \in DOMAIN invites
           /\ invites[people[u].invite].email = people[u].email
           /\ invites[people[u].invite].company = people[u].company
  BY DEF AccountsInv, OneUserPerInvite
<1>0. ASSUME UNCHANGED <<people, invites>> PROVE OneUserPerInvite'
  BY <1>0, <1>r DEF OneUserPerInvite
<1>1. ASSUME NEW c \in AccountCalls, FoundCompany(c) PROVE OneUserPerInvite'
  <2>0. invites' = invites
    BY <1>1 DEF FoundCompany
  <2>1. CASE UNCHANGED <<founded, people>>
    BY <2>0, <2>1, <1>0
  <2>2. CASE ~ UNCHANGED <<founded, people>>
    <3> PICK o \in Companies \ founded :
          /\ ~EmailTaken(errand[c].email) /\ errand[c].email \in Emails
          /\ people' = Append(people, [email |-> errand[c].email, company |-> o,
                                       invite |-> 0])
      BY <1>1, <2>2, FoundStep
    <3> PICK n : n = Len(people) + 1
      OBVIOUS
    <3>1. /\ n \notin DOMAIN people /\ DOMAIN people' = DOMAIN people \cup {n}
          /\ \A u \in DOMAIN people : people'[u] = people[u]
          /\ people'[n].email = errand[c].email /\ people'[n].invite = 0
      BY UserAdded
    <3>2. \A i \in DOMAIN invites : i # 0
      BY AccountRows
    <3>3. \A u \in DOMAIN people : people[u].email # errand[c].email
      BY DEF EmailTaken
    <3> QED
      BY <2>0, <3>1, <3>2, <3>3, <1>r DEF OneUserPerInvite
  <2> QED
    BY <2>1, <2>2
<1>2. ASSUME NEW c \in AccountCalls, Insert(c) PROVE OneUserPerInvite'
  <2> PICK n : n = Len(invites) + 1
    OBVIOUS
  <2>1. /\ n # 0 /\ n \notin DOMAIN invites /\ DOMAIN invites' = DOMAIN invites \cup {n}
        /\ \A i \in DOMAIN invites : invites'[i] = invites[i]
        /\ invites'[n].accepted = 0 /\ people' = people
    BY <1>2, InsertStep DEF Insert
  <2> QED
    BY <2>1, <1>r DEF OneUserPerInvite
<1>3. ASSUME NEW c \in AccountCalls, Join(c) PROVE OneUserPerInvite'
  <2> PICK i, n : i = errand[c].invite /\ n = Len(people) + 1
    OBVIOUS
  <2>0. /\ i \in DOMAIN invites /\ i \in Nat /\ i # 0
        /\ invites[i].email \in Emails /\ invites[i].company \in Companies
    BY <1>3, AccountRows DEF AccountsInv, AcceptKnown, Join
  <2>1. CASE UNCHANGED <<people, invites>>
    BY <2>1, <1>0
  <2>2. CASE ~ UNCHANGED <<people, invites>>
    <3>1. /\ ~EmailTaken(invites[i].email)
          /\ people' = Append(people, [email |-> invites[i].email,
                                       company |-> invites[i].company, invite |-> i])
          /\ DOMAIN invites' = DOMAIN invites /\ invites'[i].accepted # 0
          /\ \A j \in DOMAIN invites :
               /\ invites'[j].company = invites[j].company
               /\ invites'[j].email = invites[j].email
               /\ j # i => invites'[j] = invites[j]
      BY <1>3, <2>0, <2>2, JoinStep
    <3>2. /\ n \notin DOMAIN people /\ DOMAIN people' = DOMAIN people \cup {n}
          /\ \A u \in DOMAIN people : people'[u] = people[u]
          /\ people'[n].email = invites[i].email
          /\ people'[n].company = invites[i].company /\ people'[n].invite = i
      BY <2>0, <3>1, UserAdded
    <3>3. \A u \in DOMAIN people : people[u].email # invites[i].email
      BY <3>1 DEF EmailTaken
    <3>4. \A j \in DOMAIN invites' :
            invites'[j].accepted # 0 <=> \E u \in DOMAIN people' : people'[u].invite = j
      BY <2>0, <3>1, <3>2, <1>r
    <3>5. \A u, v \in DOMAIN people' : people'[u].email = people'[v].email => u = v
      BY <3>2, <3>3, <1>r
    <3>6. \A u \in DOMAIN people' : people'[u].invite # 0 =>
            /\ people'[u].invite \in DOMAIN invites'
            /\ invites'[people'[u].invite].email = people'[u].email
            /\ invites'[people'[u].invite].company = people'[u].company
      BY <2>0, <3>1, <3>2, <1>r
    <3> QED
      BY <3>4, <3>5, <3>6 DEF OneUserPerInvite
  <2> QED
    BY <2>1, <2>2
<1> QED
  BY <1>0, <1>1, <1>2, <1>3, AccountSteps, ErrandMoves

\* The types and the invariant together are inductive.
LEMMA AccountsInductive ==
  /\ AccountsInit => AccountsTypeOK /\ AccountsInv
  /\ AccountsTypeOK /\ AccountsInv /\ [AccountsNext]_accountVars
       => (AccountsTypeOK /\ AccountsInv)'
<1>1. AccountsInit => AccountsTypeOK /\ AccountsInv
  BY AccountsTypeInit, AccountsInvInit
<1>2. ASSUME AccountsTypeOK, AccountsInv, [AccountsNext]_accountVars
      PROVE  (AccountsTypeOK /\ AccountsInv)'
  <2>1. AccountsTypeOK'
    BY <1>2, AccountsTypeNext DEF AccountsInv
  <2>2. AcceptKnown' /\ AtHome' /\ FoundedByOne' /\ OneUserPerInvite'
    BY <1>2, AcceptKnownNext, FoundersNext, InvitesNext
  <2> QED
    BY <2>1, <2>2 DEF AccountsInv
<1> QED
  BY <1>1, <1>2

(* Every reachable state of the accounts is well typed, whatever calls     *)
(* interleave, fail or are retried (invites.service.ts, auth.service.ts).  *)
THEOREM AccountsTypeCorrect == AccountsSpec => []AccountsTypeOK
  BY AccountsInductive, PTL DEF AccountsSpec

(* A registration that fails or loses a race leaves nothing behind: every  *)
(* organization has its founder, and one only (auth.service.ts:96-138).    *)
THEOREM OneFounder == AccountsSpec => []FoundedByOne
<1>1. AccountsInv => FoundedByOne
  BY DEF AccountsInv
<1> QED
  BY <1>1, AccountsInductive, PTL DEF AccountsSpec

(* However acceptances race with each other, with other invitations of the *)
(* address and with registrations, an invitation is accepted exactly when  *)
(* one user came of it (invites.service.ts:132-160).                       *)
THEOREM InvitationsAreUsedOnce == AccountsSpec => []OneUserPerInvite
<1>1. AccountsInv => OneUserPerInvite
  BY DEF AccountsInv
<1> QED
  BY <1>1, AccountsInductive, PTL DEF AccountsSpec

-----------------------------------------------------------------------------
(* The seats a transaction counted.  What was seen then is fewer than the  *)
(* limit; a seat seen is still there, or was given up, or the invitation   *)
(* that took it has become a member in its place.                          *)
CountedMembers(c) == {u \in Members(errand[c].company) : u <= errand[c].people}

\* The invitations counted that still hold a seat, as such or by the user
\* who came of them while they counted.
Held(c) ==
  {i \in DOMAIN invites :
    /\ i <= errand[c].seen /\ invites[i].company = errand[c].company
    /\ \/ i \in PendingInvites(errand[c].company)
       \/ \E u \in DOMAIN people :
            /\ u > errand[c].people /\ people[u].invite = i
            /\ invites[i].accepted < invites[i].expires}

SeatsCounted ==
  \A c \in AccountCalls :
    errand[c].at = "insert" /\ errand[c].limit # Unlimited =>
      /\ errand[c].seen <= Len(invites) /\ errand[c].people <= Len(people)
      /\ \A u \in Members(errand[c].company) :
           u > errand[c].people => people[u].invite # 0
      /\ Cardinality(CountedMembers(c)) + Cardinality(Held(c)) < errand[c].limit

\* The tables are finite, and so are the seats.
LEMMA SeatsFinite ==
  ASSUME AccountsTypeOK
  PROVE  /\ IsFiniteSet(DOMAIN people) /\ IsFiniteSet(DOMAIN invites)
         /\ DOMAIN people = 1..Len(people) /\ DOMAIN invites = 1..Len(invites)
         /\ Len(people) \in Nat /\ Len(invites) \in Nat
         /\ \A S : S \subseteq DOMAIN people \/ S \subseteq DOMAIN invites =>
                   IsFiniteSet(S) /\ Cardinality(S) \in Nat
<1>1. /\ DOMAIN people = 1..Len(people) /\ DOMAIN invites = 1..Len(invites)
      /\ Len(people) \in Nat /\ Len(invites) \in Nat
  BY AccountRows
<1>2. IsFiniteSet(DOMAIN people) /\ IsFiniteSet(DOMAIN invites)
  BY <1>1, FS_Interval
<1>3. ASSUME NEW S, S \subseteq DOMAIN people \/ S \subseteq DOMAIN invites
      PROVE  IsFiniteSet(S) /\ Cardinality(S) \in Nat
  BY <1>2, <1>3, FS_Subset, FS_CardinalityType
<1> QED
  BY <1>1, <1>2, <1>3

\* Two sets have no more elements together than one after the other.
LEMMA BothAtMost ==
  ASSUME NEW S, NEW T, IsFiniteSet(S), IsFiniteSet(T)
  PROVE  /\ IsFiniteSet(S \cup T)
         /\ Cardinality(S \cup T) \in Nat /\ Cardinality(S) \in Nat /\ Cardinality(T) \in Nat
         /\ Cardinality(S \cup T) <= Cardinality(S) + Cardinality(T)
<1>1. IsFiniteSet(S \cap T)
  BY FS_Subset
<1>2. /\ IsFiniteSet(S \cup T)
      /\ Cardinality(S \cup T) = Cardinality(S) + Cardinality(T) - Cardinality(S \cap T)
  BY FS_Union
<1>3. /\ Cardinality(S \cup T) \in Nat /\ Cardinality(S) \in Nat /\ Cardinality(T) \in Nat
      /\ Cardinality(S \cap T) \in Nat
  BY <1>1, <1>2, FS_CardinalityType
<1> QED
  BY <1>2, <1>3

\* What any step leaves of the users and of the invitations.
LEMMA AccountsGrow ==
  ASSUME AccountsTypeOK, AccountsInv, [AccountsNext]_accountVars
  PROVE  /\ today <= today'
         /\ Len(people) <= Len(people') /\ Len(invites) <= Len(invites')
         /\ \A u \in DOMAIN people : u \in DOMAIN people' /\ people'[u] = people[u]
         /\ \A u \in DOMAIN people' \ DOMAIN people :
              \/ people'[u].invite = 0 /\ people'[u].company \notin founded
              \/ LET i == people'[u].invite IN
                 /\ i \in DOMAIN invites /\ i # 0
                 /\ invites[i].accepted = 0 /\ invites'[i].accepted = today
         /\ \A i \in DOMAIN invites :
              /\ i \in DOMAIN invites'
              /\ invites'[i].company = invites[i].company
              /\ invites'[i].expires = invites[i].expires
              /\ \/ invites'[i].accepted = invites[i].accepted
                 \/ invites[i].accepted = 0 /\ invites'[i].accepted # 0
<1>t. /\ today \in Nat /\ AccountsTypeOK' /\ today' \in Nat
      /\ DOMAIN people = 1..Len(people) /\ DOMAIN invites = 1..Len(invites)
      /\ Len(people) \in Nat /\ Len(invites) \in Nat
      /\ people \in Seq(Person) /\ invites \in Seq(Invitation)
  BY AccountRows, AccountsInductive DEF AccountsTypeOK
<1>d. today <= today'
  <2>1. today' = today \/ NextDay
    BY DEF AccountsNext, accountVars, AccountStep, InvitingSteps, Register, FoundCompany,
           ChangePlan, Invite, Count, Insert, Retry, Accept, Join, DropErrand
  <2> QED
    BY <1>t, <2>1 DEF NextDay
<1>1. CASE UNCHANGED <<founded, people, invites>>
  BY <1>t, <1>d, <1>1
<1>2. ASSUME NEW c \in AccountCalls, FoundCompany(c), people' # people
      PROVE  /\ Len(people') = Len(people) + 1 /\ invites' = invites
             /\ \A u \in DOMAIN people : u \in DOMAIN people' /\ people'[u] = people[u]
             /\ \A u \in DOMAIN people' \ DOMAIN people :
                  people'[u].invite = 0 /\ people'[u].company \notin founded
  <2>1. PICK o \in Companies \ founded :
          /\ errand[c].email \in Emails
          /\ people' = Append(people, [email |-> errand[c].email, company |-> o, invite |-> 0])
    BY <1>2, FoundStep
  <2>2. /\ DOMAIN people' = DOMAIN people \cup {Len(people) + 1}
        /\ \A u \in DOMAIN people : people'[u] = people[u]
        /\ people'[Len(people) + 1].company = o /\ people'[Len(people) + 1].invite = 0
    BY <2>1, UserAdded
  <2>3. Len(people') = Len(people) + 1 /\ invites' = invites
    <3>1. people' \in Seq(Person) /\ DOMAIN people' = 1..Len(people') /\ Len(people') \in Nat
      BY <1>t DEF AccountsTypeOK
    <3>2. invites' = invites
      BY <1>2 DEF FoundCompany
    <3> QED
      BY <1>t, <2>2, <3>1, <3>2
  <2> QED
    BY <2>2, <2>3
<1>3. ASSUME NEW c \in AccountCalls, Insert(c)
      PROVE  /\ people' = people /\ Len(invites') = Len(invites) + 1
             /\ \A i \in DOMAIN invites : i \in DOMAIN invites' /\ invites'[i] = invites[i]
  BY <1>3, <1>t, InsertStep DEF Insert
<1>4. ASSUME NEW c \in AccountCalls, Join(c), people' # people
      PROVE  /\ Len(people') = Len(people) + 1 /\ Len(invites') = Len(invites)
             /\ \A u \in DOMAIN people : u \in DOMAIN people' /\ people'[u] = people[u]
             /\ \A u \in DOMAIN people' \ DOMAIN people :
                  LET i == people'[u].invite IN
                  /\ i \in DOMAIN invites /\ i # 0
                  /\ invites[i].accepted = 0 /\ invites'[i].accepted = today
             /\ \A j \in DOMAIN invites :
                  /\ j \in DOMAIN invites'
                  /\ invites'[j].company = invites[j].company
                  /\ invites'[j].expires = invites[j].expires
                  /\ \/ invites'[j].accepted = invites[j].accepted
                     \/ invites[j].accepted = 0 /\ invites'[j].accepted # 0
  <2> DEFINE i == errand[c].invite
  <2>0. i \in DOMAIN invites
    BY <1>4 DEF AccountsInv, AcceptKnown, Join
  <2>1. /\ ~EmailTaken(invites[i].email)
        /\ people' = Append(people, [email |-> invites[i].email,
                                     company |-> invites[i].company, invite |-> i])
        /\ invites' \in Seq(Invitation) /\ DOMAIN invites' = DOMAIN invites
        /\ invites'[i].accepted # 0 /\ invites'[i].accepted = today
        /\ \A j \in DOMAIN invites :
             /\ invites'[j].company = invites[j].company
             /\ invites'[j].email = invites[j].email
             /\ invites'[j].expires = invites[j].expires
             /\ j # i => invites'[j] = invites[j]
    BY <1>4, <2>0, JoinStep
  <2>2. invites[i].accepted = 0
    BY <2>0, <2>1 DEF AccountsInv, OneUserPerInvite, EmailTaken
  <2>3. invites[i].email \in Emails /\ invites[i].company \in Companies /\ i \in Nat /\ i # 0
    <3>1. invites[i] \in Invitation /\ i \in 1..Len(invites)
      BY <2>0, <1>t
    <3> QED
      BY <3>1, <1>t DEF Invitation
  <2> HIDE DEF i
  <2>4. /\ DOMAIN people' = DOMAIN people \cup {Len(people) + 1}
        /\ \A u \in DOMAIN people : people'[u] = people[u]
        /\ people'[Len(people) + 1].invite = i
    BY <2>1, <2>3, UserAdded
  <2>5. Len(people') = Len(people) + 1
    BY <1>t, <2>1
  <2>6. Len(invites') = Len(invites)
    BY <1>t, <2>1
  <2>7. \A u \in DOMAIN people' \ DOMAIN people : people'[u].invite = i
    BY <2>4
  <2> QED
    BY <2>0, <2>1, <2>2, <2>3, <2>4, <2>5, <2>6, <2>7
<1>5. CASE \E c \in AccountCalls : Insert(c)
  BY <1>3, <1>5, <1>d, <1>t
<1>6. CASE \E c \in AccountCalls : FoundCompany(c) /\ people' # people
  BY <1>2, <1>6, <1>d, <1>t
<1>7. CASE \E c \in AccountCalls : Join(c) /\ people' # people
  BY <1>4, <1>7, <1>d, <1>t
<1>8. CASE people' = people /\ invites' = invites
  BY <1>8, <1>d, <1>t
<1>9. \A c \in AccountCalls : FoundCompany(c) \/ Join(c) =>
        people' # people \/ (people' = people /\ invites' = invites)
  BY <1>t DEF FoundCompany, Join
<1> QED
  BY <1>1, <1>5, <1>6, <1>7, <1>8, <1>9, AccountSteps, ErrandMoves

\* A transaction begins by counting.
LEMMA CountStep ==
  ASSUME AccountsTypeOK, AccountsInv, [AccountsNext]_accountVars, NEW c \in AccountCalls,
         errand'[c].at = "insert", errand'[c] # errand[c]
  PROVE  /\ UNCHANGED <<today, people, invites>>
         /\ errand'[c].seen = Len(invites) /\ errand'[c].people = Len(people)
         /\ errand'[c].limit # Unlimited =>
              /\ errand'[c].limit \in Nat
              /\ ~(Seats(errand'[c].company) >= errand'[c].limit)
<1>e. errand \in [AccountCalls -> Errand] /\ errand[c] \in Errand
  BY DEF AccountsTypeOK
<1>l. seatLimit \in [Companies -> Limit] /\ errand[c].company \in Companies
  BY <1>e, ErrandTypes DEF AccountsTypeOK
<1>n. NoErrand.at = "idle" /\ NoErrand \in Errand
  BY ErrandTypes
<1>1. Count(c)
  <2>1. PICK d \in AccountCalls : Apart(d) \/ FoundCompany(d) \/ Insert(d) \/ Join(d)
    BY AccountSteps
  <2>2. d = c
    BY <2>1, ErrandMoves
  <2>3. EndErrand(c) => errand'[c].at # "insert"
    BY <1>e, <1>n DEF EndErrand
  <2>4. ~FoundCompany(c) /\ ~Insert(c) /\ ~Join(c) /\ ~DropErrand(c)
    BY <2>3 DEF FoundCompany, Insert, Join, DropErrand
  <2>5. ~Register(c) /\ ~Accept(c)
    BY <1>e DEF Register, Accept, Errand
  <2>6. ~Invite(c)
    BY <1>e, <1>n DEF Invite, Errand
  <2>7. ~Retry(c)
    BY <1>e, <2>3 DEF Retry, Errand
  <2> QED
    BY <2>1, <2>2, <2>4, <2>5, <2>6, <2>7 DEF Apart
<1> DEFINE o == errand[c].company
<1>2. /\ UNCHANGED <<today, people, invites>>
      /\ ~(seatLimit[o] # Unlimited /\ Seats(o) >= seatLimit[o])
      /\ errand' = [errand EXCEPT ![c] =
                      [errand[c] EXCEPT !.at = "insert", !.limit = seatLimit[o],
                                        !.seen = Len(invites), !.people = Len(people)]]
  <2>1. EndErrand(c) => errand'[c].at # "insert"
    BY <1>e, <1>n DEF EndErrand
  <2> QED
    BY <1>1, <1>e, <2>1 DEF Count
<1> DEFINE f == [errand[c] EXCEPT !.at = "insert", !.limit = seatLimit[o],
                                  !.seen = Len(invites), !.people = Len(people)]
<1>3. f.limit = seatLimit[o] /\ f.seen = Len(invites) /\ f.people = Len(people) /\ f.company = o
  BY <1>e DEF Errand
<1> HIDE DEF f
<1>4. errand'[c] = f
  BY <1>2, <1>e DEF f
<1>5. seatLimit[o] # Unlimited => seatLimit[o] \in Nat
  BY <1>l, AccountsAssumption DEF Limit
<1> QED
  BY <1>2, <1>3, <1>4, <1>5

\* Whatever the others do, what a transaction counted still bounds the seats.
LEMMA SeatsNext ==
  ASSUME AccountsTypeOK, AccountsInv, SeatsCounted, [AccountsNext]_accountVars
  PROVE  SeatsCounted'
<1> SUFFICES ASSUME NEW c \in AccountCalls,
                    errand'[c].at = "insert", errand'[c].limit # Unlimited
             PROVE  /\ errand'[c].seen <= Len(invites') /\ errand'[c].people <= Len(people')
                    /\ \A u \in Members(errand[c].company)' :
                         u > errand'[c].people => people'[u].invite # 0
                    /\ Cardinality(CountedMembers(c)') + Cardinality(Held(c)') < errand'[c].limit
  BY DEF SeatsCounted
<1>f. /\ DOMAIN people = 1..Len(people) /\ DOMAIN invites = 1..Len(invites)
      /\ Len(people) \in Nat /\ Len(invites) \in Nat
      /\ \A S : S \subseteq DOMAIN people \/ S \subseteq DOMAIN invites =>
                IsFiniteSet(S) /\ Cardinality(S) \in Nat
  BY SeatsFinite
<1>g. AccountsTypeOK' /\ AccountsInv'
  BY AccountsInductive
<1>h. /\ DOMAIN people' = 1..Len(people') /\ DOMAIN invites' = 1..Len(invites')
      /\ Len(people') \in Nat /\ Len(invites') \in Nat
      /\ errand \in [AccountCalls -> Errand] /\ today \in Nat /\ today' \in Nat
      /\ \A i \in DOMAIN invites : invites[i] \in Invitation
      /\ \A i \in DOMAIN invites' : invites'[i] \in Invitation
  BY <1>g, AccountRows DEF AccountsTypeOK
<1>1. CASE errand'[c] # errand[c]
  <2>1. /\ UNCHANGED <<today, people, invites>>
        /\ errand'[c].seen = Len(invites) /\ errand'[c].people = Len(people)
        /\ errand'[c].limit \in Nat
        /\ ~(Seats(errand'[c].company) >= errand'[c].limit)
    BY <1>1, CountStep
  <2> PICK o : o = errand'[c].company
    OBVIOUS
  <2>2. \A u \in DOMAIN people : ~(u > Len(people)) /\ u <= Len(people)
    BY <1>f
  <2>3. \A i \in DOMAIN invites : i <= Len(invites)
    BY <1>f
  <2>4. /\ CountedMembers(c)' = Members(o) /\ Members(o) \subseteq DOMAIN people
        /\ Members(errand[c].company)' = Members(o)
    BY <2>1, <2>2 DEF CountedMembers, Members
  <2>5. Held(c)' = PendingInvites(o) /\ PendingInvites(o) \subseteq DOMAIN invites
    BY <2>1, <2>2, <2>3 DEF Held, PendingInvites
  <2>6. Cardinality(Members(o)) \in Nat /\ Cardinality(PendingInvites(o)) \in Nat
    BY <1>f, <2>4, <2>5
  <2>7. ~(Cardinality(Members(o)) + Cardinality(PendingInvites(o)) >= errand'[c].limit)
    BY <2>1 DEF Seats
  <2>8. Cardinality(CountedMembers(c)') + Cardinality(Held(c)') < errand'[c].limit
    BY <2>1, <2>4, <2>5, <2>6, <2>7
  <2>9. \A u \in Members(errand[c].company)' : ~(u > errand'[c].people)
    BY <2>1, <2>2, <2>4
  <2> QED
    BY <2>1, <2>8, <2>9, <1>f
<1>2. CASE errand'[c] = errand[c]
  <2> PICK o : o = errand[c].company
    OBVIOUS
  <2>1. /\ errand[c].seen <= Len(invites) /\ errand[c].people <= Len(people)
        /\ \A u \in Members(o) : u > errand[c].people => people[u].invite # 0
        /\ Cardinality(CountedMembers(c)) + Cardinality(Held(c)) < errand[c].limit
    BY <1>2 DEF SeatsCounted
  <2>2. /\ errand[c].seen \in Nat /\ errand[c].people \in Nat /\ errand[c].limit \in Nat
        /\ o \in founded
    <3>1. errand[c] \in Errand
      BY <1>h
    <3>2. errand[c].limit \in SeatLimits
      BY <1>2, <3>1 DEF Errand, Limit
    <3> QED
      BY <1>2, <3>1, <3>2, AccountsAssumption DEF Errand, AccountsInv, AcceptKnown
  <2>3. /\ today <= today'
        /\ Len(people) <= Len(people') /\ Len(invites) <= Len(invites')
        /\ \A u \in DOMAIN people : u \in DOMAIN people' /\ people'[u] = people[u]
        /\ \A u \in DOMAIN people' \ DOMAIN people :
             \/ people'[u].invite = 0 /\ people'[u].company \notin founded
             \/ LET i == people'[u].invite IN
                /\ i \in DOMAIN invites /\ i # 0
                /\ invites[i].accepted = 0 /\ invites'[i].accepted = today
        /\ \A i \in DOMAIN invites :
             /\ i \in DOMAIN invites'
             /\ invites'[i].company = invites[i].company
             /\ invites'[i].expires = invites[i].expires
             /\ \/ invites'[i].accepted = invites[i].accepted
                \/ invites[i].accepted = 0 /\ invites'[i].accepted # 0
    BY AccountsGrow
  <2>4. CountedMembers(c)' \subseteq CountedMembers(c)
    <3> SUFFICES ASSUME NEW u \in DOMAIN people', people'[u].company = o, u <= errand[c].people
                 PROVE  u \in CountedMembers(c)
      BY <1>2 DEF CountedMembers, Members
    <3>1. u \in DOMAIN people
      BY <1>f, <1>h, <2>1, <2>2
    <3> QED
      BY <2>3, <3>1 DEF CountedMembers, Members
  <2>5. Held(c)' \subseteq Held(c)
    <3> SUFFICES ASSUME NEW i \in DOMAIN invites', i <= errand[c].seen, invites'[i].company = o,
                        \/ i \in PendingInvites(o)'
                        \/ \E u \in DOMAIN people' :
                             /\ u > errand[c].people /\ people'[u].invite = i
                             /\ invites'[i].accepted < invites'[i].expires
                 PROVE  i \in Held(c)
      BY <1>2 DEF Held
    <3>1. i \in DOMAIN invites
      BY <1>f, <1>h, <2>1, <2>2
    <3>2. /\ invites[i].company = o /\ invites'[i].expires = invites[i].expires
          /\ \/ invites'[i].accepted = invites[i].accepted
             \/ invites[i].accepted = 0 /\ invites'[i].accepted # 0
          /\ invites[i].expires \in Nat
      BY <1>h, <2>3, <3>1 DEF Invitation
    <3>3. CASE i \in PendingInvites(o)'
      <4>1. invites'[i].accepted = 0 /\ invites[i].expires > today'
        BY <3>2, <3>3 DEF PendingInvites
      <4>2. invites[i].accepted = 0 /\ invites[i].expires > today
        BY <1>h, <2>3, <3>2, <4>1
      <4> QED
        BY <3>1, <3>2, <4>2 DEF Held, PendingInvites
    <3>4. ASSUME NEW u \in DOMAIN people', u > errand[c].people, people'[u].invite = i,
                 invites'[i].accepted < invites'[i].expires
          PROVE  i \in Held(c)
      <4>0. i # 0
        BY <1>f, <3>1
      <4>1. CASE u \in DOMAIN people
        <5>1. people[u].invite = i
          BY <2>3, <3>4, <4>1
        <5>2. invites[i].accepted # 0
          BY <3>1, <4>1, <5>1 DEF AccountsInv, OneUserPerInvite
        <5>3. invites[i].accepted < invites[i].expires
          BY <3>2, <3>4, <5>2
        <5> QED
          BY <3>1, <3>2, <3>4, <4>1, <5>1, <5>3 DEF Held
      <4>2. CASE u \notin DOMAIN people
        <5>1. invites[i].accepted = 0 /\ invites'[i].accepted = today
          BY <2>3, <3>4, <4>0, <4>2
        <5>2. invites[i].expires > today
          BY <1>h, <3>2, <3>4, <5>1
        <5> QED
          BY <3>1, <3>2, <5>1, <5>2 DEF Held, PendingInvites
      <4> QED
        BY <4>1, <4>2
    <3> QED
      BY <3>3, <3>4
  <2>6. Cardinality(CountedMembers(c)') + Cardinality(Held(c)') < errand'[c].limit
    <3>1. CountedMembers(c) \subseteq DOMAIN people /\ Held(c) \subseteq DOMAIN invites
      BY DEF CountedMembers, Members, Held
    <3>2. /\ IsFiniteSet(CountedMembers(c)) /\ IsFiniteSet(Held(c))
          /\ Cardinality(CountedMembers(c)) \in Nat /\ Cardinality(Held(c)) \in Nat
      BY <1>f, <3>1
    <3>3. /\ IsFiniteSet(CountedMembers(c)')
          /\ Cardinality(CountedMembers(c)') <= Cardinality(CountedMembers(c))
      BY <2>4, <3>2, FS_Subset
    <3>4. /\ IsFiniteSet(Held(c)')
          /\ Cardinality(Held(c)') <= Cardinality(Held(c))
      BY <2>5, <3>2, FS_Subset
    <3>5. Cardinality(CountedMembers(c)') \in Nat /\ Cardinality(Held(c)') \in Nat
      BY <3>3, <3>4, FS_CardinalityType
    <3> QED
      BY <1>2, <2>1, <2>2, <3>2, <3>3, <3>4, <3>5
  <2>7. ASSUME NEW u \in Members(o)', u > errand[c].people PROVE people'[u].invite # 0
    <3>1. u \in DOMAIN people' /\ people'[u].company = o
      BY DEF Members
    <3>2. CASE u \in DOMAIN people
      <4>1. u \in Members(o) /\ people'[u] = people[u]
        BY <2>3, <3>1, <3>2 DEF Members
      <4> QED
        BY <2>1, <2>7, <4>1
    <3>3. CASE u \notin DOMAIN people
      BY <2>2, <2>3, <3>1, <3>3
    <3> QED
      BY <3>2, <3>3
  <2>8. errand'[c].seen <= Len(invites') /\ errand'[c].people <= Len(people')
    BY <1>2, <1>f, <1>h, <2>1, <2>2, <2>3
  <2>9. Members(errand[c].company)' = Members(o)'
    BY <1>2 DEF Members
  <2> QED
    BY <1>2, <2>6, <2>7, <2>8, <2>9
<1> QED
  BY <1>1, <1>2

(* An insertion that does not conflict: each seat taken is one counted, or *)
(* one the count could not see.  A member who came since holds the seat of *)
(* the invitation that was accepted.                                       *)
LEMMA SeatsTaken ==
  ASSUME AccountsTypeOK, AccountsInv, SeatsCounted, NEW c \in AccountCalls,
         errand[c].at = "insert", errand[c].limit # Unlimited, ~Conflicts(c)
  PROVE  /\ Seats(errand[c].company) \in Nat /\ Unseen(c) \in Nat /\ errand[c].limit \in Nat
         /\ Seats(errand[c].company) < errand[c].limit + Unseen(c)
<1> PICK o : o = errand[c].company
  OBVIOUS
<1> DEFINE K == CountedMembers(c)
           H == Held(c)
           M == Members(o)
           P == PendingInvites(o)
           U == {i \in P : i > errand[c].seen /\ invites[i].limit = Unlimited}
           Late(u) == LET i == invites[people[u].invite] IN
                      \/ i.accepted >= i.expires
                      \/ people[u].invite > errand[c].seen /\ i.limit = Unlimited
           L == {u \in M : u > errand[c].people /\ people[u].invite # 0 /\ Late(u)}
           J == {u \in M : u > errand[c].people /\ ~Late(u)}
           B == {i \in P : i <= errand[c].seen}
<1>f. /\ DOMAIN people = 1..Len(people) /\ DOMAIN invites = 1..Len(invites)
      /\ Len(people) \in Nat /\ Len(invites) \in Nat
      /\ \A S : S \subseteq DOMAIN people \/ S \subseteq DOMAIN invites =>
                IsFiniteSet(S) /\ Cardinality(S) \in Nat
  BY SeatsFinite
<1>h. /\ errand[c] \in Errand /\ errand[c].seen \in Nat /\ errand[c].people \in Nat
      /\ errand[c].limit \in Nat
  <2>1. errand[c] \in Errand
    BY DEF AccountsTypeOK
  <2>2. errand[c].limit \in SeatLimits
    BY <2>1 DEF Errand, Limit
  <2> QED
    BY <2>1, <2>2, AccountsAssumption DEF Errand
<1>r. \A i \in DOMAIN invites : invites[i].accepted \in Nat /\ invites[i].expires \in Nat
  <2>1. \A i \in DOMAIN invites : invites[i] \in Invitation
    BY AccountRows
  <2> QED
    BY <2>1 DEF Invitation
<1>o. /\ \A i \in DOMAIN invites :
           invites[i].accepted # 0 <=> \E u \in DOMAIN people : people[u].invite = i
      /\ \A u, v \in DOMAIN people : people[u].email = people[v].email => u = v
      /\ \A u \in DOMAIN people : people[u].invite # 0 =>
           /\ people[u].invite \in DOMAIN invites
           /\ invites[people[u].invite].email = people[u].email
           /\ invites[people[u].invite].company = people[u].company
  BY DEF AccountsInv, OneUserPerInvite
<1>c. \A i \in DOMAIN invites :
        i > errand[c].seen /\ invites[i].company = o => invites[i].limit = Unlimited
  BY DEF Conflicts
<1>s. /\ \A u \in M : u > errand[c].people => people[u].invite # 0
      /\ Cardinality(K) + Cardinality(H) < errand[c].limit
  BY DEF SeatsCounted
<1>d. /\ M \subseteq DOMAIN people /\ L \subseteq DOMAIN people /\ J \subseteq DOMAIN people
      /\ K \subseteq DOMAIN people
      /\ P \subseteq DOMAIN invites /\ U \subseteq DOMAIN invites /\ B \subseteq DOMAIN invites
      /\ H \subseteq DOMAIN invites /\ H \ P \subseteq DOMAIN invites
      /\ H \cap P \subseteq DOMAIN invites
  BY DEF Members, CountedMembers, PendingInvites, Held
<1>n. /\ IsFiniteSet(M) /\ IsFiniteSet(L) /\ IsFiniteSet(J) /\ IsFiniteSet(K)
      /\ IsFiniteSet(P) /\ IsFiniteSet(U) /\ IsFiniteSet(B) /\ IsFiniteSet(H)
      /\ IsFiniteSet(H \ P) /\ IsFiniteSet(H \cap P)
      /\ Cardinality(M) \in Nat /\ Cardinality(L) \in Nat /\ Cardinality(J) \in Nat
      /\ Cardinality(K) \in Nat
      /\ Cardinality(P) \in Nat /\ Cardinality(U) \in Nat /\ Cardinality(B) \in Nat
      /\ Cardinality(H) \in Nat
      /\ Cardinality(H \ P) \in Nat /\ Cardinality(H \cap P) \in Nat
  <2> HIDE DEF M, L, J, K, P, U, B, H
  <2> QED
    BY <1>f, <1>d
<1>1. Cardinality(M) <= Cardinality(K) + Cardinality(J) + Cardinality(L)
  <2>1. M \subseteq (K \cup J) \cup L
    <3> SUFFICES ASSUME NEW u \in M PROVE u \in K \/ u \in J \/ u \in L
      OBVIOUS
    <3>1. u \in Nat
      BY <1>f, <1>d
    <3>2. u <= errand[c].people => u \in K
      BY DEF CountedMembers
    <3>3. u > errand[c].people => u \in J \/ u \in L
      BY <1>s
    <3> QED
      BY <1>h, <3>1, <3>2, <3>3
  <2> HIDE DEF M, L, J, K
  <2>2. /\ IsFiniteSet(K \cup J) /\ Cardinality(K \cup J) \in Nat
        /\ Cardinality(K \cup J) <= Cardinality(K) + Cardinality(J)
    BY <1>n, BothAtMost
  <2>3. /\ IsFiniteSet((K \cup J) \cup L) /\ Cardinality((K \cup J) \cup L) \in Nat
        /\ Cardinality((K \cup J) \cup L) <= Cardinality(K \cup J) + Cardinality(L)
    BY <1>n, <2>2, BothAtMost
  <2>4. Cardinality(M) <= Cardinality((K \cup J) \cup L)
    BY <2>1, <2>3, FS_Subset
  <2> QED
    BY <1>n, <2>2, <2>3, <2>4
<1>2. Cardinality(P) <= Cardinality(B) + Cardinality(U)
  <2>1. P \subseteq B \cup U
    <3> SUFFICES ASSUME NEW i \in P PROVE i \in B \/ i \in U
      OBVIOUS
    <3>1. i \in DOMAIN invites /\ invites[i].company = o /\ i \in Nat
      BY <1>f DEF PendingInvites
    <3> QED
      BY <1>h, <1>c, <3>1
  <2> HIDE DEF P, B, U
  <2>2. /\ IsFiniteSet(B \cup U) /\ Cardinality(B \cup U) \in Nat
        /\ Cardinality(B \cup U) <= Cardinality(B) + Cardinality(U)
    BY <1>n, BothAtMost
  <2>3. Cardinality(P) <= Cardinality(B \cup U)
    BY <2>1, <2>2, FS_Subset
  <2>4. Cardinality(P) \in Nat /\ Cardinality(B) \in Nat /\ Cardinality(U) \in Nat
    BY <1>n
  <2>5. /\ Cardinality(B \cup U) \in Nat
        /\ Cardinality(B \cup U) <= Cardinality(B) + Cardinality(U)
    BY <2>2
  <2> QED
    BY <2>3, <2>4, <2>5
<1>3. Cardinality(B) <= Cardinality(H \cap P)
  <2>1. B \subseteq H \cap P
    BY DEF Held, PendingInvites
  <2> HIDE DEF B, H, P
  <2> QED
    BY <1>n, <2>1, FS_Subset
<1>4. Cardinality(J) <= Cardinality(H \ P)
  <2> DEFINE f == [u \in J |-> people[u].invite]
  <2>1. ASSUME NEW u \in J
        PROVE  /\ people[u].invite \in H \ P
               /\ people[u].invite \in DOMAIN invites
               /\ invites[people[u].invite].email = people[u].email
    <3>1. /\ u \in DOMAIN people /\ people[u].company = o /\ u > errand[c].people /\ ~Late(u)
          /\ people[u].invite # 0
      BY <1>s DEF Members
    <3> PICK i : i = people[u].invite
      OBVIOUS
    <3>2. /\ i \in DOMAIN invites /\ invites[i].email = people[u].email
          /\ invites[i].company = o /\ invites[i].accepted # 0
      BY <1>o, <3>1
    <3>3. invites[i].accepted < invites[i].expires /\ i \in Nat
      BY <1>r, <1>f, <3>1, <3>2
    <3>4. i <= errand[c].seen
      BY <1>c, <1>h, <3>1, <3>2, <3>3
    <3>5. i \in H
      BY <3>1, <3>2, <3>3, <3>4 DEF Held
    <3>6. i \notin P
      BY <3>2 DEF PendingInvites
    <3> QED
      BY <3>2, <3>5, <3>6
  <2>2. \A u, v \in J : people[u].invite = people[v].invite => u = v
    BY <1>o, <1>d, <2>1
  <2> HIDE DEF J, H, P
  <2>3. f \in Injection(J, H \ P)
    BY <2>1, <2>2 DEF Injection, IsInjective
  <2> HIDE DEF f
  <2> QED
    BY <1>n, <2>3, FS_Injection
<1>5. Cardinality(H \ P) + Cardinality(H \cap P) = Cardinality(H)
  <2> HIDE DEF H, P
  <2>1. (H \ P) \cup (H \cap P) = H /\ (H \ P) \cap (H \cap P) = {}
    OBVIOUS
  <2>2. Cardinality(H) = Cardinality(H \ P) + Cardinality(H \cap P) - Cardinality({})
    BY ZenonT(40), <1>n, <2>1, FS_Union
  <2>3. Cardinality({}) = 0
    BY FS_EmptySet
  <2>4. /\ Cardinality(H) \in Nat /\ Cardinality(H \ P) \in Nat
        /\ Cardinality(H \cap P) \in Nat
    BY <1>n
  <2> QED
    BY <2>2, <2>3, <2>4
<1>6. Seats(errand[c].company) = Cardinality(M) + Cardinality(P)
  BY DEF Seats
<1>7. Unseen(c) = Cardinality(U) + Cardinality(L)
  BY DEF Unseen
<1> HIDE DEF K, H, M, P, U, L, J, B
<1> QED
  BY <1>n, <1>h, <1>s, <1>1, <1>2, <1>3, <1>4, <1>5, <1>6, <1>7

(* Invitations created at the same instant never exceed the seats of the   *)
(* plan, for any number of calls and any limits (invites.service.ts:41-50). *)
THEOREM SeatsAreBounded == AccountsSpec => SeatsRespected
<1>1. AccountsInit => SeatsCounted
  <2>1. NoErrand.at = "idle"
    BY ErrandTypes
  <2> QED
    BY <2>1 DEF AccountsInit, SeatsCounted
<1>2. ASSUME AccountsTypeOK, AccountsInv, SeatsCounted, NEW c \in AccountCalls, NEW o \in Companies,
             Insert(c), errand[c].company = o, errand[c].limit # Unlimited
      PROVE  Seats(o)' <= errand[c].limit + Unseen(c)
  <2>1. /\ Seats(o) \in Nat /\ Unseen(c) \in Nat /\ errand[c].limit \in Nat
        /\ Seats(o) < errand[c].limit + Unseen(c)
    BY <1>2, SeatsTaken DEF Insert
  <2> DEFINE n == Len(invites) + 1
  <2>2. /\ UNCHANGED <<people, today>>
        /\ DOMAIN invites' = DOMAIN invites \cup {n}
        /\ \A i \in DOMAIN invites : invites'[i] = invites[i]
    BY <1>2, InsertStep DEF Insert
  <2>3. Members(o)' = Members(o)
    BY <2>2 DEF Members
  <2>4. PendingInvites(o)' \subseteq PendingInvites(o) \cup {n}
    BY <2>2 DEF PendingInvites
  <2>5. IsFiniteSet(PendingInvites(o)) /\ Cardinality(PendingInvites(o)) \in Nat
        /\ Cardinality(Members(o)) \in Nat
    BY <1>2, SeatsFinite DEF PendingInvites, Members
  <2> HIDE DEF n
  <2>6. /\ IsFiniteSet(PendingInvites(o) \cup {n})
        /\ Cardinality(PendingInvites(o) \cup {n}) \in Nat
        /\ Cardinality(PendingInvites(o) \cup {n}) <= Cardinality(PendingInvites(o)) + 1
    <3>1. /\ IsFiniteSet(PendingInvites(o) \cup {n})
          /\ \/ Cardinality(PendingInvites(o) \cup {n}) = Cardinality(PendingInvites(o))
             \/ Cardinality(PendingInvites(o) \cup {n}) = Cardinality(PendingInvites(o)) + 1
      BY <2>5, FS_AddElement
    <3> QED
      BY <2>5, <3>1
  <2>7. /\ Cardinality(PendingInvites(o)') \in Nat
        /\ Cardinality(PendingInvites(o)') <= Cardinality(PendingInvites(o)) + 1
    <3>1. /\ IsFiniteSet(PendingInvites(o)')
          /\ Cardinality(PendingInvites(o)') <= Cardinality(PendingInvites(o) \cup {n})
      BY <2>4, <2>6, FS_Subset
    <3>2. Cardinality(PendingInvites(o)') \in Nat
      BY <3>1, FS_CardinalityType
    <3> QED
      BY <2>5, <2>6, <3>1, <3>2
  <2>8. Seats(o)' = Cardinality(Members(o)) + Cardinality(PendingInvites(o)')
    BY <2>3 DEF Seats
  <2> QED
    BY <2>1, <2>5, <2>7, <2>8 DEF Seats
<1>3. ASSUME AccountsTypeOK, AccountsInv, SeatsCounted, [AccountsNext]_accountVars
      PROVE  [\A c \in AccountCalls, o \in Companies :
                Insert(c) /\ errand[c].company = o /\ errand[c].limit # Unlimited
                  => Seats(o)' <= errand[c].limit + Unseen(c)]_accountVars
  BY <1>2, <1>3
<1> QED
  BY <1>1, <1>3, AccountsInductive, SeatsNext, PTL DEF AccountsSpec, SeatsRespected

=============================================================================
