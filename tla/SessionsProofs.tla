--------------------------- MODULE SessionsProofs ---------------------------
(***************************************************************************)
(* Theorems about Sessions, for any number of accounts, calls, challenges  *)
(* and sessions and for every limit of the code.                           *)
(*                                                                         *)
(* A call relies on what it read before its last statement.  The invariant *)
(* says what is still true of it: the row it names exists and is its       *)
(* user's, the challenge whose code it consumed is used and nobody else    *)
(* consumed it, every attempt under way has been counted, and a reset that *)
(* has only its commit left has seen every session but those that may last *)
(* longer.                                                                 *)
(***************************************************************************)
EXTENDS Sessions, Rows, FiniteSetTheorems

LEMMA TokenKnown ==
  SessionsTypeOK => \A i \in DOMAIN refreshTokens : i \in Nat /\ refreshTokens[i] \in RefreshToken
  BY DEF SessionsTypeOK

LEMMA PasswordKnown == SessionsTypeOK => \A u \in Users : password[u] \in Nat
  BY DEF SessionsTypeOK

\* A call that goes on or answers is well typed, and moves alone.
LEMMA Moved ==
  ASSUME SessionsTypeOK, NEW c \in AuthCalls
  PROVE  /\ \A at \in JobStep, u \in Users, id \in Nat, code \in Nat :
              Goto(c, at, u, id, code) =>
                /\ job' \in [AuthCalls -> Job]
                /\ job'[c] = [at |-> at, user |-> u, id |-> id, code |-> code]
                /\ \A d \in AuthCalls \ {c} : job'[d] = job[d]
         /\ \A id \in Nat :
              Answer(c, id) =>
                /\ job' \in [AuthCalls -> Job]
                /\ job'[c].at = "idle"
                /\ \A d \in AuthCalls \ {c} : job'[d] = job[d]
<1>1. NoJob \in Job /\ NoJob.at = "idle"
  BY SessionsAssumption DEF NoJob, Job, JobStep
<1>2. job \in [AuthCalls -> Job]
  BY DEF SessionsTypeOK
<1>3. ASSUME NEW at \in JobStep, NEW u \in Users, NEW id \in Nat, NEW code \in Nat,
             Goto(c, at, u, id, code)
      PROVE  /\ job' \in [AuthCalls -> Job]
             /\ job'[c] = [at |-> at, user |-> u, id |-> id, code |-> code]
             /\ \A d \in AuthCalls \ {c} : job'[d] = job[d]
  <2>1. [at |-> at, user |-> u, id |-> id, code |-> code] \in Job
    BY DEF Job
  <2> QED
    BY <1>2, <1>3, <2>1 DEF Goto
<1>4. ASSUME NEW id \in Nat, Answer(c, id)
      PROVE  /\ job' \in [AuthCalls -> Job]
             /\ job'[c].at = "idle"
             /\ \A d \in AuthCalls \ {c} : job'[d] = job[d]
  <2>1. [NoJob EXCEPT !.id = id] \in Job /\ [NoJob EXCEPT !.id = id].at = "idle"
    BY <1>1 DEF Job
  <2> QED
    BY <1>2, <1>4, <2>1 DEF Answer
<1> QED
  BY <1>3, <1>4

\* The initial state is well typed.
LEMMA TypeInit == SessionsInit => SessionsTypeOK
<1>1. NoJob \in Job
  BY SessionsAssumption DEF NoJob, Job, JobStep
<1> QED
  BY <1>1, EmptySeq DEF SessionsInit, SessionsTypeOK

\* What a resend keeps of a challenge, and what it changes.
LEMMA RenewedFacts ==
  ASSUME NEW r \in LoginVerification, clock \in Nat
  PROVE  /\ Renewed(r) \in LoginVerification
         /\ Renewed(r).user = r.user /\ Renewed(r).used = r.used
         /\ Renewed(r).after = r.after /\ Renewed(r).tried = r.tried
         /\ Renewed(r).code = r.code + 1 /\ Renewed(r).attempts = 0
<1> DEFINE s(k) == [r EXCEPT !.code = k, !.attempts = 0, !.sent = clock,
                             !.expires = clock + CodeLife]
<1>1. clock + CodeLife \in Nat /\ r.code + 1 \in Nat
  BY SessionsAssumption DEF LoginVerification
<1>2. ASSUME NEW k \in Nat
      PROVE  /\ s(k) \in LoginVerification
             /\ s(k).user = r.user /\ s(k).used = r.used /\ s(k).after = r.after
             /\ s(k).tried = r.tried /\ s(k).code = k /\ s(k).attempts = 0
  BY <1>1 DEF LoginVerification
<1>3. Renewed(r) = s(r.code + 1)
  BY DEF Renewed
<1> HIDE DEF s
<1> QED
  BY <1>1, <1>2, <1>3

\* The steps of a login and of the verification of its code keep the types.
LEMMA TypeLogin ==
  ASSUME SessionsTypeOK, NEW c \in AuthCalls, LoginSteps(c)
  PROVE  SessionsTypeOK'
<1> USE DEF JobStep
<1>j. job[c] \in Job /\ job[c].id \in Nat /\ job[c].code \in Nat /\ job[c].user \in Users
  BY DEF SessionsTypeOK, Job
<1>r. \A i \in DOMAIN challenges : i \in Nat /\ challenges[i] \in LoginVerification
  BY DEF SessionsTypeOK
<1>k. Len(challenges) \in Nat /\ Len(refreshTokens) \in Nat /\ clock \in Nat /\ CodeLife \in Nat
  BY SMTT(30), SessionsAssumption DEF SessionsTypeOK
<1> DEFINE row == challenges[job[c].id]
<1>u. \A e : /\ job[c].id \in DOMAIN challenges => e \in LoginVerification
             /\ challenges' = [challenges EXCEPT ![job[c].id] = e]
             => challenges' \in Seq(LoginVerification)
  <2> TAKE e
  <2> HAVE /\ job[c].id \in DOMAIN challenges => e \in LoginVerification
           /\ challenges' = [challenges EXCEPT ![job[c].id] = e]
  <2>1. challenges \in Seq(LoginVerification)
    BY DEF SessionsTypeOK
  <2> QED
    BY <2>1, OneReplaced
<1>e. job[c].id \in DOMAIN challenges =>
        /\ [row EXCEPT !.used = TRUE] \in LoginVerification
        /\ [row EXCEPT !.attempts = @ + 1] \in LoginVerification
        /\ [row EXCEPT !.tried = @ + 1] \in LoginVerification
        /\ Renewed(row) \in LoginVerification
  <2> SUFFICES ASSUME job[c].id \in DOMAIN challenges
               PROVE  /\ [row EXCEPT !.used = TRUE] \in LoginVerification
                      /\ [row EXCEPT !.attempts = @ + 1] \in LoginVerification
                      /\ [row EXCEPT !.tried = @ + 1] \in LoginVerification
                      /\ Renewed(row) \in LoginVerification
    OBVIOUS
  <2>1. row \in LoginVerification
    BY <1>r
  <2>a. row.attempts \in Nat /\ row.tried \in Nat
    BY <2>1 DEF LoginVerification
  <2>2. row.attempts + 1 \in Nat /\ row.tried + 1 \in Nat
    BY <2>a
  <2> HIDE DEF row
  <2>3. [row EXCEPT !.used = TRUE] \in LoginVerification
    BY <2>1 DEF LoginVerification
  <2>4. [row EXCEPT !.attempts = @ + 1] \in LoginVerification
    BY <2>1, <2>2 DEF LoginVerification
  <2>5. [row EXCEPT !.tried = @ + 1] \in LoginVerification
    BY <2>1, <2>2 DEF LoginVerification
  <2>6. Renewed(row) \in LoginVerification
    BY <2>1, <1>k, RenewedFacts
  <2> QED
    BY <2>3, <2>4, <2>5, <2>6
<1> SUFFICES /\ challenges' \in Seq(LoginVerification)
             /\ job' \in [AuthCalls -> Job]
             /\ UNCHANGED <<clock, password, verified, refreshTokens, links>>
  BY DEF SessionsTypeOK
<1>f. UNCHANGED <<clock, password, verified, refreshTokens, links>>
  BY DEF LoginSteps, Login, Invalidate, CreateChallenge, Verify, CloseChallenge, Reserve,
         Compare, ConsumeCode, Resend, Regenerate
<1>s. challenges \in Seq(LoginVerification)
  BY DEF SessionsTypeOK
<1>1. CASE Login(c)
  BY <1>1, <1>f, <1>s, Moved DEF Login
<1>2. CASE Invalidate(c)
  <2>1. challenges' \in [DOMAIN challenges -> LoginVerification]
    BY ZenonT(40), <1>2, <1>r DEF Invalidate, LoginVerification
  <2> QED
    BY <1>2, <2>1, <1>f, <1>s, <1>j, <1>k, Moved, Replaced DEF Invalidate
<1>3. CASE CreateChallenge(c)
  <2>1. [user |-> job[c].user, used |-> FALSE, attempts |-> 0, code |-> 1, created |-> clock,
         sent |-> clock, expires |-> clock + CodeLife, tried |-> 0, after |-> job[c].id]
          \in LoginVerification
    BY <1>j, <1>k DEF LoginVerification
  <2> QED
    BY <1>3, <2>1, <1>f, <1>s, Moved, Appended DEF CreateChallenge
<1>4. CASE Verify(c)
  <2> PICK i \in DOMAIN challenges :
        IF challenges[i].expires < clock
        THEN Goto(c, "close", challenges[i].user, i, 0)
        ELSE \E code \in {0, challenges[i].code} : Goto(c, "reserve", challenges[i].user, i, code)
    BY <1>4 DEF Verify
  <2>1. i \in Nat /\ challenges[i].user \in Users /\ challenges[i].code \in Nat
    BY <1>r DEF LoginVerification
  <2> QED
    BY <1>4, <2>1, <1>f, <1>s, Moved DEF Verify
<1>5. CASE CloseChallenge(c)
  <2>1. challenges' = [challenges EXCEPT ![job[c].id] = [row EXCEPT !.used = TRUE]]
    BY <1>5 DEF CloseChallenge
  <2>2. challenges' \in Seq(LoginVerification)
    BY <2>1, <1>u, <1>e
  <2> QED
    BY <1>5, <2>2, <1>f, Moved DEF CloseChallenge
<1>6. CASE Reserve(c)
  <2>0. \/ challenges' = [challenges EXCEPT ![job[c].id] = [row EXCEPT !.attempts = @ + 1]]
        \/ challenges' = challenges
    BY <1>6 DEF Reserve
  <2>1. challenges' \in Seq(LoginVerification)
    BY <2>0, <1>u, <1>e, <1>s
  <2> QED
    BY <1>6, <2>1, <1>f, <1>j, Moved DEF Reserve
<1>7. CASE Compare(c)
  <2>0. challenges' = [challenges EXCEPT ![job[c].id] = [row EXCEPT !.tried = @ + 1]]
    BY <1>7 DEF Compare
  <2>1. challenges' \in Seq(LoginVerification)
    BY <2>0, <1>u, <1>e
  <2> QED
    BY <1>7, <2>1, <1>f, <1>j, Moved DEF Compare
<1>8. CASE ConsumeCode(c)
  <2>0. \/ challenges' = [challenges EXCEPT ![job[c].id] = [row EXCEPT !.used = TRUE]]
        \/ challenges' = challenges
    BY <1>8 DEF ConsumeCode
  <2>1. challenges' \in Seq(LoginVerification)
    BY <2>0, <1>u, <1>e, <1>s
  <2> QED
    BY <1>8, <2>1, <1>f, <1>j, PasswordKnown, Moved DEF ConsumeCode
<1>9. CASE Resend(c)
  <2> PICK i \in DOMAIN challenges :
        \/ Goto(c, "close", challenges[i].user, i, 0)
        \/ Goto(c, "regenerate", challenges[i].user, i, 0)
    BY <1>9 DEF Resend
  <2>1. i \in Nat /\ challenges[i].user \in Users
    BY <1>r DEF LoginVerification
  <2> QED
    BY <1>9, <2>1, <1>f, <1>s, Moved DEF Resend
<1>10. CASE Regenerate(c)
  <2>1. challenges' = [challenges EXCEPT ![job[c].id] = Renewed(row)]
    BY <1>10 DEF Regenerate
  <2>2. challenges' \in Seq(LoginVerification)
    BY <2>1, <1>u, <1>e
  <2> QED
    BY <1>10, <2>2, <1>f, Moved DEF Regenerate
<1> QED
  BY <1>1, <1>2, <1>3, <1>4, <1>5, <1>6, <1>7, <1>8, <1>9, <1>10 DEF LoginSteps

\* The steps of sessions and links keep them too.
LEMMA TypeToken ==
  ASSUME SessionsTypeOK, NEW c \in AuthCalls,
         LinkSteps(c) \/ TokenSteps(c) \/ OpenSession(c) \/ CrashCall(c)
  PROVE  SessionsTypeOK'
<1> USE DEF JobStep
<1>j. job[c] \in Job /\ job[c].id \in Nat /\ job[c].user \in Users /\ job[c].code \in Nat
  BY DEF SessionsTypeOK, Job
<1>n. clock \in Nat /\ RefreshLife \in Nat /\ password[job[c].user] \in Nat
  BY <1>j, SessionsAssumption DEF SessionsTypeOK
<1>r. refreshTokens \in Seq(RefreshToken) /\ links \in Seq(Link)
  BY DEF SessionsTypeOK
<1>k. /\ Len(refreshTokens) \in Nat /\ clock + RefreshLife \in Nat
      /\ password[job[c].user] + 1 \in Nat
  BY <1>n, <1>r
<1>i. /\ \A i \in DOMAIN refreshTokens : i \in Nat /\ refreshTokens[i] \in RefreshToken
      /\ \A i \in DOMAIN links : i \in Nat /\ links[i] \in Link
  BY <1>r
<1>l. ASSUME links' = [links EXCEPT ![job[c].id].used = TRUE]
      PROVE  links' \in Seq(Link)
  <2>1. job[c].id \in DOMAIN links => [links[job[c].id] EXCEPT !.used = TRUE] \in Link
    BY <1>i DEF Link
  <2> QED
    BY ZenonT(40), <1>l, <1>r, <2>1, OneReplaced
<1>1. CASE FollowLink(c)
  <2> PICK i \in DOMAIN links :
        Goto(c, IF links[i].kind = "reset" THEN "reset" ELSE "confirm", links[i].user, i, 0)
    BY <1>1 DEF FollowLink
  <2>1. i \in Nat /\ links[i].user \in Users
    BY <1>i DEF Link
  <2>2. job' \in [AuthCalls -> Job]
    BY <2>1, Moved
  <2> QED
    BY <1>1, <2>2 DEF FollowLink, SessionsTypeOK
<1>2. CASE ResetPassword(c) \/ SweepSessions(c)
  <2>1. job' \in [AuthCalls -> Job]
    BY <1>2, <1>j, <1>k, Moved DEF ResetPassword, SweepSessions
  <2> QED
    BY <1>2, <2>1 DEF ResetPassword, SweepSessions, SessionsTypeOK
<1>8. CASE CommitReset(c)
  <2>1. password' \in [Users -> Nat]
    BY <1>8, <1>j, <1>k, <1>n DEF CommitReset, SessionsTypeOK
  <2>2. refreshTokens' \in [DOMAIN refreshTokens -> RefreshToken]
    BY <1>8, <1>i DEF CommitReset, RefreshToken
  <2>3. refreshTokens' \in Seq(RefreshToken)
    BY <1>r, <2>2, Replaced
  <2>4. links' \in Seq(Link)
    BY <1>8, <1>l DEF CommitReset
  <2>5. job' \in [AuthCalls -> Job]
    BY <1>8, Moved DEF CommitReset
  <2> QED
    BY <1>8, <2>1, <2>3, <2>4, <2>5 DEF CommitReset, SessionsTypeOK
<1>3. CASE VerifyEmail(c)
  <2>1. links' \in Seq(Link)
    BY <1>3, <1>l DEF VerifyEmail
  <2>2. job' \in [AuthCalls -> Job]
    BY <1>3, Moved DEF VerifyEmail
  <2> QED
    BY <1>3, <1>j, <2>1, <2>2 DEF VerifyEmail, SessionsTypeOK
<1>4. CASE Revoke(c)
  <2>1. job[c].id \in DOMAIN refreshTokens
          => [refreshTokens[job[c].id] EXCEPT !.revoked = TRUE] \in RefreshToken
    BY <1>i DEF RefreshToken
  <2>2. refreshTokens' = [refreshTokens EXCEPT ![job[c].id] =
                            [refreshTokens[job[c].id] EXCEPT !.revoked = TRUE]]
    BY <1>4 DEF Revoke
  <2>3. refreshTokens' \in Seq(RefreshToken)
    BY SMTT(30), <1>r, <2>1, <2>2, OneReplaced
  <2>4. job' \in [AuthCalls -> Job]
    BY <1>4, <1>j, Moved DEF Revoke
  <2> QED
    BY <1>4, <2>3, <2>4 DEF Revoke, SessionsTypeOK
<1>5. CASE Issue(c)
  <2>0. MayLast(job[c].user) \in Nat
    BY <1>k, <1>n DEF MayLast
  <2>1. [user |-> job[c].user, revoked |-> FALSE, expires |-> clock + RefreshLife,
         issued |-> job[c].code, until |-> MayLast(job[c].user),
         from |-> job[c].id] \in RefreshToken
    BY <2>0, <1>j, <1>k DEF RefreshToken
  <2>2. refreshTokens' \in Seq(RefreshToken)
    BY <1>5, <1>r, <2>1, Appended DEF Issue
  <2>3. job' \in [AuthCalls -> Job]
    BY <1>5, <1>k, Moved DEF Issue
  <2> QED
    BY <1>5, <2>2, <2>3 DEF Issue, SessionsTypeOK
<1>6. CASE OpenSession(c)
  <2>1. job' \in [AuthCalls -> Job]
    BY <1>6, PasswordKnown, Moved DEF OpenSession
  <2> QED
    BY <1>6, <2>1 DEF OpenSession, SessionsTypeOK
<1>7. CASE CrashCall(c)
  <2>1. job' \in [AuthCalls -> Job]
    BY <1>7, Moved DEF CrashCall
  <2> QED
    BY <1>7, <2>1 DEF CrashCall, SessionsTypeOK
<1> QED
  BY <1>1, <1>2, <1>3, <1>4, <1>5, <1>6, <1>7, <1>8 DEF LinkSteps, TokenSteps

\* Every step keeps the types.
LEMMA TypeNext == SessionsTypeOK /\ [SessionsNext]_sessionVars => SessionsTypeOK'
<1> SUFFICES ASSUME SessionsTypeOK, [SessionsNext]_sessionVars PROVE SessionsTypeOK'
  OBVIOUS
<1>r. refreshTokens \in Seq(RefreshToken) /\ links \in Seq(Link) /\ clock + LinkLife \in Nat
  BY SMTT(30), SessionsAssumption DEF SessionsTypeOK
<1>i. \A i \in DOMAIN refreshTokens : i \in Nat /\ refreshTokens[i] \in RefreshToken
  BY <1>r
<1>1. ASSUME NEW c \in AuthCalls, LoginSteps(c) PROVE SessionsTypeOK'
  BY <1>1, TypeLogin
<1>2. ASSUME NEW c \in AuthCalls,
             LinkSteps(c) \/ TokenSteps(c) \/ OpenSession(c) \/ CrashCall(c) \/ Issue(c)
      PROVE  SessionsTypeOK'
  BY <1>2, TypeToken DEF TokenSteps
<1>3. ASSUME NEW c \in AuthCalls, NEW i \in DOMAIN refreshTokens, RefreshReads(c, i)
      PROVE  SessionsTypeOK'
  <2>1. i \in Nat /\ refreshTokens[i].user \in Users /\ "revoke" \in JobStep
    BY <1>i DEF RefreshToken, JobStep
  <2>2. job' \in [AuthCalls -> Job]
    BY <1>3, <2>1, PasswordKnown, Moved DEF RefreshReads
  <2> QED
    BY <1>3, <2>2 DEF RefreshReads, SessionsTypeOK
<1>4. ASSUME NEW i \in DOMAIN refreshTokens, Logout(i) PROVE SessionsTypeOK'
  <2>1. [refreshTokens[i] EXCEPT !.revoked = TRUE] \in RefreshToken
    BY <1>i DEF RefreshToken
  <2>2. refreshTokens' = [refreshTokens EXCEPT ![i] =
                            [refreshTokens[i] EXCEPT !.revoked = TRUE]]
    BY <1>4 DEF Logout
  <2>3. refreshTokens' \in Seq(RefreshToken)
    BY <1>r, <2>1, <2>2, OneReplaced
  <2> QED
    BY <1>4, <2>3 DEF Logout, SessionsTypeOK
<1>5. ASSUME NEW kind \in {"reset", "email"}, NEW u \in Users, SendLink(kind, u)
      PROVE  SessionsTypeOK'
  <2>1. [kind |-> kind, user |-> u, used |-> FALSE, expires |-> clock + LinkLife] \in Link
    BY <1>r DEF Link
  <2>2. links' \in Seq(Link)
    BY <1>5, <1>r, <2>1, Appended DEF SendLink
  <2> QED
    BY <1>5, <2>2 DEF SendLink, SessionsTypeOK
<1>6. CASE TickSessions
  BY <1>6 DEF TickSessions, SessionsTypeOK
<1>7. CASE UNCHANGED sessionVars
  BY <1>7 DEF sessionVars, SessionsTypeOK
<1> QED
  BY <1>1, <1>2, <1>3, <1>4, <1>5, <1>6, <1>7
     DEF SessionsNext, ChallengeNext, TokenNext

(* Every reachable state of the authentication is well typed, whatever     *)
(* calls interleave or stop (auth.service.ts).                             *)
THEOREM TypeCorrect == SessionsSpec => []SessionsTypeOK
  BY TypeInit, TypeNext, PTL DEF SessionsSpec

-----------------------------------------------------------------------------
\* What a step does to the challenges that exist: their users and what they
\* follow never change, and what is used stays used.
LEMMA ChallengesKept ==
  ASSUME SessionsTypeOK, [SessionsNext]_sessionVars
  PROVE  /\ Len(challenges) <= Len(challenges')
         /\ \A i \in DOMAIN challenges :
              /\ i \in DOMAIN challenges'
              /\ challenges'[i].user = challenges[i].user
              /\ challenges'[i].after = challenges[i].after
              /\ challenges[i].used => challenges'[i].used
<1> DEFINE Kept ==
      /\ Len(challenges) <= Len(challenges')
      /\ \A i \in DOMAIN challenges :
           /\ i \in DOMAIN challenges'
           /\ challenges'[i].user = challenges[i].user
           /\ challenges'[i].after = challenges[i].after
           /\ challenges[i].used => challenges'[i].used
<1>s. /\ challenges \in Seq(LoginVerification) /\ Len(challenges) \in Nat
      /\ \A i \in DOMAIN challenges : challenges[i] \in LoginVerification
  BY DEF SessionsTypeOK
<1>u. \A i, e : /\ challenges' = [challenges EXCEPT ![i] = e]
                /\ i \in DOMAIN challenges =>
                     /\ e \in LoginVerification
                     /\ e.user = challenges[i].user /\ e.after = challenges[i].after
                     /\ challenges[i].used => e.used
                => Kept
  <2> TAKE i, e
  <2> HAVE /\ challenges' = [challenges EXCEPT ![i] = e]
           /\ i \in DOMAIN challenges =>
                /\ e \in LoginVerification
                /\ e.user = challenges[i].user /\ e.after = challenges[i].after
                /\ challenges[i].used => e.used
  <2>1. /\ DOMAIN challenges' = DOMAIN challenges /\ Len(challenges') = Len(challenges)
        /\ \A j \in DOMAIN challenges :
             challenges'[j] = IF j = i THEN e ELSE challenges[j]
    BY <1>s, OneReplaced
  <2> QED
    BY <2>1, <1>s
<1>0. ASSUME challenges' = challenges PROVE Kept
  BY <1>0, <1>s
<1>1. ASSUME NEW c \in AuthCalls, Invalidate(c) PROVE Kept
  <2>1. challenges' \in [DOMAIN challenges -> LoginVerification]
    BY <1>1, <1>s DEF Invalidate, LoginVerification
  <2>2. DOMAIN challenges' = DOMAIN challenges /\ Len(challenges') = Len(challenges)
    BY <1>s, <2>1, Replaced
  <2> QED
    BY <1>1, <1>s, <2>2 DEF Invalidate, LoginVerification
<1>2. ASSUME NEW c \in AuthCalls, CreateChallenge(c) PROVE Kept
  <2>1. PICK e \in LoginVerification : challenges' = Append(challenges, e)
    <3> DEFINE e == [user |-> job[c].user, used |-> FALSE, attempts |-> 0, code |-> 1,
                     created |-> clock, sent |-> clock, expires |-> clock + CodeLife,
                     tried |-> 0, after |-> job[c].id]
    <3>0. /\ job[c].user \in Users /\ job[c].id \in Nat
          /\ clock \in Nat /\ CodeLife \in Nat
      BY SessionsAssumption DEF SessionsTypeOK, Job
    <3>1. e \in LoginVerification
      BY <3>0 DEF LoginVerification
    <3>2. challenges' = Append(challenges, e)
      BY <1>2 DEF CreateChallenge
    <3> QED
      BY <3>1, <3>2
  <2> QED
    BY <2>1, <1>s, Appended
<1>3. ASSUME NEW c \in AuthCalls, CloseChallenge(c) \/ Reserve(c) \/ Compare(c) \/ ConsumeCode(c)
      PROVE  Kept
  <2> DEFINE row == challenges[job[c].id]
  <2>1. \/ challenges' = challenges
        \/ challenges' = [challenges EXCEPT ![job[c].id] = [row EXCEPT !.used = TRUE]]
        \/ challenges' = [challenges EXCEPT ![job[c].id] = [row EXCEPT !.attempts = @ + 1]]
        \/ challenges' = [challenges EXCEPT ![job[c].id] = [row EXCEPT !.tried = @ + 1]]
    BY <1>3 DEF CloseChallenge, Reserve, Compare, ConsumeCode
  <2>2. job[c].id \in DOMAIN challenges =>
          /\ row \in LoginVerification /\ row.attempts + 1 \in Nat /\ row.tried + 1 \in Nat
    <3>1. job[c].id \in DOMAIN challenges =>
            row \in LoginVerification /\ row.attempts \in Nat /\ row.tried \in Nat
      BY <1>s DEF LoginVerification
    <3> QED
      BY <3>1
  <2> HIDE DEF row, Kept
  <2>3. CASE challenges' = [challenges EXCEPT ![job[c].id] = [row EXCEPT !.used = TRUE]]
    <3>1. job[c].id \in DOMAIN challenges =>
            LET e == [row EXCEPT !.used = TRUE] IN
            e \in LoginVerification /\ e.user = row.user /\ e.after = row.after /\ e.used
      BY <2>2 DEF LoginVerification
    <3> QED
      BY <1>u, <2>3, <3>1 DEF row
  <2>4. CASE challenges' = [challenges EXCEPT ![job[c].id] = [row EXCEPT !.attempts = @ + 1]]
    <3>1. job[c].id \in DOMAIN challenges =>
            LET e == [row EXCEPT !.attempts = @ + 1] IN
            e \in LoginVerification /\ e.user = row.user /\ e.after = row.after
            /\ e.used = row.used
      BY <2>2 DEF LoginVerification
    <3> QED
      BY <1>u, <2>4, <3>1 DEF row
  <2>5. CASE challenges' = [challenges EXCEPT ![job[c].id] = [row EXCEPT !.tried = @ + 1]]
    <3>1. job[c].id \in DOMAIN challenges =>
            LET e == [row EXCEPT !.tried = @ + 1] IN
            e \in LoginVerification /\ e.user = row.user /\ e.after = row.after
            /\ e.used = row.used
      BY <2>2 DEF LoginVerification
    <3> QED
      BY <1>u, <2>5, <3>1 DEF row
  <2> QED
    BY <2>1, <2>3, <2>4, <2>5, <1>0
<1>4. ASSUME NEW c \in AuthCalls, Regenerate(c) PROVE Kept
  <2> DEFINE row == challenges[job[c].id]
  <2>1. challenges' = [challenges EXCEPT ![job[c].id] = Renewed(row)]
    BY <1>4 DEF Regenerate
  <2>2. job[c].id \in DOMAIN challenges =>
          /\ Renewed(row) \in LoginVerification /\ Renewed(row).user = row.user
          /\ Renewed(row).after = row.after /\ Renewed(row).used = row.used
    BY <1>s, RenewedFacts DEF SessionsTypeOK
  <2> HIDE DEF Kept
  <2> QED
    BY <1>u, <2>1, <2>2
<1> HIDE DEF Kept
<1>5. \/ challenges' = challenges
      \/ \E c \in AuthCalls :
           \/ Invalidate(c) \/ CreateChallenge(c) \/ CloseChallenge(c) \/ Reserve(c)
           \/ Compare(c) \/ ConsumeCode(c) \/ Regenerate(c)
  BY DEF SessionsNext, ChallengeNext, TokenNext, LoginSteps, LinkSteps, TokenSteps, sessionVars,
         Login, Verify, Resend, Issue, CrashCall, TickSessions, FollowLink, ResetPassword,
         SweepSessions, CommitReset, VerifyEmail, OpenSession, RefreshReads, Revoke, Logout, SendLink
<1>6. Kept
  BY <1>0, <1>1, <1>2, <1>3, <1>4, <1>5
<1> QED
  BY <1>6 DEF Kept


-----------------------------------------------------------------------------
Others(c) == \A d \in AuthCalls \ {c} : job'[d] = job[d]

\* The steps that leave every challenge alone, and those that touch one row.
Quiet(c) ==
  \/ Login(c) \/ Verify(c) \/ Resend(c) \/ OpenSession(c) \/ Issue(c) \/ LinkSteps(c)
  \/ Revoke(c) \/ CrashCall(c) \/ \E i \in DOMAIN refreshTokens : RefreshReads(c, i)

OnRow(c) ==
  CloseChallenge(c) \/ Reserve(c) \/ Compare(c) \/ ConsumeCode(c) \/ Regenerate(c)

\* Whose call a step is, when it is one.
LEMMA EitherStep ==
  ASSUME [SessionsNext]_sessionVars
  PROVE  \/ challenges' = challenges /\ job' = job
         \/ \E c \in AuthCalls : Quiet(c) \/ Invalidate(c) \/ CreateChallenge(c) \/ OnRow(c)
  BY DEF SessionsNext, ChallengeNext, TokenNext, LoginSteps, LinkSteps, TokenSteps, sessionVars,
         TickSessions, Logout, SendLink, Quiet, OnRow

\* A call that has only read goes to a step about the row that it found.
LEMMA QuietSteps ==
  ASSUME SessionsTypeOK, NEW c \in AuthCalls, Quiet(c)
  PROVE  /\ challenges' = challenges /\ Others(c)
         /\ job'[c].at \notin {"compare", "consume", "create"}
         /\ job'[c].at \in {"close", "reserve", "regenerate"} =>
              job'[c].id \in DOMAIN challenges
         /\ job'[c].at = "issue" => job'[c].id = 0
<1> USE DEF JobStep, Others
<1>j. job[c] \in Job /\ job[c].id \in Nat /\ job[c].user \in Users /\ job[c].code \in Nat
  BY DEF SessionsTypeOK, Job
<1>r. /\ \A i \in DOMAIN challenges : i \in Nat /\ challenges[i] \in LoginVerification
      /\ \A i \in DOMAIN refreshTokens : i \in Nat /\ refreshTokens[i] \in RefreshToken
      /\ \A i \in DOMAIN links : i \in Nat /\ links[i] \in Link
      /\ Len(refreshTokens) + 1 \in Nat
  BY DEF SessionsTypeOK
<1>0. challenges' = challenges
  BY DEF Quiet, LinkSteps, Login, Verify, Resend, OpenSession, Issue, CrashCall, FollowLink,
         ResetPassword, SweepSessions, CommitReset, VerifyEmail, RefreshReads, Revoke
<1>m. \A at \in JobStep, u \in Users, id \in Nat, code \in Nat :
        Goto(c, at, u, id, code) => job'[c].at = at /\ job'[c].id = id /\ Others(c)
  <2> TAKE at \in JobStep, u \in Users, id \in Nat, code \in Nat
  <2> HAVE Goto(c, at, u, id, code)
  <2>1. job'[c] = [at |-> at, user |-> u, id |-> id, code |-> code] /\ Others(c)
    BY Moved
  <2> QED
    BY <2>1
<1>z. \A id \in Nat : Answer(c, id) => job'[c].at = "idle" /\ Others(c)
  BY Moved
<1> HIDE DEF Others
<1>1. CASE Login(c) \/ OpenSession(c)
  <2> PICK u \in Users : Goto(c, "invalidate", u, 0, 0) \/ Goto(c, "issue", u, 0, password[u])
    BY <1>1 DEF Login, OpenSession
  <2>1. job'[c].at \in {"invalidate", "issue"} /\ job'[c].id = 0 /\ Others(c)
    BY <1>m, PasswordKnown
  <2> QED
    BY <2>1, <1>0
<1>2. CASE Verify(c)
  <2> PICK i \in DOMAIN challenges :
        IF challenges[i].expires < clock
        THEN Goto(c, "close", challenges[i].user, i, 0)
        ELSE \E code \in {0, challenges[i].code} : Goto(c, "reserve", challenges[i].user, i, code)
    BY <1>2 DEF Verify
  <2>1. i \in Nat /\ challenges[i].user \in Users /\ challenges[i].code \in Nat
    BY <1>r DEF LoginVerification
  <2>2. job'[c].at \in {"close", "reserve"} /\ job'[c].id = i /\ Others(c)
    BY <2>1, <1>m
  <2> QED
    BY <2>2, <1>0
<1>3. CASE Resend(c)
  <2> PICK i \in DOMAIN challenges :
        \/ Goto(c, "close", challenges[i].user, i, 0)
        \/ Goto(c, "regenerate", challenges[i].user, i, 0)
    BY <1>3 DEF Resend
  <2>1. i \in Nat /\ challenges[i].user \in Users
    BY <1>r DEF LoginVerification
  <2>2. job'[c].at \in {"close", "regenerate"} /\ job'[c].id = i /\ Others(c)
    BY <2>1, <1>m
  <2> QED
    BY <2>2, <1>0
<1>4. CASE Issue(c)
  BY <1>0, <1>4, <1>r, <1>z DEF Issue
<1>5. CASE FollowLink(c)
  <2> PICK i \in DOMAIN links :
        Goto(c, IF links[i].kind = "reset" THEN "reset" ELSE "confirm", links[i].user, i, 0)
    BY <1>5 DEF FollowLink
  <2>1. i \in Nat /\ links[i].user \in Users
    BY <1>r DEF Link
  <2>2. job'[c].at \in {"reset", "confirm"} /\ Others(c)
    BY <2>1, <1>m
  <2> QED
    BY <2>2, <1>0
<1>6. CASE CommitReset(c) \/ VerifyEmail(c) \/ CrashCall(c)
  BY <1>0, <1>6, <1>z DEF CommitReset, VerifyEmail, CrashCall
<1>9. CASE ResetPassword(c) \/ SweepSessions(c)
  <2>1. job'[c].at \in {"sweep", "commit"} /\ Others(c)
    BY <1>9, <1>j, <1>r, <1>m DEF ResetPassword, SweepSessions
  <2> QED
    BY <2>1, <1>0
<1>7. CASE Revoke(c)
  <2>1. job'[c].at = "issue" /\ job'[c].id = 0 /\ Others(c)
    BY <1>7, <1>j, <1>m DEF Revoke
  <2> QED
    BY <2>1, <1>0
<1>8. CASE \E i \in DOMAIN refreshTokens : RefreshReads(c, i)
  <2> PICK i \in DOMAIN refreshTokens : RefreshReads(c, i)
    BY <1>8
  <2>1. i \in Nat /\ refreshTokens[i].user \in Users
    BY <1>r DEF RefreshToken
  <2>2. job'[c].at \in {"revoke", "idle"} /\ Others(c)
    <3>1. CASE Exchangeable(i)
      BY <2>1, <3>1, <1>m, PasswordKnown DEF RefreshReads
    <3>2. CASE ~Exchangeable(i)
      BY <3>2, <1>z DEF RefreshReads
    <3> QED
      BY <3>1, <3>2
  <2> QED
    BY <2>2, <1>0
<1> QED
  BY <1>1, <1>2, <1>3, <1>4, <1>5, <1>6, <1>7, <1>8, <1>9 DEF Quiet, LinkSteps

\* A login closes challenges and touches nothing else of them.
LEMMA InvalidateStep ==
  ASSUME SessionsTypeOK, NEW c \in AuthCalls, Invalidate(c)
  PROVE  /\ Others(c) /\ DOMAIN challenges' = DOMAIN challenges
         /\ Len(challenges') = Len(challenges)
         /\ job'[c].at = "create" /\ job'[c].user = job[c].user
         /\ job'[c].id = Len(challenges)
         /\ \A i \in DOMAIN challenges :
              /\ challenges'[i].user = challenges[i].user
              /\ challenges'[i].after = challenges[i].after
              /\ challenges'[i].code = challenges[i].code
              /\ challenges'[i].tried = challenges[i].tried
              /\ challenges'[i].attempts = challenges[i].attempts
              /\ challenges[i].used => challenges'[i].used
              /\ challenges[i].user = job[c].user => challenges'[i].used
<1>s. /\ challenges \in Seq(LoginVerification) /\ Len(challenges) \in Nat
      /\ \A i \in DOMAIN challenges : challenges[i] \in LoginVerification
      /\ job[c].user \in Users
  BY DEF SessionsTypeOK, Job
<1>1. challenges' \in [DOMAIN challenges -> LoginVerification]
  BY <1>s DEF Invalidate, LoginVerification
<1>2. DOMAIN challenges' = DOMAIN challenges /\ Len(challenges') = Len(challenges)
  BY <1>s, <1>1, Replaced
<1>3. /\ Others(c)
      /\ job'[c] = [at |-> "create", user |-> job[c].user, id |-> Len(challenges), code |-> 0]
  BY <1>s, Moved DEF Invalidate, JobStep, Others
<1> QED
  BY <1>s, <1>2, <1>3 DEF Invalidate, LoginVerification

\* A challenge is added, and the call that added it has answered.
LEMMA CreateStep ==
  ASSUME SessionsTypeOK, NEW c \in AuthCalls, CreateChallenge(c)
  PROVE  LET n == Len(challenges) + 1 IN
         /\ Others(c) /\ job[c].at = "create" /\ job'[c].at = "idle"
         /\ n \in Nat /\ n \notin DOMAIN challenges
         /\ DOMAIN challenges = 1..Len(challenges)
         /\ DOMAIN challenges' = DOMAIN challenges \cup {n} /\ Len(challenges') = n
         /\ \A i \in DOMAIN challenges : challenges'[i] = challenges[i]
         /\ challenges'[n].user = job[c].user /\ challenges'[n].after = job[c].id
         /\ challenges'[n].code = 1 /\ challenges'[n].tried = 0
         /\ challenges'[n].attempts = 0
<1> DEFINE e == [user |-> job[c].user, used |-> FALSE, attempts |-> 0, code |-> 1,
                 created |-> clock, sent |-> clock, expires |-> clock + CodeLife,
                 tried |-> 0, after |-> job[c].id]
<1>1. /\ job[c].user \in Users /\ job[c].id \in Nat /\ clock \in Nat /\ CodeLife \in Nat
      /\ challenges \in Seq(LoginVerification) /\ Len(challenges) + 1 \in Nat
  BY SMTT(30), SessionsAssumption DEF SessionsTypeOK, Job
<1>2. e \in LoginVerification
  BY <1>1 DEF LoginVerification
<1>3. challenges' = Append(challenges, e) /\ job[c].at = "create"
  BY DEF CreateChallenge
<1>4. Others(c) /\ job'[c].at = "idle"
  BY Moved DEF CreateChallenge, Others
<1>5. e.user = job[c].user /\ e.after = job[c].id /\ e.code = 1 /\ e.tried = 0 /\ e.attempts = 0
  OBVIOUS
<1> HIDE DEF e
<1> QED
  BY <1>1, <1>2, <1>3, <1>4, <1>5, Appended


\* A step about one challenge: what the call that makes it may then rely on.
Counts(r) == <<r.code, r.tried, r.attempts>>

RowEffect(c, r, e) ==
  \/ /\ job[c].at # "compare" /\ job'[c].at \in {"idle", "close"}
     /\ Counts(e) = Counts(r)
  \/ /\ job[c].at = "consume" /\ job'[c].at = "issue" /\ ~r.used /\ e.used
     /\ Counts(e) = Counts(r)
  \/ /\ job[c].at = "reserve" /\ job'[c].at = "compare"
     /\ r.attempts < MaxAttempts /\ Counts(e) = <<r.code, r.tried, r.attempts + 1>>
  \/ /\ job[c].at = "compare" /\ job'[c].at \in {"idle", "consume"}
     /\ Counts(e) = <<r.code, r.tried + 1, r.attempts>>
  \/ /\ job[c].at = "regenerate" /\ job'[c].at = "idle"
     /\ Counts(e) = <<r.code + 1, r.tried, 0>>

LEMMA RowSteps ==
  ASSUME SessionsTypeOK, NEW c \in AuthCalls, OnRow(c), job[c].id \in DOMAIN challenges
  PROVE  LET i == job[c].id
             r == challenges[i]
             e == challenges'[i] IN
         /\ Others(c) /\ DOMAIN challenges' = DOMAIN challenges
         /\ Len(challenges') = Len(challenges)
         /\ \A j \in DOMAIN challenges \ {i} : challenges'[j] = challenges[j]
         /\ e.user = r.user /\ e.after = r.after /\ (r.used => e.used)
         /\ job[c].at \in {"close", "reserve", "compare", "consume", "regenerate"}
         /\ job'[c].at # "idle" => job'[c].id = i /\ job'[c].user = job[c].user
         /\ RowEffect(c, r, e)
<1> DEFINE i == job[c].id
           r == challenges[i]
           Result(e) ==
             /\ e \in LoginVerification
             /\ e.user = r.user /\ e.after = r.after /\ (r.used => e.used)
             /\ RowEffect(c, r, e)
<1> USE DEF JobStep
<1>j. i \in Nat /\ job[c].user \in Users /\ job[c].code \in Nat
  BY DEF SessionsTypeOK, Job
<1>s. /\ challenges \in Seq(LoginVerification) /\ r \in LoginVerification
      /\ clock \in Nat
  BY DEF SessionsTypeOK
<1>n. /\ r.attempts \in Nat /\ r.tried \in Nat /\ r.code \in Nat
  BY <1>s DEF LoginVerification
<1>n2. r.attempts + 1 \in Nat /\ r.tried + 1 \in Nat
  BY <1>n
<1>z. \A id \in Nat : Answer(c, id) => job'[c].at = "idle" /\ Others(c)
  BY Moved DEF Others
<1>m. \A at \in JobStep, u \in Users, id \in Nat, code \in Nat :
        Goto(c, at, u, id, code) =>
          job'[c].at = at /\ job'[c].id = id /\ job'[c].user = u /\ Others(c)
  <2> TAKE at \in JobStep, u \in Users, id \in Nat, code \in Nat
  <2> HAVE Goto(c, at, u, id, code)
  <2>1. job'[c] = [at |-> at, user |-> u, id |-> id, code |-> code] /\ Others(c)
    BY Moved DEF Others
  <2> QED
    BY <2>1
<1>a. [r EXCEPT !.used = TRUE] \in LoginVerification
  BY <1>s DEF LoginVerification
<1>b. [r EXCEPT !.attempts = @ + 1] \in LoginVerification
  BY <1>s, <1>n2 DEF LoginVerification
<1>d. [r EXCEPT !.tried = @ + 1] \in LoginVerification
  BY <1>s, <1>n2 DEF LoginVerification
<1> HIDE DEF Others, i, r
<1>1. ASSUME CloseChallenge(c) \/ ConsumeCode(c)
      PROVE  /\ Others(c) /\ (job'[c].at # "idle" => job'[c].id = i /\ job'[c].user = job[c].user)
             /\ \E e : Result(e) /\ challenges' = [challenges EXCEPT ![i] = e]
  <2>1. CASE CloseChallenge(c)
    <3>1. Others(c) /\ job'[c].at = "idle" /\ job[c].at = "close"
      BY <2>1, <1>z DEF CloseChallenge
    <3>2. challenges' = [challenges EXCEPT ![i] = [r EXCEPT !.used = TRUE]]
      BY <2>1 DEF CloseChallenge, i, r
    <3>3. Result([r EXCEPT !.used = TRUE])
      BY <3>1, <1>s, <1>a DEF RowEffect, Counts, LoginVerification
    <3> QED
      BY <3>1, <3>2, <3>3
  <2>2. CASE ConsumeCode(c) /\ ~r.used
    <3>1. /\ Others(c) /\ job'[c].at = "issue" /\ job[c].at = "consume"
          /\ job'[c].id = i /\ job'[c].user = job[c].user
      BY <2>2, <1>j, <1>m, PasswordKnown DEF ConsumeCode, Unconsumed, i, r
    <3>2. challenges' = [challenges EXCEPT ![i] = [r EXCEPT !.used = TRUE]]
      BY <2>2 DEF ConsumeCode, Unconsumed, i, r
    <3>3. Result([r EXCEPT !.used = TRUE])
      BY <2>2, <3>1, <1>s, <1>a DEF RowEffect, Counts, LoginVerification
    <3> QED
      BY <3>1, <3>2, <3>3
  <2>3. CASE ConsumeCode(c) /\ r.used
    <3>1. Others(c) /\ job'[c].at = "idle" /\ job[c].at = "consume"
      BY <2>3, <1>z DEF ConsumeCode, Unconsumed, i, r
    <3>2. challenges' = [challenges EXCEPT ![i] = r]
      BY <2>3, <1>s DEF ConsumeCode, Unconsumed, i, r
    <3>3. Result(r)
      BY <3>1, <1>s DEF RowEffect
    <3> QED
      BY <3>1, <3>2, <3>3
  <2> QED
    BY <1>1, <2>1, <2>2, <2>3
<1>2. ASSUME Reserve(c)
      PROVE  /\ Others(c) /\ (job'[c].at # "idle" => job'[c].id = i /\ job'[c].user = job[c].user)
             /\ \E e : Result(e) /\ challenges' = [challenges EXCEPT ![i] = e]
  <2>1. CASE MayTry(r)
    <3>1. /\ Others(c) /\ job'[c].at = "compare" /\ job[c].at = "reserve"
          /\ job'[c].id = i /\ job'[c].user = job[c].user
      BY <1>2, <2>1, <1>j, <1>m DEF Reserve, i, r
    <3>2. challenges' = [challenges EXCEPT ![i] = [r EXCEPT !.attempts = @ + 1]]
      BY <1>2, <2>1 DEF Reserve, i, r
    <3>3. Result([r EXCEPT !.attempts = @ + 1])
      BY <2>1, <3>1, <1>s, <1>n, <1>b DEF RowEffect, Counts, LoginVerification, MayTry
    <3> QED
      BY <3>1, <3>2, <3>3
  <2>2. CASE ~MayTry(r)
    <3>1. /\ Others(c) /\ job'[c].at = "close" /\ job[c].at = "reserve"
          /\ job'[c].id = i /\ job'[c].user = job[c].user
      BY <1>2, <2>2, <1>j, <1>m DEF Reserve, i, r
    <3>2. challenges' = [challenges EXCEPT ![i] = r]
      BY <1>2, <2>2, <1>s DEF Reserve, i, r
    <3>3. Result(r)
      BY <3>1, <1>s DEF RowEffect
    <3> QED
      BY <3>1, <3>2, <3>3
  <2> QED
    BY <2>1, <2>2
<1>3. ASSUME Compare(c)
      PROVE  /\ Others(c) /\ (job'[c].at # "idle" => job'[c].id = i /\ job'[c].user = job[c].user)
             /\ \E e : Result(e) /\ challenges' = [challenges EXCEPT ![i] = e]
  <2>1. /\ Others(c) /\ job'[c].at \in {"idle", "consume"} /\ job[c].at = "compare"
        /\ job'[c].at # "idle" => job'[c].id = i /\ job'[c].user = job[c].user
    <3>1. CASE challenges[job[c].id].code = job[c].code
      BY <1>3, <3>1, <1>j, <1>m DEF Compare, i
    <3>2. CASE challenges[job[c].id].code # job[c].code
      BY <1>3, <3>2, <1>z DEF Compare
    <3> QED
      BY <3>1, <3>2
  <2>2. challenges' = [challenges EXCEPT ![i] = [r EXCEPT !.tried = @ + 1]]
    BY <1>3 DEF Compare, i, r
  <2>3. Result([r EXCEPT !.tried = @ + 1])
    BY <2>1, <1>s, <1>n, <1>d DEF RowEffect, Counts, LoginVerification
  <2> QED
    BY <2>1, <2>2, <2>3
<1>4. ASSUME Regenerate(c)
      PROVE  /\ Others(c) /\ (job'[c].at # "idle" => job'[c].id = i /\ job'[c].user = job[c].user)
             /\ \E e : Result(e) /\ challenges' = [challenges EXCEPT ![i] = e]
  <2>1. Others(c) /\ job'[c].at = "idle" /\ job[c].at = "regenerate"
    BY <1>4, <1>z DEF Regenerate
  <2>2. challenges' = [challenges EXCEPT ![i] = Renewed(r)]
    BY <1>4 DEF Regenerate, i, r
  <2>3. Result(Renewed(r))
    BY <2>1, <1>s, RenewedFacts DEF RowEffect, Counts
  <2> QED
    BY <2>1, <2>2, <2>3
<1>5. /\ Others(c) /\ (job'[c].at # "idle" => job'[c].id = i /\ job'[c].user = job[c].user)
      /\ \E e : Result(e) /\ challenges' = [challenges EXCEPT ![i] = e]
  BY <1>1, <1>2, <1>3, <1>4 DEF OnRow
<1>6. PICK e : Result(e) /\ challenges' = [challenges EXCEPT ![i] = e]
  BY <1>5
<1>7. /\ DOMAIN challenges' = DOMAIN challenges /\ Len(challenges') = Len(challenges)
      /\ \A j \in DOMAIN challenges : challenges'[j] = IF j = i THEN e ELSE challenges[j]
  BY <1>6, <1>s, OneReplaced
<1>8. challenges'[i] = e
  BY <1>7 DEF i
<1>9. job[c].at \in {"close", "reserve", "compare", "consume", "regenerate"}
  BY DEF OnRow, CloseChallenge, Reserve, Compare, ConsumeCode, Regenerate
<1> QED
  <2>1. Others(c) /\ (job'[c].at # "idle" => job'[c].id = i /\ job'[c].user = job[c].user)
    BY <1>5
  <2>2. Result(challenges'[i])
    BY <1>6, <1>8
  <2>3. \A j \in DOMAIN challenges \ {i} : challenges'[j] = challenges[j]
    BY <1>7
  <2> QED
    BY <2>1, <2>2, <2>3, <1>7, <1>9 DEF i, r


-----------------------------------------------------------------------------
\* A call that is about to touch a challenge has found it.
RowKnown ==
  \A c \in AuthCalls :
    job[c].at \in {"close", "reserve", "compare", "consume", "regenerate"} =>
      job[c].id \in DOMAIN challenges

LEMMA KnownInit == SessionsInit => RowKnown
  BY SessionsAssumption DEF SessionsInit, RowKnown, NoJob

\* The precondition of RowSteps.
LEMMA OnKnownRow ==
  ASSUME RowKnown, NEW c \in AuthCalls, OnRow(c)
  PROVE  job[c].id \in DOMAIN challenges
  BY DEF RowKnown, OnRow, CloseChallenge, Reserve, Compare, ConsumeCode, Regenerate

LEMMA KnownNext ==
  ASSUME SessionsTypeOK, RowKnown, [SessionsNext]_sessionVars
  PROVE  RowKnown'
<1> USE DEF RowKnown, Others
<1>1. CASE challenges' = challenges /\ job' = job
  BY <1>1
<1>2. ASSUME NEW c \in AuthCalls, Quiet(c) PROVE RowKnown'
  BY <1>2, QuietSteps
<1>3. ASSUME NEW c \in AuthCalls, Invalidate(c) PROVE RowKnown'
  BY <1>3, InvalidateStep
<1>4. ASSUME NEW c \in AuthCalls, CreateChallenge(c) PROVE RowKnown'
  BY <1>4, CreateStep
<1>5. ASSUME NEW c \in AuthCalls, OnRow(c) PROVE RowKnown'
  <2>1. /\ job[c].id \in DOMAIN challenges /\ DOMAIN challenges' = DOMAIN challenges
        /\ Others(c) /\ (job'[c].at # "idle" => job'[c].id = job[c].id)
    BY <1>5, OnKnownRow, RowSteps
  <2> QED
    BY <2>1
<1> QED
  BY <1>1, <1>2, <1>3, <1>4, <1>5, EitherStep

-----------------------------------------------------------------------------
\* Why LoginClosesEarlier is inductive: what a login closed exists, and a
\* login that is about to create its challenge has closed what it followed.
ClosedInv ==
  /\ \A i \in DOMAIN challenges : challenges[i].after <= Len(challenges)
  /\ \A c \in AuthCalls : job[c].at = "create" =>
       /\ job[c].id <= Len(challenges)
       /\ \A j \in 1..job[c].id : challenges[j].user = job[c].user => challenges[j].used
  /\ LoginClosesEarlier

LEMMA ClosedInit == SessionsInit => ClosedInv
  BY SessionsAssumption DEF SessionsInit, ClosedInv, LoginClosesEarlier, NoJob

LEMMA ClosedNext ==
  ASSUME SessionsTypeOK, RowKnown, ClosedInv, [SessionsNext]_sessionVars
  PROVE  ClosedInv'
<1>s. /\ DOMAIN challenges = 1..Len(challenges) /\ Len(challenges) \in Nat
      /\ \A i \in DOMAIN challenges : challenges[i].after \in Nat
      /\ \A c \in AuthCalls : job[c].id \in Nat
  <2>1. \A i \in DOMAIN challenges : challenges[i] \in LoginVerification
    BY DEF SessionsTypeOK
  <2> QED
    BY <2>1 DEF SessionsTypeOK, LoginVerification, Job
<1>k. /\ Len(challenges) <= Len(challenges')
      /\ \A i \in DOMAIN challenges :
           /\ i \in DOMAIN challenges'
           /\ challenges'[i].user = challenges[i].user
           /\ challenges'[i].after = challenges[i].after
           /\ challenges[i].used => challenges'[i].used
  BY ChallengesKept
<1>l. Len(challenges') \in Nat
  BY TypeNext DEF SessionsTypeOK
\* The challenges are the same ones and no other login has closed any.
<1>a. ASSUME DOMAIN challenges' = DOMAIN challenges, Len(challenges') = Len(challenges),
             \A c \in AuthCalls : job'[c].at = "create" =>
               job'[c] = job[c]
      PROVE  ClosedInv'
  BY <1>a, <1>s, <1>k DEF ClosedInv, LoginClosesEarlier
<1>1. CASE challenges' = challenges /\ job' = job
  BY <1>1, <1>a
<1>2. ASSUME NEW c \in AuthCalls, Quiet(c) PROVE ClosedInv'
  BY <1>2, <1>a, QuietSteps DEF Others
<1>3. ASSUME NEW c \in AuthCalls, Invalidate(c) PROVE ClosedInv'
  <2>1. /\ Others(c) /\ DOMAIN challenges' = DOMAIN challenges
        /\ Len(challenges') = Len(challenges)
        /\ job'[c].at = "create" /\ job'[c].user = job[c].user
        /\ job'[c].id = Len(challenges)
        /\ \A i \in DOMAIN challenges : challenges[i].user = job[c].user => challenges'[i].used
    BY <1>3, InvalidateStep
  <2>2. \A i \in DOMAIN challenges' : challenges'[i].after <= Len(challenges')
    BY <2>1, <1>k DEF ClosedInv
  <2>3. LoginClosesEarlier'
    BY <2>1, <1>s, <1>k DEF ClosedInv, LoginClosesEarlier
  <2>4. ASSUME NEW d \in AuthCalls, job'[d].at = "create"
        PROVE  /\ job'[d].id <= Len(challenges')
               /\ \A j \in 1..job'[d].id :
                    challenges'[j].user = job'[d].user => challenges'[j].used
    <3>1. CASE d = c
      BY <3>1, <2>1, <1>s, <1>k
    <3>2. CASE d # c
      BY <3>2, <2>1, <2>4, <1>s, <1>k DEF ClosedInv, Others
    <3> QED
      BY <3>1, <3>2
  <2> QED
    BY <2>2, <2>3, <2>4 DEF ClosedInv
<1>4. ASSUME NEW c \in AuthCalls, CreateChallenge(c) PROVE ClosedInv'
  <2> DEFINE n == Len(challenges) + 1
  <2>1. /\ Others(c) /\ job[c].at = "create" /\ job'[c].at = "idle"
        /\ DOMAIN challenges' = DOMAIN challenges \cup {n} /\ Len(challenges') = n
        /\ challenges'[n].user = job[c].user /\ challenges'[n].after = job[c].id
        /\ \A i \in DOMAIN challenges : challenges'[i] = challenges[i]
    BY <1>4, CreateStep
  <2>2. \A i \in DOMAIN challenges' : challenges'[i].after <= Len(challenges')
    BY <2>1, <1>s DEF ClosedInv
  <2>3. ASSUME NEW i \in DOMAIN challenges', NEW j \in 1..challenges'[i].after,
               challenges'[j].user = challenges'[i].user
        PROVE  challenges'[j].used
    <3>1. CASE i = n
      BY <2>1, <2>3, <3>1, <1>s DEF ClosedInv
    <3>2. CASE i # n
      BY <2>1, <2>3, <3>2, <1>s DEF ClosedInv, LoginClosesEarlier
    <3> QED
      BY <3>1, <3>2
  <2>4. ASSUME NEW d \in AuthCalls, job'[d].at = "create"
        PROVE  /\ job'[d].id <= Len(challenges')
               /\ \A j \in 1..job'[d].id :
                    challenges'[j].user = job'[d].user => challenges'[j].used
    BY <2>1, <2>4, <1>s DEF ClosedInv, Others
  <2> QED
    BY <2>2, <2>3, <2>4 DEF ClosedInv, LoginClosesEarlier
<1>5. ASSUME NEW c \in AuthCalls, OnRow(c) PROVE ClosedInv'
  <2>1. /\ DOMAIN challenges' = DOMAIN challenges /\ Len(challenges') = Len(challenges)
        /\ Others(c)
        /\ job'[c].at \in {"idle", "close", "issue", "compare", "consume"}
    BY <1>5, OnKnownRow, RowSteps DEF RowEffect
  <2> QED
    BY <2>1, <1>a DEF Others
<1> QED
  BY <1>1, <1>2, <1>3, <1>4, <1>5, EitherStep

(* A login closes for good what was in progress when it closed: no resend  *)
(* or verification that was already under way reopens it                   *)
(* (auth.service.ts:341-350).                                              *)
THEOREM EarlierStayClosed == SessionsSpec => []LoginClosesEarlier
<1>1. SessionsInit => SessionsTypeOK /\ RowKnown /\ ClosedInv
  BY TypeInit, KnownInit, ClosedInit
<1>2. SessionsTypeOK /\ RowKnown /\ ClosedInv /\ [SessionsNext]_sessionVars
        => (SessionsTypeOK /\ RowKnown /\ ClosedInv)'
  BY TypeNext, KnownNext, ClosedNext
<1>3. ClosedInv => LoginClosesEarlier
  BY DEF ClosedInv
<1> QED
  BY <1>1, <1>2, <1>3, PTL DEF SessionsSpec


-----------------------------------------------------------------------------
\* Why TriesBounded is inductive: a comparison under way has been counted
\* before it is made, in the attempts of the code that is current now.
Comparing(i) == {c \in AuthCalls : job[c].at = "compare" /\ job[c].id = i}

TriesInv ==
  \A i \in DOMAIN challenges :
    /\ challenges[i].code >= 1
    /\ challenges[i].attempts <= MaxAttempts
    /\ challenges[i].tried + Cardinality(Comparing(i))
         <= MaxAttempts * (challenges[i].code - 1) + challenges[i].attempts

LEMMA ComparingFinite ==
  ASSUME NEW i
  PROVE  /\ IsFiniteSet(Comparing(i)) /\ Cardinality(Comparing(i)) \in Nat
         /\ IsFiniteSet(Comparing(i)') /\ Cardinality(Comparing(i)') \in Nat
<1>1. Comparing(i) \subseteq AuthCalls /\ Comparing(i)' \subseteq AuthCalls
  BY DEF Comparing
<1> QED
  BY <1>1, SessionsAssumption, FS_Subset, FS_CardinalityType

\* Calls that stop comparing, or never did, leave the room they had taken.
LEMMA ComparingShrinks ==
  ASSUME NEW i, Comparing(i)' \subseteq Comparing(i)
  PROVE  Cardinality(Comparing(i)') <= Cardinality(Comparing(i))
  BY ComparingFinite, FS_Subset

LEMMA TriesInit == SessionsInit => TriesInv
  BY DEF SessionsInit, TriesInv

\* An unused code more is worth MaxAttempts comparisons more.
LEMMA OneCodeMore ==
  ASSUME NEW k \in Nat, k >= 1
  PROVE  /\ MaxAttempts * (k - 1) \in Nat
         /\ MaxAttempts * ((k + 1) - 1) = MaxAttempts * (k - 1) + MaxAttempts
         /\ MaxAttempts * k = MaxAttempts * (k - 1) + MaxAttempts
<1> DEFINE p == k - 1
<1>1. MaxAttempts \in Nat /\ p \in Nat /\ k = p + 1 /\ (k + 1) - 1 = p + 1
  BY SessionsAssumption
<1>2. MaxAttempts * (p + 1) = MaxAttempts * p + MaxAttempts /\ MaxAttempts * p \in Nat
  BY <1>1
<1> HIDE DEF p
<1> QED
  BY <1>1, <1>2 DEF p

LEMMA TriesNext ==
  ASSUME SessionsTypeOK, RowKnown, TriesInv, [SessionsNext]_sessionVars
  PROVE  TriesInv'
<1>s. /\ MaxAttempts \in Nat
      /\ \A i \in DOMAIN challenges :
           /\ challenges[i].code \in Nat /\ challenges[i].tried \in Nat
           /\ challenges[i].attempts \in Nat
           /\ MaxAttempts * (challenges[i].code - 1) \in Nat
  <2>1. \A i \in DOMAIN challenges : challenges[i] \in LoginVerification
    BY DEF SessionsTypeOK
  <2>2. \A i \in DOMAIN challenges : challenges[i].code \in Nat /\ challenges[i].code >= 1
    BY <2>1 DEF LoginVerification, TriesInv
  <2> QED
    BY <2>1, <2>2, OneCodeMore, SessionsAssumption DEF LoginVerification
<1>f. \A i : Cardinality(Comparing(i)) \in Nat /\ Cardinality(Comparing(i)') \in Nat
  BY ComparingFinite
\* A row whose counters do not change, and on which nobody new compares.
<1>a. ASSUME NEW i \in DOMAIN challenges, Counts(challenges'[i]) = Counts(challenges[i]),
             Comparing(i)' \subseteq Comparing(i)
      PROVE  /\ challenges'[i].code >= 1 /\ challenges'[i].attempts <= MaxAttempts
             /\ challenges'[i].tried + Cardinality(Comparing(i)')
                  <= MaxAttempts * (challenges'[i].code - 1) + challenges'[i].attempts
  <2>1. /\ challenges'[i].code = challenges[i].code
        /\ challenges'[i].tried = challenges[i].tried
        /\ challenges'[i].attempts = challenges[i].attempts
    BY <1>a DEF Counts
  <2>2. Cardinality(Comparing(i)') <= Cardinality(Comparing(i))
    BY <1>a, ComparingShrinks
  <2>3. /\ challenges[i].code >= 1 /\ challenges[i].attempts <= MaxAttempts
        /\ challenges[i].tried + Cardinality(Comparing(i))
             <= MaxAttempts * (challenges[i].code - 1) + challenges[i].attempts
    BY DEF TriesInv
  <2> DEFINE m == MaxAttempts * (challenges[i].code - 1)
  <2>4. m \in Nat
    BY <1>s
  <2>5. MaxAttempts * (challenges'[i].code - 1) = m
    BY <2>1
  <2> HIDE DEF m
  <2>6. challenges[i].tried + Cardinality(Comparing(i)) <= m + challenges[i].attempts
    BY <2>3 DEF m
  <2>7. challenges[i].tried + Cardinality(Comparing(i)') <= m + challenges[i].attempts
    BY <2>2, <2>4, <2>6, <1>s, <1>f
  <2> QED
    BY <2>1, <2>3, <2>5, <2>7
<1>1. CASE challenges' = challenges /\ job' = job
  <2>1. \A i : Comparing(i)' = Comparing(i)
    BY <1>1 DEF Comparing
  <2> QED
    BY <1>1, <2>1, <1>a DEF TriesInv
<1>2. ASSUME NEW c \in AuthCalls, Quiet(c) PROVE TriesInv'
  <2>1. challenges' = challenges /\ Others(c) /\ job'[c].at # "compare"
    BY <1>2, QuietSteps
  <2>2. \A i : Comparing(i)' \subseteq Comparing(i)
    BY <2>1 DEF Comparing, Others
  <2> QED
    BY <2>1, <2>2, <1>a DEF TriesInv
<1>3. ASSUME NEW c \in AuthCalls, Invalidate(c) PROVE TriesInv'
  <2>1. /\ DOMAIN challenges' = DOMAIN challenges /\ Others(c) /\ job'[c].at = "create"
        /\ \A i \in DOMAIN challenges : Counts(challenges'[i]) = Counts(challenges[i])
    BY <1>3, InvalidateStep DEF Counts
  <2>2. \A i : Comparing(i)' \subseteq Comparing(i)
    BY <2>1 DEF Comparing, Others
  <2> QED
    BY <2>1, <2>2, <1>a DEF TriesInv
<1>4. ASSUME NEW c \in AuthCalls, CreateChallenge(c) PROVE TriesInv'
  <2> PICK n : n = Len(challenges) + 1
    OBVIOUS
  <2>1. /\ Others(c) /\ job'[c].at = "idle" /\ n \notin DOMAIN challenges
        /\ DOMAIN challenges' = DOMAIN challenges \cup {n}
        /\ \A i \in DOMAIN challenges : challenges'[i] = challenges[i]
        /\ challenges'[n].code = 1 /\ challenges'[n].tried = 0 /\ challenges'[n].attempts = 0
    BY <1>4, CreateStep
  <2>2. \A i : Comparing(i)' \subseteq Comparing(i)
    BY <2>1 DEF Comparing, Others
  <2>3. Comparing(n)' = {}
    BY SMTT(30), <2>1, <2>2 DEF Comparing, RowKnown
  <2>4. ASSUME NEW i \in DOMAIN challenges'
        PROVE  /\ challenges'[i].code >= 1 /\ challenges'[i].attempts <= MaxAttempts
               /\ challenges'[i].tried + Cardinality(Comparing(i)')
                    <= MaxAttempts * (challenges'[i].code - 1) + challenges'[i].attempts
    <3>1. CASE i = n
      <4>1. Cardinality(Comparing(i)') = 0
        BY <2>3, <3>1, FS_EmptySet
      <4>2. MaxAttempts * (1 - 1) = 0
        BY <1>s
      <4> QED
        BY <2>1, <3>1, <4>1, <4>2, <1>s
    <3>2. CASE i # n
      <4>1. i \in DOMAIN challenges /\ Counts(challenges'[i]) = Counts(challenges[i])
        BY <2>1, <3>2
      <4> QED
        BY <4>1, <2>2, <1>a
    <3> QED
      BY <3>1, <3>2
  <2> QED
    BY <2>4 DEF TriesInv
<1>5. ASSUME NEW c \in AuthCalls, OnRow(c) PROVE TriesInv'
  <2> PICK k, r, e : k = job[c].id /\ r = challenges[k] /\ e = challenges'[k]
    OBVIOUS
  <2>1. /\ k \in DOMAIN challenges /\ DOMAIN challenges' = DOMAIN challenges
        /\ Others(c) /\ RowEffect(c, r, e)
        /\ \A i \in DOMAIN challenges \ {k} : challenges'[i] = challenges[i]
        /\ (job'[c].at # "idle" => job'[c].id = k)
    BY <1>5, OnKnownRow, RowSteps
  <2>2. \A i : i # k => Comparing(i)' \subseteq Comparing(i)
    BY <2>1 DEF Comparing, Others
  <2>3. /\ r.code \in Nat /\ r.tried \in Nat /\ r.attempts \in Nat
        /\ r.code >= 1 /\ r.attempts <= MaxAttempts
        /\ r.tried + Cardinality(Comparing(k)) <= MaxAttempts * (r.code - 1) + r.attempts
    BY <2>1, <1>s DEF TriesInv
  <2> DEFINE m == MaxAttempts * (r.code - 1)
  <2>m. m \in Nat /\ MaxAttempts * ((r.code + 1) - 1) = m + MaxAttempts
    BY <2>3, OneCodeMore
  <2>n. r.tried + Cardinality(Comparing(k)) <= m + r.attempts
    BY <2>3
  <2> DEFINE Fine ==
        /\ e.code >= 1 /\ e.attempts <= MaxAttempts
        /\ e.tried + Cardinality(Comparing(k)') <= MaxAttempts * (e.code - 1) + e.attempts
  <2>4. ASSUME job[c].at # "compare", job'[c].at \in {"idle", "close", "issue"},
               Counts(e) = Counts(r)
        PROVE  Fine
    <3>1. Comparing(k)' \subseteq Comparing(k)
      BY <2>1, <2>4 DEF Comparing, Others
    <3>2. Fine
      BY <2>1, <2>4, <3>1, <1>a
    <3> QED
      BY <3>2
  <2>5. ASSUME job[c].at = "reserve", job'[c].at = "compare", r.attempts < MaxAttempts,
               Counts(e) = <<r.code, r.tried, r.attempts + 1>>
        PROVE  Fine
    <3>1. e.code = r.code /\ e.tried = r.tried /\ e.attempts = r.attempts + 1
      BY <2>5 DEF Counts
    <3>2. Comparing(k)' = Comparing(k) \cup {c} /\ c \notin Comparing(k)
      BY <2>1, <2>5 DEF Comparing, Others
    <3>3. Cardinality(Comparing(k)') = Cardinality(Comparing(k)) + 1
      BY <3>2, ComparingFinite, FS_AddElement
    <3>4. MaxAttempts * (e.code - 1) = m
      BY <3>1
    <3> HIDE DEF m
    <3> QED
      BY <2>3, <2>5, <2>m, <2>n, <3>1, <3>3, <3>4, <1>s, <1>f
  <2>6. ASSUME job[c].at = "compare", job'[c].at \in {"idle", "consume"},
               Counts(e) = <<r.code, r.tried + 1, r.attempts>>
        PROVE  Fine
    <3>1. e.code = r.code /\ e.tried = r.tried + 1 /\ e.attempts = r.attempts
      BY <2>6 DEF Counts
    <3>2. Comparing(k)' = Comparing(k) \ {c} /\ c \in Comparing(k)
      BY <2>1, <2>6 DEF Comparing, Others
    <3>3. Cardinality(Comparing(k)') = Cardinality(Comparing(k)) - 1
      BY <3>2, ComparingFinite, FS_RemoveElement
    <3>4. MaxAttempts * (e.code - 1) = m
      BY <3>1
    <3> HIDE DEF m
    <3> QED
      BY <2>3, <2>m, <2>n, <3>1, <3>3, <3>4, <1>s, <1>f
  <2>7. ASSUME job[c].at = "regenerate", job'[c].at = "idle",
               Counts(e) = <<r.code + 1, r.tried, 0>>
        PROVE  Fine
    <3>1. e.code = r.code + 1 /\ e.tried = r.tried /\ e.attempts = 0
      BY <2>7 DEF Counts
    <3>2. Comparing(k)' \subseteq Comparing(k)
      BY <2>1, <2>7 DEF Comparing, Others
    <3>3. Cardinality(Comparing(k)') <= Cardinality(Comparing(k))
      BY <3>2, ComparingShrinks
    <3>4. MaxAttempts * (e.code - 1) = m + MaxAttempts
      BY <3>1, <2>m
    <3> HIDE DEF m
    <3> QED
      BY <2>3, <2>m, <2>n, <3>1, <3>3, <3>4, <1>s, <1>f
  <2>8. Fine
    BY <2>1, <2>4, <2>5, <2>6, <2>7 DEF RowEffect
  <2>9. ASSUME NEW i \in DOMAIN challenges'
        PROVE  /\ challenges'[i].code >= 1 /\ challenges'[i].attempts <= MaxAttempts
               /\ challenges'[i].tried + Cardinality(Comparing(i)')
                    <= MaxAttempts * (challenges'[i].code - 1) + challenges'[i].attempts
    <3>1. CASE i = k
      BY <2>8, <3>1
    <3>2. CASE i # k
      <4>1. i \in DOMAIN challenges /\ Counts(challenges'[i]) = Counts(challenges[i])
        BY <2>1, <3>2
      <4> QED
        BY <4>1, <3>2, <2>2, <1>a
    <3> QED
      BY <3>1, <3>2
  <2> QED
    BY <2>9 DEF TriesInv
<1> QED
  BY <1>1, <1>2, <1>3, <1>4, <1>5, EitherStep

(* Whatever verifications and resends interleave, no challenge has more    *)
(* codes compared than MaxAttempts for each code sent                      *)
(* (auth.service.ts:176-178).                                              *)
THEOREM AttemptsBound == SessionsSpec => []TriesBounded
<1>1. SessionsInit => SessionsTypeOK /\ RowKnown /\ TriesInv
  BY TypeInit, KnownInit, TriesInit
<1>2. SessionsTypeOK /\ RowKnown /\ TriesInv /\ [SessionsNext]_sessionVars
        => (SessionsTypeOK /\ RowKnown /\ TriesInv)'
  BY TypeNext, KnownNext, TriesNext
<1>3. SessionsTypeOK /\ TriesInv => TriesBounded
  <2> SUFFICES ASSUME SessionsTypeOK, TriesInv, NEW i \in DOMAIN challenges
               PROVE  challenges[i].tried <= MaxAttempts * challenges[i].code
    BY DEF TriesBounded
  <2>1. challenges[i] \in LoginVerification
    BY DEF SessionsTypeOK
  <2>2. /\ challenges[i].tried \in Nat /\ challenges[i].code \in Nat
        /\ challenges[i].attempts \in Nat
    BY <2>1 DEF LoginVerification
  <2>3. /\ challenges[i].code >= 1 /\ challenges[i].attempts <= MaxAttempts
        /\ challenges[i].tried + Cardinality(Comparing(i))
             <= MaxAttempts * (challenges[i].code - 1) + challenges[i].attempts
    BY DEF TriesInv
  <2> DEFINE m == MaxAttempts * (challenges[i].code - 1)
  <2>4. m \in Nat /\ MaxAttempts * challenges[i].code = m + MaxAttempts /\ MaxAttempts \in Nat
    BY <2>2, <2>3, OneCodeMore, SessionsAssumption
  <2>5. Cardinality(Comparing(i)) \in Nat
    BY ComparingFinite
  <2>6. challenges[i].tried + Cardinality(Comparing(i)) <= m + challenges[i].attempts
    BY <2>3
  <2> HIDE DEF m
  <2>7. challenges[i].tried <= m + MaxAttempts
    BY <2>2, <2>3, <2>4, <2>5, <2>6
  <2> QED
    BY <2>4, <2>7
<1> QED
  BY <1>1, <1>2, <1>3, PTL DEF SessionsSpec


-----------------------------------------------------------------------------
\* Sessions are only added, or revoked: nothing else of them changes.
SameSessions ==
  /\ DOMAIN refreshTokens' = DOMAIN refreshTokens
  /\ \A i \in DOMAIN refreshTokens :
       /\ refreshTokens'[i].user = refreshTokens[i].user
       /\ refreshTokens'[i].from = refreshTokens[i].from
       /\ refreshTokens'[i].issued = refreshTokens[i].issued
       /\ refreshTokens'[i].until = refreshTokens[i].until
       /\ refreshTokens[i].revoked => refreshTokens'[i].revoked

LEMMA OneRevoked ==
  ASSUME SessionsTypeOK, NEW i,
         refreshTokens' = [refreshTokens EXCEPT ![i].revoked = TRUE]
  PROVE  SameSessions
<1>s. refreshTokens \in Seq(RefreshToken)
  BY DEF SessionsTypeOK
<1>1. \A j \in DOMAIN refreshTokens : refreshTokens[j] \in RefreshToken
  BY <1>s
<1>2. i \in DOMAIN refreshTokens =>
        LET r == refreshTokens[i]
            e == [r EXCEPT !.revoked = TRUE] IN
        /\ e \in RefreshToken /\ e.user = r.user /\ e.from = r.from /\ e.issued = r.issued
        /\ e.until = r.until /\ e.revoked
  BY <1>1 DEF RefreshToken
<1> DEFINE e == [refreshTokens[i] EXCEPT !.revoked = TRUE]
<1>3. /\ DOMAIN refreshTokens' = DOMAIN refreshTokens
      /\ \A j \in DOMAIN refreshTokens :
           refreshTokens'[j] = IF j = i THEN e ELSE refreshTokens[j]
  <2>1. refreshTokens' = [refreshTokens EXCEPT ![i] = e]
    OBVIOUS
  <2>2. i \in DOMAIN refreshTokens => e \in RefreshToken
    BY <1>2
  <2> HIDE DEF e
  <2> QED
    BY <1>s, <2>1, <2>2, OneReplaced
<1>4. ASSUME NEW j \in DOMAIN refreshTokens
      PROVE  /\ refreshTokens'[j].user = refreshTokens[j].user
             /\ refreshTokens'[j].from = refreshTokens[j].from
             /\ refreshTokens'[j].issued = refreshTokens[j].issued
             /\ refreshTokens'[j].until = refreshTokens[j].until
             /\ refreshTokens[j].revoked => refreshTokens'[j].revoked
  <2>1. CASE j = i
    BY <2>1, <1>2, <1>3
  <2>2. CASE j # i
    BY <2>2, <1>3
  <2> QED
    BY <2>1, <2>2
<1> QED
  BY <1>3, <1>4 DEF SameSessions

\* A reset of the password revokes the sessions that its last UPDATE saw.
LEMMA CommitStep ==
  ASSUME SessionsTypeOK, NEW c \in AuthCalls, CommitReset(c)
  PROVE  /\ SameSessions
         /\ job[c].at = "commit" /\ job'[c].at = "idle" /\ Others(c)
         /\ \A i \in DOMAIN refreshTokens :
              ClosedByReset(c, i) => refreshTokens'[i].revoked
         /\ password'[job[c].user] = password[job[c].user] + 1
         /\ \A u \in Users : u # job[c].user => password'[u] = password[u]
<1>s. /\ refreshTokens \in Seq(RefreshToken)
      /\ \A i \in DOMAIN refreshTokens : refreshTokens[i] \in RefreshToken
      /\ password \in [Users -> Nat] /\ job[c].user \in Users
  BY DEF SessionsTypeOK, Job
<1>1. refreshTokens' \in [DOMAIN refreshTokens -> RefreshToken]
  BY <1>s DEF CommitReset, RefreshToken
<1>2. DOMAIN refreshTokens' = DOMAIN refreshTokens
  BY <1>s, <1>1, Replaced
<1>3. SameSessions
  BY <1>s, <1>2 DEF CommitReset, SameSessions, RefreshToken
<1>4. \A i \in DOMAIN refreshTokens : ClosedByReset(c, i) => refreshTokens'[i].revoked
  BY <1>s, <1>2 DEF CommitReset, RefreshToken
<1>5. job[c].at = "commit" /\ job'[c].at = "idle" /\ Others(c)
  BY Moved DEF CommitReset, Others
<1>6. password' = [password EXCEPT ![job[c].user] = @ + 1]
  BY DEF CommitReset
<1>7. /\ password'[job[c].user] = password[job[c].user] + 1
      /\ \A u \in Users : u # job[c].user => password'[u] = password[u]
  BY <1>s, <1>6
<1> QED
  BY <1>3, <1>4, <1>5, <1>7

\* A session is added under the password that its call began with.
LEMMA IssueStep ==
  ASSUME SessionsTypeOK, NEW c \in AuthCalls, Issue(c)
  PROVE  LET n == Len(refreshTokens) + 1 IN
         /\ job[c].at = "issue" /\ job'[c].at = "idle" /\ Others(c)
         /\ n \notin DOMAIN refreshTokens
         /\ DOMAIN refreshTokens' = DOMAIN refreshTokens \cup {n}
         /\ \A i \in DOMAIN refreshTokens : refreshTokens'[i] = refreshTokens[i]
         /\ refreshTokens'[n].from = job[c].id /\ refreshTokens'[n].user = job[c].user
         /\ refreshTokens'[n].issued = job[c].code /\ password' = password
         /\ refreshTokens'[n].until = MayLast(job[c].user)
<1> PICK last : last = MayLast(job[c].user)
  OBVIOUS
<1> DEFINE e == [user |-> job[c].user, revoked |-> FALSE, expires |-> clock + RefreshLife,
                 issued |-> job[c].code, until |-> last, from |-> job[c].id]
<1>0. /\ job[c].user \in Users /\ job[c].id \in Nat /\ job[c].code \in Nat /\ clock \in Nat /\ RefreshLife \in Nat
      /\ refreshTokens \in Seq(RefreshToken) /\ Len(refreshTokens) + 1 \in Nat
  BY SMTT(30), SessionsAssumption DEF SessionsTypeOK, Job
<1>1. last \in Nat
  BY <1>0 DEF SessionsTypeOK, MayLast
<1>2. e \in RefreshToken
  BY <1>0, <1>1 DEF RefreshToken
<1>3. refreshTokens' = Append(refreshTokens, e) /\ job[c].at = "issue" /\ password' = password
  BY DEF Issue
<1>4. Others(c) /\ job'[c].at = "idle"
  BY <1>0, Moved DEF Issue, Others
<1>5. /\ e.user = job[c].user /\ e.from = job[c].id /\ e.issued = job[c].code
      /\ e.until = last
  OBVIOUS
<1> HIDE DEF e
<1> QED
  BY <1>0, <1>2, <1>3, <1>4, <1>5, Appended

LEMMA SessionSteps ==
  ASSUME SessionsTypeOK, [SessionsNext]_sessionVars
  PROVE  \/ SameSessions /\ password' = password
         \/ \E c \in AuthCalls : Issue(c) \/ CommitReset(c)
<1>1. \/ UNCHANGED <<refreshTokens, password>>
      \/ \E i \in DOMAIN refreshTokens : Logout(i)
      \/ \E c \in AuthCalls : Revoke(c) \/ Issue(c) \/ CommitReset(c)
  BY DEF SessionsNext, ChallengeNext, TokenNext, LoginSteps, LinkSteps, TokenSteps, sessionVars,
         Login, Invalidate, CreateChallenge, Verify, CloseChallenge, Reserve, Compare,
         ConsumeCode, Resend, Regenerate, CrashCall, TickSessions, FollowLink, ResetPassword,
         SweepSessions, VerifyEmail, OpenSession, RefreshReads, SendLink
<1>2. CASE UNCHANGED <<refreshTokens, password>>
  BY <1>2 DEF SameSessions
<1>3. CASE \E i \in DOMAIN refreshTokens : Logout(i)
  BY <1>3, OneRevoked DEF Logout
<1>4. CASE \E c \in AuthCalls : Revoke(c)
  BY <1>4, OneRevoked DEF Revoke
<1> QED
  BY <1>1, <1>2, <1>3, <1>4

\* Nobody but a reset enters the transaction of a reset.
LEMMA ResetJobs ==
  ASSUME SessionsTypeOK, [SessionsNext]_sessionVars
  PROVE  \/ \E c \in AuthCalls : ResetPassword(c) \/ SweepSessions(c)
         \/ \A d \in AuthCalls : job'[d] = job[d] \/ job'[d].at \notin {"sweep", "commit"}
<1> DEFINE Elsewhere ==
      \A d \in AuthCalls : job'[d] = job[d] \/ job'[d].at \notin {"sweep", "commit"}
<1>j. job \in [AuthCalls -> Job]
  BY DEF SessionsTypeOK
<1>g. ASSUME NEW c \in AuthCalls, NEW at \in JobStep \ {"sweep", "commit"},
             NEW u, NEW id, NEW code, Goto(c, at, u, id, code)
      PROVE  Elsewhere
  BY <1>g, <1>j DEF Goto
<1>a. ASSUME NEW c \in AuthCalls, NEW id, Answer(c, id) PROVE Elsewhere
  <2>1. [NoJob EXCEPT !.id = id].at = "idle"
    BY DEF NoJob
  <2> QED
    BY <1>a, <2>1, <1>j DEF Answer
<1> HIDE DEF Elsewhere
<1>1. ASSUME NEW c \in AuthCalls,
             \/ Login(c) \/ Invalidate(c) \/ CreateChallenge(c) \/ CloseChallenge(c)
             \/ Reserve(c) \/ Compare(c) \/ ConsumeCode(c) \/ Regenerate(c)
      PROVE  Elsewhere
  BY <1>1, <1>g, <1>a DEF JobStep, Login, Invalidate, CreateChallenge, CloseChallenge, Reserve,
                          Compare, ConsumeCode, Regenerate
<1>2. ASSUME NEW c \in AuthCalls, Verify(c) \/ Resend(c) PROVE Elsewhere
  <2>1. PICK i \in DOMAIN challenges, at \in {"close", "reserve", "regenerate"} :
          \E u, code : Goto(c, at, u, i, code)
    BY <1>2 DEF Verify, Resend
  <2>2. PICK u, code : Goto(c, at, u, i, code)
    BY <2>1
  <2> QED
    BY <2>2, <1>g DEF JobStep
<1>3. ASSUME NEW c \in AuthCalls, FollowLink(c) PROVE Elsewhere
  <2>1. PICK i \in DOMAIN links, at \in {"reset", "confirm"} : Goto(c, at, links[i].user, i, 0)
    BY <1>3 DEF FollowLink
  <2> QED
    BY <2>1, <1>g DEF JobStep
<1>4. ASSUME NEW c \in AuthCalls,
             \/ CommitReset(c) \/ VerifyEmail(c) \/ OpenSession(c) \/ Issue(c) \/ Revoke(c)
             \/ CrashCall(c) \/ \E i \in DOMAIN refreshTokens : RefreshReads(c, i)
      PROVE  Elsewhere
  BY <1>4, <1>g, <1>a DEF JobStep, CommitReset, VerifyEmail, OpenSession, Issue, Revoke, CrashCall,
                          RefreshReads
<1>5. ASSUME job' = job PROVE Elsewhere
  BY <1>5 DEF Elsewhere
<1>6. \/ \E c \in AuthCalls :
           \/ LoginSteps(c) \/ LinkSteps(c) \/ TokenSteps(c) \/ OpenSession(c) \/ CrashCall(c)
           \/ \E i \in DOMAIN refreshTokens : RefreshReads(c, i)
      \/ job' = job
  BY DEF SessionsNext, ChallengeNext, TokenNext, TokenSteps, Logout, SendLink, TickSessions,
         sessionVars
<1>7. Elsewhere \/ \E c \in AuthCalls : ResetPassword(c) \/ SweepSessions(c)
  BY <1>1, <1>2, <1>3, <1>4, <1>5, <1>6 DEF LoginSteps, LinkSteps, TokenSteps
<1> QED
  BY <1>7 DEF Elsewhere

\* A call that issues a token knows the password it began with.
LEMMA IssuingJobs ==
  ASSUME SessionsTypeOK, [SessionsNext]_sessionVars
  PROVE  \A d \in AuthCalls :
           \/ job'[d] = job[d]
           \/ job'[d].at \notin {"revoke", "issue"}
           \/ job'[d].code = password[job'[d].user]
           \/ /\ job[d].at = "revoke"
              /\ job'[d].user = job[d].user /\ job'[d].code = job[d].code
<1> DEFINE Known ==
      \A d \in AuthCalls :
        \/ job'[d] = job[d]
        \/ job'[d].at \notin {"revoke", "issue"}
        \/ job'[d].code = password[job'[d].user]
        \/ /\ job[d].at = "revoke"
           /\ job'[d].user = job[d].user /\ job'[d].code = job[d].code
<1>j. job \in [AuthCalls -> Job]
  BY DEF SessionsTypeOK
<1>g. ASSUME NEW c \in AuthCalls, NEW at \in JobStep \ {"revoke", "issue"},
             NEW u, NEW id, NEW code, Goto(c, at, u, id, code)
      PROVE  Known
  BY <1>g, <1>j DEF Goto
<1>i. ASSUME NEW c \in AuthCalls, NEW at, NEW u, NEW id, Goto(c, at, u, id, password[u])
      PROVE  Known
  BY <1>i, <1>j DEF Goto
<1>a. ASSUME NEW c \in AuthCalls, NEW id, Answer(c, id) PROVE Known
  <2>1. [NoJob EXCEPT !.id = id].at = "idle"
    BY DEF NoJob
  <2> QED
    BY <1>a, <2>1, <1>j DEF Answer
<1>r. ASSUME NEW c \in AuthCalls, Revoke(c) PROVE Known
  BY <1>r, <1>j DEF Revoke, Goto
<1> HIDE DEF Known
<1>1. ASSUME NEW c \in AuthCalls,
             \/ Login(c) \/ Invalidate(c) \/ CreateChallenge(c) \/ CloseChallenge(c)
             \/ Reserve(c) \/ Compare(c) \/ Regenerate(c)
      PROVE  Known
  BY <1>1, <1>g, <1>a DEF JobStep, Login, Invalidate, CreateChallenge, CloseChallenge, Reserve,
                          Compare, Regenerate
<1>2. ASSUME NEW c \in AuthCalls, Verify(c) \/ Resend(c) PROVE Known
  <2>1. PICK i \in DOMAIN challenges, at \in {"close", "reserve", "regenerate"} :
          \E u, code : Goto(c, at, u, i, code)
    BY <1>2 DEF Verify, Resend
  <2>2. PICK u, code : Goto(c, at, u, i, code)
    BY <2>1
  <2> QED
    BY <2>2, <1>g DEF JobStep
<1>3. ASSUME NEW c \in AuthCalls, FollowLink(c) PROVE Known
  <2>1. PICK i \in DOMAIN links, at \in {"reset", "confirm"} : Goto(c, at, links[i].user, i, 0)
    BY <1>3 DEF FollowLink
  <2> QED
    BY <2>1, <1>g DEF JobStep
<1>4. ASSUME NEW c \in AuthCalls,
             \/ ResetPassword(c) \/ SweepSessions(c) \/ CommitReset(c) \/ VerifyEmail(c)
             \/ Issue(c) \/ CrashCall(c)
      PROVE  Known
  BY <1>4, <1>g, <1>a DEF JobStep, ResetPassword, SweepSessions, CommitReset, VerifyEmail, Issue,
                          CrashCall
<1>5. ASSUME NEW c \in AuthCalls,
             \/ ConsumeCode(c) \/ OpenSession(c)
             \/ \E i \in DOMAIN refreshTokens : RefreshReads(c, i)
      PROVE  Known
  BY <1>5, <1>i, <1>a DEF ConsumeCode, OpenSession, RefreshReads
<1>6. ASSUME job' = job PROVE Known
  BY <1>6 DEF Known
<1>7. \/ \E c \in AuthCalls :
           \/ LoginSteps(c) \/ LinkSteps(c) \/ TokenSteps(c) \/ OpenSession(c) \/ CrashCall(c)
           \/ \E i \in DOMAIN refreshTokens : RefreshReads(c, i)
      \/ job' = job
  BY DEF SessionsNext, ChallengeNext, TokenNext, TokenSteps, Logout, SendLink, TickSessions,
         sessionVars
<1>8. Known
  BY <1>1, <1>2, <1>3, <1>4, <1>5, <1>6, <1>7, <1>r DEF LoginSteps, LinkSteps, TokenSteps
<1> QED
  BY <1>8 DEF Known

\* No token, and no call about to issue one, knows a password yet to come.
PastKnown ==
  /\ \A i \in DOMAIN refreshTokens : refreshTokens[i].issued <= password[refreshTokens[i].user]
  /\ \A c \in AuthCalls : job[c].at \in {"revoke", "issue"} => job[c].code <= password[job[c].user]

LEMMA PastInit == SessionsInit => PastKnown
  BY DEF SessionsInit, PastKnown, NoJob

LEMMA PastNext ==
  ASSUME SessionsTypeOK, PastKnown, [SessionsNext]_sessionVars
  PROVE  PastKnown'
<1>s. \A i \in DOMAIN refreshTokens :
        refreshTokens[i].user \in Users /\ refreshTokens[i].issued \in Nat
  BY TokenKnown DEF RefreshToken
<1>j. \A c \in AuthCalls : job[c].user \in Users /\ job[c].code \in Nat
  BY DEF SessionsTypeOK, Job
<1>t. /\ \A u \in Users : password[u] \in Nat
      /\ \A c \in AuthCalls : job'[c].user \in Users /\ job'[c].code \in Nat
  BY TypeNext DEF SessionsTypeOK, Job
<1>1. \A u \in Users : password'[u] \in Nat /\ password[u] <= password'[u]
  <2>1. CASE password' = password
    BY <2>1, <1>t
  <2>2. ASSUME NEW c \in AuthCalls, CommitReset(c)
        PROVE  \A u \in Users : password'[u] \in Nat /\ password[u] <= password'[u]
    BY <2>2, CommitStep, <1>j, <1>t
  <2>3. ASSUME NEW c \in AuthCalls, Issue(c) PROVE password' = password
    BY <2>3 DEF Issue
  <2> QED
    BY <2>1, <2>2, <2>3, SessionSteps
<1>2. \A i \in DOMAIN refreshTokens' :
        refreshTokens'[i].issued <= password'[refreshTokens'[i].user]
  <2>1. CASE SameSessions
    <3> SUFFICES ASSUME NEW i \in DOMAIN refreshTokens'
                 PROVE  refreshTokens'[i].issued <= password'[refreshTokens'[i].user]
      OBVIOUS
    <3>1. /\ i \in DOMAIN refreshTokens
          /\ refreshTokens'[i].issued = refreshTokens[i].issued
          /\ refreshTokens'[i].user = refreshTokens[i].user
      BY <2>1 DEF SameSessions
    <3> QED
      BY <3>1, <1>1, <1>s, <1>t DEF PastKnown
  <2>2. ASSUME NEW c \in AuthCalls, Issue(c)
        PROVE  \A i \in DOMAIN refreshTokens' :
                 refreshTokens'[i].issued <= password'[refreshTokens'[i].user]
    <3> PICK n : n = Len(refreshTokens) + 1
      OBVIOUS
    <3>1. /\ job[c].at = "issue" /\ password' = password
          /\ DOMAIN refreshTokens' = DOMAIN refreshTokens \cup {n}
          /\ \A i \in DOMAIN refreshTokens : refreshTokens'[i] = refreshTokens[i]
          /\ refreshTokens'[n].issued = job[c].code /\ refreshTokens'[n].user = job[c].user
      BY <2>2, IssueStep
    <3> QED
      BY <3>1 DEF PastKnown
  <2>3. ASSUME NEW c \in AuthCalls, CommitReset(c) PROVE SameSessions
    BY <2>3, CommitStep
  <2> QED
    BY <2>1, <2>2, <2>3, SessionSteps
<1>3. ASSUME NEW c \in AuthCalls, job'[c].at \in {"revoke", "issue"}
      PROVE  job'[c].code <= password'[job'[c].user]
  <2>1. CASE job'[c] = job[c]
    BY <2>1, <1>3, <1>1, <1>j, <1>t DEF PastKnown
  <2>2. CASE job'[c].code = password[job'[c].user]
    BY <2>2, <1>1, <1>t
  <2>3. CASE /\ job[c].at = "revoke"
             /\ job'[c].user = job[c].user /\ job'[c].code = job[c].code
    BY <2>3, <1>1, <1>j, <1>t DEF PastKnown
  <2> QED
    BY <1>3, <2>1, <2>2, <2>3, IssuingJobs
<1> QED
  BY <1>2, <1>3 DEF PastKnown

\* Why LiveSessionsFollowPassword is inductive: a user's row has one reset at
\* a time, and the sessions that a reset has not seen may last longer.
InReset(c) == job[c].at \in {"sweep", "commit"}

ResetInv ==
  /\ LiveSessionsFollowPassword
  /\ \A c, d \in AuthCalls :
       InReset(c) /\ InReset(d) /\ job[c].user = job[d].user => c = d
  /\ \A c \in AuthCalls : job[c].at = "commit" =>
       \A i \in DOMAIN refreshTokens :
         /\ refreshTokens[i].user = job[c].user
         /\ ~refreshTokens[i].revoked
         /\ ~ClosedByReset(c, i)
         => refreshTokens[i].until = password[job[c].user] + 1

LEMMA ResetInit == SessionsInit => ResetInv
  BY DEF SessionsInit, ResetInv, InReset, LiveSessionsFollowPassword, NoJob

LEMMA ResetNext ==
  ASSUME SessionsTypeOK, PastKnown, ResetInv, [SessionsNext]_sessionVars
  PROVE  ResetInv'
<1>s. \A i \in DOMAIN refreshTokens :
        i \in Nat /\ refreshTokens[i] \in RefreshToken /\ refreshTokens[i].user \in Users
  BY TokenKnown DEF RefreshToken
<1>j. \A c \in AuthCalls : job[c].user \in Users /\ job[c].id \in Nat /\ job[c].code \in Nat
  BY DEF SessionsTypeOK, Job
<1>n. Len(refreshTokens) \in Nat /\ DOMAIN refreshTokens = 1..Len(refreshTokens)
  BY DEF SessionsTypeOK
<1>p. password \in [Users -> Nat]
  BY DEF SessionsTypeOK
<1>t. job \in [AuthCalls -> Job]
  BY DEF SessionsTypeOK
\* No session is added and no password changes, and no call enters a reset.
<1>1. ASSUME SameSessions, password' = password,
             \A d \in AuthCalls : job'[d] = job[d] \/ ~InReset(d)'
      PROVE  ResetInv'
  BY <1>1 DEF ResetInv, InReset, LiveSessionsFollowPassword, SameSessions, ClosedByReset
<1>2. ASSUME NEW c \in AuthCalls, ResetPassword(c) PROVE ResetInv'
  <2>1. /\ UNCHANGED <<refreshTokens, password>> /\ Resetting(job[c].user) = {}
        /\ Goto(c, "sweep", job[c].user, job[c].id, 0)
    BY <1>2 DEF ResetPassword
  <2>2. /\ job'[c].at = "sweep" /\ job'[c].user = job[c].user
        /\ \A d \in AuthCalls \ {c} : job'[d] = job[d]
    <3>1. job'[c] = [at |-> "sweep", user |-> job[c].user, id |-> job[c].id, code |-> 0]
      BY <2>1, <1>t DEF Goto
    <3> QED
      BY <3>1, <2>1, <1>t DEF Goto
  <2>3. \A d \in AuthCalls : InReset(d) => job[d].user # job[c].user
    BY <2>1 DEF Resetting, InReset
  <2> QED
    BY <2>1, <2>2, <2>3 DEF ResetInv, InReset, LiveSessionsFollowPassword, ClosedByReset
<1>3. ASSUME NEW c \in AuthCalls, SweepSessions(c) PROVE ResetInv'
  <2>1. /\ UNCHANGED <<refreshTokens, password>> /\ job[c].at = "sweep"
        /\ Goto(c, "commit", job[c].user, job[c].id, Len(refreshTokens))
    BY <1>3 DEF SweepSessions
  <2>2. /\ job'[c].at = "commit" /\ job'[c].user = job[c].user
        /\ job'[c].code = Len(refreshTokens)
        /\ \A d \in AuthCalls \ {c} : job'[d] = job[d]
    <3>1. job'[c] = [at |-> "commit", user |-> job[c].user, id |-> job[c].id,
                     code |-> Len(refreshTokens)]
      BY <2>1, <1>t DEF Goto
    <3> QED
      BY <3>1, <2>1, <1>t DEF Goto
  <2>3. \A i \in DOMAIN refreshTokens : i <= job'[c].code
    BY <2>2, <1>n
  <2> QED
    BY <2>1, <2>2, <2>3 DEF ResetInv, InReset, LiveSessionsFollowPassword, ClosedByReset
<1>4. ASSUME NEW c \in AuthCalls, Issue(c) PROVE ResetInv'
  <2> PICK n : n = Len(refreshTokens) + 1
    OBVIOUS
  <2>1. /\ job[c].at = "issue" /\ job'[c].at = "idle" /\ Others(c)
        /\ DOMAIN refreshTokens' = DOMAIN refreshTokens \cup {n}
        /\ \A i \in DOMAIN refreshTokens : refreshTokens'[i] = refreshTokens[i]
        /\ refreshTokens'[n].issued = job[c].code
        /\ refreshTokens'[n].user = job[c].user /\ password' = password
        /\ refreshTokens'[n].until = MayLast(job[c].user)
    BY <1>4, IssueStep
  <2>p. password[job[c].user] \in Nat /\ job[c].code <= password[job[c].user]
    BY <2>1, <1>j, <1>p DEF PastKnown
  <2>m. MayLast(job[c].user) \in {password[job[c].user], password[job[c].user] + 1}
    BY DEF MayLast
  <2>2. LiveSessionsFollowPassword'
    <3>1. \/ refreshTokens'[n].issued = password'[refreshTokens'[n].user]
          \/ /\ refreshTokens'[n].issued < refreshTokens'[n].until
             /\ password'[refreshTokens'[n].user] <= refreshTokens'[n].until
      BY <2>1, <2>p, <2>m, <1>j
    <3> QED
      BY <3>1, <2>1 DEF ResetInv, LiveSessionsFollowPassword
  <2>3. \A d \in AuthCalls : InReset(d)' => InReset(d) /\ job'[d] = job[d]
    BY <2>1 DEF InReset, Others
  <2>4. ASSUME NEW d \in AuthCalls, job'[d].at = "commit",
               NEW i \in DOMAIN refreshTokens',
               refreshTokens'[i].user = job'[d].user,
               ~refreshTokens'[i].revoked, ~ClosedByReset(d, i)'
        PROVE  refreshTokens'[i].until = password'[job'[d].user] + 1
    <3>1. job'[d] = job[d] /\ job[d].at = "commit"
      BY <2>3, <2>4 DEF InReset
    <3>2. CASE i \in DOMAIN refreshTokens
      <4>1. refreshTokens'[i] = refreshTokens[i]
        BY <3>2, <2>1
      <4>2. ~ClosedByReset(d, i)
        BY <4>1, <3>1, <2>4 DEF ClosedByReset
      <4> QED
        BY <4>1, <4>2, <3>1, <3>2, <2>1, <2>4 DEF ResetInv
    <3>3. CASE i = n
      <4>1. d \in Committing(job[c].user)
        BY <3>1, <3>3, <2>1, <2>4 DEF Committing
      <4>2. MayLast(job[c].user) = password[job[c].user] + 1
        BY <4>1 DEF MayLast
      <4> QED
        BY <4>2, <3>1, <3>3, <2>1, <2>4
    <3> QED
      BY <3>2, <3>3, <2>1
  <2> QED
    BY <2>2, <2>3, <2>4 DEF ResetInv
<1>5. ASSUME NEW c \in AuthCalls, CommitReset(c) PROVE ResetInv'
  <2>1. /\ SameSessions
        /\ job[c].at = "commit" /\ job'[c].at = "idle" /\ Others(c)
        /\ \A i \in DOMAIN refreshTokens : ClosedByReset(c, i) => refreshTokens'[i].revoked
        /\ password'[job[c].user] = password[job[c].user] + 1
        /\ \A u \in Users : u # job[c].user => password'[u] = password[u]
    BY <1>5, CommitStep
  <2>2. \A d \in AuthCalls : InReset(d)' =>
          /\ job'[d] = job[d] /\ InReset(d) /\ d # c /\ job[d].user # job[c].user
    BY <2>1 DEF ResetInv, InReset, Others
  <2>3. ASSUME NEW i \in DOMAIN refreshTokens', ~refreshTokens'[i].revoked
        PROVE  \/ refreshTokens'[i].issued = password'[refreshTokens'[i].user]
               \/ /\ refreshTokens'[i].issued < refreshTokens'[i].until
                  /\ password'[refreshTokens'[i].user] <= refreshTokens'[i].until
    <3>1. /\ i \in DOMAIN refreshTokens /\ ~refreshTokens[i].revoked
          /\ refreshTokens'[i].user = refreshTokens[i].user
          /\ refreshTokens'[i].issued = refreshTokens[i].issued
          /\ refreshTokens'[i].until = refreshTokens[i].until
      BY <2>1, <2>3 DEF SameSessions
    <3>2. CASE refreshTokens[i].user = job[c].user
      <4>1. refreshTokens[i].until = password[job[c].user] + 1
        BY <3>1, <3>2, <2>1, <2>3 DEF ResetInv
      <4>2. refreshTokens[i].issued <= password[job[c].user] /\ refreshTokens[i].issued \in Nat
        BY <3>1, <3>2, <1>s DEF PastKnown, RefreshToken
      <4> QED
        BY <4>1, <4>2, <3>1, <3>2, <2>1, <1>j, <1>p
    <3>3. CASE refreshTokens[i].user # job[c].user
      BY <3>1, <3>3, <2>1, <1>s DEF ResetInv, LiveSessionsFollowPassword
    <3> QED
      BY <3>2, <3>3
  <2>4. LiveSessionsFollowPassword'
    BY <2>3 DEF LiveSessionsFollowPassword
  <2>5. ASSUME NEW d \in AuthCalls, job'[d].at = "commit",
               NEW i \in DOMAIN refreshTokens',
               refreshTokens'[i].user = job'[d].user,
               ~refreshTokens'[i].revoked, ~ClosedByReset(d, i)'
        PROVE  refreshTokens'[i].until = password'[job'[d].user] + 1
    <3>1. job'[d] = job[d] /\ job[d].at = "commit" /\ job[d].user # job[c].user
      BY <2>2, <2>5 DEF InReset
    <3>2. /\ i \in DOMAIN refreshTokens /\ ~refreshTokens[i].revoked
          /\ refreshTokens'[i].user = refreshTokens[i].user
          /\ refreshTokens'[i].issued = refreshTokens[i].issued
          /\ refreshTokens'[i].until = refreshTokens[i].until
      BY <2>1, <2>5 DEF SameSessions
    <3>3. password'[job[d].user] = password[job[d].user]
      BY <3>1, <2>1, <1>j
    <3>4. ~ClosedByReset(d, i)
      BY <2>5, <3>1, <3>2 DEF ClosedByReset
    <3> QED
      BY <3>1, <3>2, <3>3, <3>4, <2>5 DEF ResetInv
  <2> QED
    BY <2>2, <2>4, <2>5 DEF ResetInv
<1>6. CASE /\ SameSessions /\ password' = password
           /\ \A d \in AuthCalls : job'[d] = job[d] \/ job'[d].at \notin {"sweep", "commit"}
  BY <1>6, <1>1 DEF InReset
<1> QED
  BY <1>2, <1>3, <1>4, <1>5, <1>6, SessionSteps, ResetJobs

(* A reset closes every session that it sees, and leaves none but those of *)
(* the calls that it overtook, which inserted them after its last UPDATE   *)
(* and which the next reset closes, whatever refreshes, logins and other   *)
(* resets are under way and wherever they stop (auth.service.ts:541-556).  *)
THEOREM ResetClosesSessions == SessionsSpec => []LiveSessionsFollowPassword
<1> DEFINE Inv == SessionsTypeOK /\ PastKnown /\ ResetInv
<1>1. SessionsInit => Inv
  BY TypeInit, PastInit, ResetInit
<1>2. Inv /\ [SessionsNext]_sessionVars => Inv'
  BY TypeNext, PastNext, ResetNext
<1>3. Inv => LiveSessionsFollowPassword
  BY DEF ResetInv
<1> QED
  BY <1>1, <1>2, <1>3, PTL DEF SessionsSpec

-----------------------------------------------------------------------------
\* Why OneSessionPerChallenge is inductive: the challenge of a session, and
\* the one that a call is about to open a session for, are used, and such a
\* call is alone and has opened none.
OpeningInv ==
  /\ OneSessionPerChallenge
  /\ \A i \in DOMAIN refreshTokens : refreshTokens[i].from # 0 =>
       /\ refreshTokens[i].from \in DOMAIN challenges
       /\ challenges[refreshTokens[i].from].used
  /\ \A c \in AuthCalls : job[c].at = "issue" /\ job[c].id # 0 =>
       /\ job[c].id \in DOMAIN challenges
       /\ challenges[job[c].id].used
       /\ \A i \in DOMAIN refreshTokens : refreshTokens[i].from # job[c].id
       /\ \A d \in AuthCalls \ {c} : job[d].at = "issue" => job[d].id # job[c].id

LEMMA OpeningInit == SessionsInit => OpeningInv
  BY SessionsAssumption DEF SessionsInit, OpeningInv, OneSessionPerChallenge, NoJob

LEMMA OpeningNext ==
  ASSUME SessionsTypeOK, RowKnown, OpeningInv, [SessionsNext]_sessionVars
  PROVE  OpeningInv'
<1>k. \A i \in DOMAIN challenges :
        i \in DOMAIN challenges' /\ (challenges[i].used => challenges'[i].used)
  BY ChallengesKept
<1>q. \A c \in AuthCalls :
        Issue(c) \/ CommitReset(c) => Quiet(c)
  BY DEF Quiet, LinkSteps
\* No session is added, and no call goes on to open one.
<1>a. ASSUME SameSessions,
             \A c \in AuthCalls : job'[c].at = "issue" => job'[c] = job[c] \/ job'[c].id = 0
      PROVE  OpeningInv'
  BY <1>a, <1>k DEF OpeningInv, OneSessionPerChallenge, SameSessions
<1>1. ASSUME NEW c \in AuthCalls, Issue(c) PROVE OpeningInv'
  <2> PICK n : n = Len(refreshTokens) + 1
    OBVIOUS
  <2>1. /\ job[c].at = "issue" /\ job'[c].at = "idle" /\ Others(c)
        /\ DOMAIN refreshTokens' = DOMAIN refreshTokens \cup {n}
        /\ n \notin DOMAIN refreshTokens
        /\ \A i \in DOMAIN refreshTokens : refreshTokens'[i] = refreshTokens[i]
        /\ refreshTokens'[n].from = job[c].id
    BY <1>1, IssueStep
  <2>2. OneSessionPerChallenge'
    BY <2>1 DEF OpeningInv, OneSessionPerChallenge
  <2>3. \A i \in DOMAIN refreshTokens' : refreshTokens'[i].from # 0 =>
          /\ refreshTokens'[i].from \in DOMAIN challenges'
          /\ challenges'[refreshTokens'[i].from].used
    BY <2>1, <1>k DEF OpeningInv
  <2>4. ASSUME NEW d \in AuthCalls, job'[d].at = "issue", job'[d].id # 0
        PROVE  /\ job'[d].id \in DOMAIN challenges'
               /\ challenges'[job'[d].id].used
               /\ \A i \in DOMAIN refreshTokens' : refreshTokens'[i].from # job'[d].id
               /\ \A b \in AuthCalls \ {d} : job'[b].at = "issue" => job'[b].id # job'[d].id
    BY <2>1, <2>4, <1>k DEF OpeningInv, Others
  <2> QED
    BY <2>2, <2>3, <2>4 DEF OpeningInv
<1>2. CASE challenges' = challenges /\ job' = job /\ SameSessions
  BY <1>2, <1>a
<1>3. ASSUME NEW c \in AuthCalls, Quiet(c), SameSessions PROVE OpeningInv'
  <2>1. Others(c) /\ (job'[c].at = "issue" => job'[c].id = 0)
    BY <1>3, QuietSteps
  <2> QED
    BY <2>1, <1>3, <1>a DEF Others
<1>4. ASSUME NEW c \in AuthCalls, Invalidate(c), SameSessions PROVE OpeningInv'
  <2>1. Others(c) /\ job'[c].at = "create"
    BY <1>4, InvalidateStep
  <2> QED
    BY <2>1, <1>4, <1>a DEF Others
<1>5. ASSUME NEW c \in AuthCalls, CreateChallenge(c), SameSessions PROVE OpeningInv'
  <2>1. Others(c) /\ job'[c].at = "idle"
    BY <1>5, CreateStep
  <2> QED
    BY <2>1, <1>5, <1>a DEF Others
<1>6. ASSUME NEW c \in AuthCalls, OnRow(c), SameSessions PROVE OpeningInv'
  <2> PICK k, r, e : k = job[c].id /\ r = challenges[k] /\ e = challenges'[k]
    OBVIOUS
  <2>1. /\ k \in DOMAIN challenges /\ DOMAIN challenges' = DOMAIN challenges
        /\ Others(c) /\ RowEffect(c, r, e)
        /\ (job'[c].at # "idle" => job'[c].id = k)
    BY <1>6, OnKnownRow, RowSteps
  <2>2. CASE job'[c].at # "issue"
    BY <2>1, <2>2, <1>6, <1>a DEF Others
  <2>3. CASE job'[c].at = "issue"
    <3>1. ~r.used /\ e.used /\ job'[c].id = k /\ job[c].at # "issue"
      BY <2>1, <2>3 DEF RowEffect
    <3>2. OneSessionPerChallenge'
      BY <1>6 DEF OpeningInv, OneSessionPerChallenge, SameSessions
    <3>3. \A i \in DOMAIN refreshTokens' : refreshTokens'[i].from # 0 =>
            /\ refreshTokens'[i].from \in DOMAIN challenges'
            /\ challenges'[refreshTokens'[i].from].used
      BY <1>6, <1>k DEF OpeningInv, SameSessions
    <3>4. ASSUME NEW d \in AuthCalls, job'[d].at = "issue", job'[d].id # 0
          PROVE  /\ job'[d].id \in DOMAIN challenges'
                 /\ challenges'[job'[d].id].used
                 /\ \A i \in DOMAIN refreshTokens' : refreshTokens'[i].from # job'[d].id
                 /\ \A b \in AuthCalls \ {d} : job'[b].at = "issue" => job'[b].id # job'[d].id
      <4>1. CASE d = c
        BY <4>1, <3>1, <3>4, <2>1, <1>6, <1>k DEF OpeningInv, Others, SameSessions
      <4>2. CASE d # c
        BY <4>2, <3>1, <3>4, <2>1, <1>6, <1>k DEF OpeningInv, Others, SameSessions
      <4> QED
        BY <4>1, <4>2
    <3> QED
      BY <3>2, <3>3, <3>4 DEF OpeningInv
  <2> QED
    BY <2>2, <2>3
<1>7. ASSUME NEW c \in AuthCalls, CommitReset(c) PROVE OpeningInv'
  BY <1>7, <1>3, <1>q, CommitStep
<1> QED
  BY <1>1, <1>2, <1>3, <1>4, <1>5, <1>6, <1>7, EitherStep, SessionSteps

(* However verifications of one code interleave or stop, the code opens    *)
(* one session at most (auth.service.ts:250-260).                          *)
THEOREM OneSession == SessionsSpec => []OneSessionPerChallenge
<1>1. SessionsInit => SessionsTypeOK /\ RowKnown /\ OpeningInv
  BY TypeInit, KnownInit, OpeningInit
<1>2. SessionsTypeOK /\ RowKnown /\ OpeningInv /\ [SessionsNext]_sessionVars
        => (SessionsTypeOK /\ RowKnown /\ OpeningInv)'
  BY TypeNext, KnownNext, OpeningNext
<1>3. OpeningInv => OneSessionPerChallenge
  BY DEF OpeningInv
<1> QED
  BY <1>1, <1>2, <1>3, PTL DEF SessionsSpec

=============================================================================
