------------------------------ MODULE Sessions ------------------------------
(***************************************************************************)
(* Authentication: apps/api/src/modules/auth/auth.service.ts.  A login     *)
(* opens a challenge whose code is sent by mail; the code, verified, opens *)
(* a session, that is a refresh token which is exchanged for another at    *)
(* each refresh.  Links sent by mail reset a password or confirm an        *)
(* address.  Every statement commits on its own, except the transactions   *)
(* of resetPassword and verifyEmail; a call may stop after any statement.  *)
(* Under READ COMMITTED an UPDATE sees the rows committed when it starts,  *)
(* and keeps those it writes locked until its transaction ends.            *)
(***************************************************************************)
EXTENDS Naturals, Sequences, FiniteSets

CONSTANTS
  Users,            \* accounts
  AuthCalls,        \* HTTP calls in progress
  MaxAttempts,      \* LOGIN_CODE_MAX_ATTEMPTS
  CodeLife,         \* LOGIN_CODE_EXPIRY_MINUTES
  ResendCooldown,   \* LOGIN_CODE_RESEND_COOLDOWN_SECONDS
  ChallengeLife,    \* LOGIN_CHALLENGE_MAX_LIFETIME_MINUTES
  RefreshLife,      \* JWT_REFRESH_EXPIRES_IN
  LinkLife,         \* RESET_TOKEN_EXPIRY_MINUTES, VERIFICATION_TOKEN_EXPIRY_HOURS
  MaxClock,         \* bound of the clock
  MaxChallenges,    \* bounds of the tables
  MaxTokens,
  MaxLinks,
  MaxCodes          \* bound of the codes sent

ASSUME SessionsAssumption ==
  /\ Users # {}
  /\ IsFiniteSet(AuthCalls)
  /\ {MaxAttempts, CodeLife, ResendCooldown, ChallengeLife, RefreshLife,
      LinkLife, MaxClock, MaxChallenges, MaxTokens,
      MaxLinks, MaxCodes} \subseteq Nat

VARIABLES
  clock,
  password,       \* User.passwordHash, as a version number
  verified,       \* the users whose emailVerifiedAt is set
  challenges,     \* login_verifications, in the order of their creation
  refreshTokens,  \* refresh_tokens
  links,          \* password_reset_tokens and email_verification_tokens
  job             \* what each call is doing

sessionVars == <<clock, password, verified, challenges, refreshTokens, links, job>>

-----------------------------------------------------------------------------
(* "code" numbers the codes sent for a challenge: the hash stored is that  *)
(* of the last.  "tried" counts the comparisons made with any of them and  *)
(* "after" is how many challenges existed when the login that created this *)
(* one closed those in progress; both only observe.                        *)
LoginVerification ==
  [user: Users, used: BOOLEAN, attempts: Nat, code: Nat, created: Nat, sent: Nat,
   expires: Nat, tried: Nat, after: Nat]

(* "issued" is the user's password when the call that created the token    *)
(* began, "until" the last it may be alive under, which is that of its     *)
(* insertion, or the next when a reset has then closed the sessions it saw *)
(* and not committed; "from" is the challenge that opened the session, or  *)
(* 0.  The three only observe.                                             *)
RefreshToken ==
  [user: Users, revoked: BOOLEAN, expires: Nat, issued: Nat, until: Nat, from: Nat]

Link == [kind: {"reset", "email"}, user: Users, used: BOOLEAN, expires: Nat]

JobStep == {"idle", "invalidate", "create", "reserve", "compare", "consume", "close",
            "regenerate", "revoke", "issue", "reset", "sweep", "commit", "confirm"}

(* "id" is the row the call is about, "code" the code it was given: the    *)
(* last one sent when the call began, or any other (0); for a reset, how   *)
(* many refresh tokens its last UPDATE saw; for a call that issues one,    *)
(* the password of the user when it read the token to exchange, consumed   *)
(* the code or began, which only observes.                                 *)
Job == [at: JobStep, user: Users, id: Nat, code: Nat]

NoJob == [at |-> "idle", user |-> CHOOSE u \in Users : TRUE, id |-> 0, code |-> 0]

Goto(c, step, user, id, code) ==
  job' = [job EXCEPT ![c] = [at |-> step, user |-> user, id |-> id, code |-> code]]

(* The answer names the token issued, 0 when there is none.                *)
Answer(c, id) == job' = [job EXCEPT ![c] = [NoJob EXCEPT !.id = id]]

Ready(c) == job[c].at = "idle"

(* The transactions of resetPassword that hold the row of user u, and      *)
(* those of them that have only their commit left.                         *)
Resetting(u) == {c \in AuthCalls : job[c].at \in {"sweep", "commit"} /\ job[c].user = u}
Committing(u) == {c \in AuthCalls : job[c].at = "commit" /\ job[c].user = u}

(* The sessions that the last UPDATE of the reset c revokes.               *)
\* Variant: only the sessions that have expired are revoked.
ClosedByResetExpired(c, i) ==
  refreshTokens[i].user = job[c].user /\ i <= job[c].code /\ refreshTokens[i].expires < clock

ClosedByReset(c, i) == refreshTokens[i].user = job[c].user /\ i <= job[c].code

(* Nobody else writes them until the transaction ends.                     *)
Locked(i) ==
  \E c \in AuthCalls :
    job[c].at = "commit" /\ ClosedByReset(c, i) /\ ~refreshTokens[i].revoked

-----------------------------------------------------------------------------
(* login: the password is compared with the hash read, then                *)
(* startLoginVerification closes the challenges in progress and, in        *)
(* another statement, creates its own.                                     *)
Login(c) ==
  /\ Ready(c)
  /\ Len(challenges) < MaxChallenges
  /\ \E u \in Users : Goto(c, "invalidate", u, 0, 0)
  /\ UNCHANGED <<clock, password, verified, challenges, refreshTokens, links>>

Invalidate(c) ==
  /\ job[c].at = "invalidate"
  /\ challenges' = [i \in DOMAIN challenges |->
                      IF challenges[i].user = job[c].user
                      THEN [challenges[i] EXCEPT !.used = TRUE]
                      ELSE challenges[i]]
  /\ Goto(c, "create", job[c].user, Len(challenges), 0)
  /\ UNCHANGED <<clock, password, verified, refreshTokens, links>>

CreateChallenge(c) ==
  /\ job[c].at = "create"
  /\ challenges' = Append(challenges,
                     [user |-> job[c].user, used |-> FALSE, attempts |-> 0, code |-> 1,
                      created |-> clock, sent |-> clock, expires |-> clock + CodeLife,
                      tried |-> 0, after |-> job[c].id])
  /\ Answer(c, 0)
  /\ UNCHANGED <<clock, password, verified, refreshTokens, links>>

(* verifyLoginCode: unlocked read of the challenge; an expired one is      *)
(* closed.                                                                 *)
Verify(c) ==
  /\ Ready(c)
  /\ \E i \in DOMAIN challenges :
       /\ ~challenges[i].used
       /\ IF challenges[i].expires < clock
          THEN Goto(c, "close", challenges[i].user, i, 0)
          ELSE \E code \in {0, challenges[i].code} :
                 Goto(c, "reserve", challenges[i].user, i, code)
  /\ UNCHANGED <<clock, password, verified, challenges, refreshTokens, links>>

CloseChallenge(c) ==
  /\ job[c].at = "close"
  /\ challenges' = [challenges EXCEPT ![job[c].id].used = TRUE]
  /\ Answer(c, 0)
  /\ UNCHANGED <<clock, password, verified, refreshTokens, links>>

(* The condition of the UPDATE that reserves an attempt.                   *)
\* Variant: the attempts are tested when they were read, not here.
MayTryRead(challenge) == ~challenge.used

MayTry(challenge) == ~challenge.used /\ challenge.attempts < MaxAttempts

Reserve(c) ==
  /\ job[c].at = "reserve"
  /\ \/ /\ MayTry(challenges[job[c].id])
        /\ challenges' = [challenges EXCEPT ![job[c].id].attempts = @ + 1]
        /\ Goto(c, "compare", job[c].user, job[c].id, job[c].code)
     \/ /\ ~MayTry(challenges[job[c].id])
        /\ Goto(c, "close", job[c].user, job[c].id, 0)
        /\ UNCHANGED challenges
  /\ UNCHANGED <<clock, password, verified, refreshTokens, links>>

(* The code is compared with the hash read now, not with the one that was  *)
(* there when the attempt was reserved.                                    *)
Compare(c) ==
  /\ job[c].at = "compare"
  /\ challenges' = [challenges EXCEPT ![job[c].id].tried = @ + 1]
  /\ IF challenges[job[c].id].code = job[c].code
     THEN Goto(c, "consume", job[c].user, job[c].id, 0)
     ELSE Answer(c, 0)
  /\ UNCHANGED <<clock, password, verified, refreshTokens, links>>

(* The condition of the UPDATE that consumes the code.                     *)
\* Variant: the UPDATE names the challenge by its id alone.
UnconsumedBlindly(challenge) == TRUE

Unconsumed(challenge) == ~challenge.used

ConsumeCode(c) ==
  /\ job[c].at = "consume"
  /\ IF Unconsumed(challenges[job[c].id])
     THEN /\ challenges' = [challenges EXCEPT ![job[c].id].used = TRUE]
          /\ Goto(c, "issue", job[c].user, job[c].id, password[job[c].user])
     ELSE Answer(c, 0) /\ UNCHANGED challenges
  /\ UNCHANGED <<clock, password, verified, refreshTokens, links>>

(* resendLoginCode: unlocked read and tests, then regenerateLoginCode.     *)
Resend(c) ==
  /\ Ready(c)
  /\ \E i \in DOMAIN challenges :
       LET challenge == challenges[i] IN
       /\ ~challenge.used
       /\ challenge.expires >= clock
       /\ Len(challenges) + challenge.code <= MaxCodes
       /\ IF clock - challenge.created > ChallengeLife
          THEN Goto(c, "close", challenge.user, i, 0)
          ELSE /\ clock - challenge.sent >= ResendCooldown
               /\ Goto(c, "regenerate", challenge.user, i, 0)
  /\ UNCHANGED <<clock, password, verified, challenges, refreshTokens, links>>

Renewed(challenge) ==
  [challenge EXCEPT !.code = @ + 1, !.attempts = 0, !.sent = clock,
                    !.expires = clock + CodeLife]

\* Variant: the resend writes the whole row back, usedAt included.
RegenerateUnused(c) ==
  /\ job[c].at = "regenerate"
  /\ challenges' = [challenges EXCEPT ![job[c].id] = [Renewed(@) EXCEPT !.used = FALSE]]
  /\ Answer(c, 0)
  /\ UNCHANGED <<clock, password, verified, refreshTokens, links>>

Regenerate(c) ==
  /\ job[c].at = "regenerate"
  /\ challenges' = [challenges EXCEPT ![job[c].id] = Renewed(@)]
  /\ Answer(c, 0)
  /\ UNCHANGED <<clock, password, verified, refreshTokens, links>>

-----------------------------------------------------------------------------
(* register, demoLogin and the acceptance of an invitation open a session  *)
(* without a challenge.                                                    *)
OpenSession(c) ==
  /\ Ready(c)
  /\ \E u \in Users : Goto(c, "issue", u, 0, password[u])
  /\ UNCHANGED <<clock, password, verified, challenges, refreshTokens, links>>

(* History: the last password a session may live under. One inserted while *)
(* a reset has read the sessions and not committed escapes that reset.     *)
MayLast(u) == IF Committing(u) = {} THEN password[u] ELSE password[u] + 1

Issue(c) ==
  /\ job[c].at = "issue"
  /\ Len(refreshTokens) < MaxTokens
  /\ refreshTokens' = Append(refreshTokens,
                        [user |-> job[c].user, revoked |-> FALSE,
                         expires |-> clock + RefreshLife,
                         issued |-> job[c].code, until |-> MayLast(job[c].user),
                         from |-> job[c].id])
  /\ Answer(c, Len(refreshTokens) + 1)
  /\ UNCHANGED <<clock, password, verified, challenges, links>>

(* refresh: the token is read as live, and revoked without a condition.    *)
Exchangeable(i) == ~refreshTokens[i].revoked /\ refreshTokens[i].expires >= clock

RefreshReads(c, i) ==
  /\ Ready(c)
  /\ IF Exchangeable(i)
     THEN Goto(c, "revoke", refreshTokens[i].user, i, password[refreshTokens[i].user])
     ELSE Answer(c, 0)
  /\ UNCHANGED <<clock, password, verified, challenges, refreshTokens, links>>

Revoke(c) ==
  /\ job[c].at = "revoke"
  /\ ~Locked(job[c].id)
  /\ refreshTokens' = [refreshTokens EXCEPT ![job[c].id].revoked = TRUE]
  /\ Goto(c, "issue", job[c].user, 0, job[c].code)
  /\ UNCHANGED <<clock, password, verified, challenges, links>>

Logout(i) ==
  /\ ~Locked(i)
  /\ refreshTokens' = [refreshTokens EXCEPT ![i].revoked = TRUE]
  /\ UNCHANGED <<clock, password, verified, challenges, links, job>>

-----------------------------------------------------------------------------
(* forgotPassword, sendVerificationLink: a link is created and mailed.     *)
SendLink(kind, u) ==
  /\ Len(links) < MaxLinks
  /\ kind = "email" => u \notin verified
  /\ links' = Append(links, [kind |-> kind, user |-> u, used |-> FALSE,
                             expires |-> clock + LinkLife])
  /\ UNCHANGED <<clock, password, verified, challenges, refreshTokens, job>>

(* resetPassword, verifyEmail: unlocked read of the link, then one         *)
(* transaction.                                                            *)
FollowLink(c) ==
  /\ Ready(c)
  /\ \E i \in DOMAIN links :
       /\ ~links[i].used
       /\ links[i].expires >= clock
       /\ Goto(c, IF links[i].kind = "reset" THEN "reset" ELSE "confirm", links[i].user, i, 0)
  /\ UNCHANGED <<clock, password, verified, challenges, refreshTokens, links>>

(* The transaction of resetPassword writes the password and the link,      *)
(* which nobody sees before it commits: a second reset of the user waits.  *)
ResetPassword(c) ==
  /\ job[c].at = "reset"
  /\ Resetting(job[c].user) = {}
  /\ Goto(c, "sweep", job[c].user, job[c].id, 0)
  /\ UNCHANGED <<clock, password, verified, challenges, refreshTokens, links>>

(* Its last UPDATE sees the sessions committed when it starts; one may be  *)
(* issued after it, for the row of the user is not locked against that.    *)
SweepSessions(c) ==
  /\ job[c].at = "sweep"
  /\ Goto(c, "commit", job[c].user, job[c].id, Len(refreshTokens))
  /\ UNCHANGED <<clock, password, verified, challenges, refreshTokens, links>>

CommitReset(c) ==
  /\ job[c].at = "commit"
  /\ password' = [password EXCEPT ![job[c].user] = @ + 1]
  /\ links' = [links EXCEPT ![job[c].id].used = TRUE]
  /\ refreshTokens' = [i \in DOMAIN refreshTokens |->
                         IF ClosedByReset(c, i)
                         THEN [refreshTokens[i] EXCEPT !.revoked = TRUE]
                         ELSE refreshTokens[i]]
  /\ Answer(c, 0)
  /\ UNCHANGED <<clock, verified, challenges>>

VerifyEmail(c) ==
  /\ job[c].at = "confirm"
  /\ Resetting(job[c].user) = {}
  /\ verified' = verified \cup {job[c].user}
  /\ links' = [links EXCEPT ![job[c].id].used = TRUE]
  /\ Answer(c, 0)
  /\ UNCHANGED <<clock, password, challenges, refreshTokens>>

-----------------------------------------------------------------------------
(* The process stops, or a statement fails: what was committed stays, and  *)
(* an open transaction is rolled back.                                     *)
CrashCall(c) ==
  /\ ~Ready(c)
  /\ Answer(c, 0)
  /\ UNCHANGED <<clock, password, verified, challenges, refreshTokens, links>>

TickSessions ==
  /\ clock < MaxClock
  /\ clock' = clock + 1
  /\ UNCHANGED <<password, verified, challenges, refreshTokens, links, job>>

SessionsInit ==
  /\ clock = 0
  /\ password = [u \in Users |-> 0]
  /\ verified = {}
  /\ challenges = <<>>
  /\ refreshTokens = <<>>
  /\ links = <<>>
  /\ job = [c \in AuthCalls |-> NoJob]

LoginSteps(c) ==
  \/ Login(c) \/ Invalidate(c) \/ CreateChallenge(c)
  \/ Verify(c) \/ CloseChallenge(c) \/ Reserve(c) \/ Compare(c) \/ ConsumeCode(c)
  \/ Resend(c) \/ Regenerate(c)

LinkSteps(c) ==
  FollowLink(c) \/ ResetPassword(c) \/ SweepSessions(c) \/ CommitReset(c) \/ VerifyEmail(c)

TokenSteps(c) == Revoke(c) \/ Issue(c)

(* The calls about challenges and those about sessions and links meet only *)
(* in refreshTokens, to which both add.                                    *)
ChallengeNext ==
  \/ \E c \in AuthCalls : LoginSteps(c) \/ Issue(c) \/ CrashCall(c)
  \/ TickSessions

TokenNext ==
  \/ \E c \in AuthCalls :
       \/ LinkSteps(c)
       \/ OpenSession(c)
       \/ \E i \in DOMAIN refreshTokens : RefreshReads(c, i)
       \/ TokenSteps(c)
       \/ CrashCall(c)
  \/ \E i \in DOMAIN refreshTokens : Logout(i)
  \/ \E kind \in {"reset", "email"}, u \in Users : SendLink(kind, u)
  \/ TickSessions

SessionsNext == ChallengeNext \/ TokenNext

SessionsSpec == SessionsInit /\ [][SessionsNext]_sessionVars

-----------------------------------------------------------------------------
SessionsTypeOK ==
  /\ clock \in Nat
  /\ password \in [Users -> Nat]
  /\ verified \subseteq Users
  /\ challenges \in Seq(LoginVerification)
  /\ refreshTokens \in Seq(RefreshToken)
  /\ links \in Seq(Link)
  /\ job \in [AuthCalls -> Job]

(* However verifications and resends interleave, a challenge never has     *)
(* more codes compared than MaxAttempts for each code sent                 *)
(* (auth.service.ts:176-178, the atomic reservation of an attempt).        *)
TriesBounded ==
  \A i \in DOMAIN challenges : challenges[i].tried <= MaxAttempts * challenges[i].code

(* Concurrent verifications of one code open one session                   *)
(* (auth.service.ts:250-260).                                              *)
OneSessionPerChallenge ==
  \A i, j \in DOMAIN refreshTokens :
    refreshTokens[i].from = refreshTokens[j].from /\ refreshTokens[i].from # 0 => i = j

(* A challenge that existed when a later login closed those in progress    *)
(* never becomes usable again, whatever resends and verifications were     *)
(* under way (auth.service.ts:341-350).                                    *)
LoginClosesEarlier ==
  \A i \in DOMAIN challenges : \A j \in 1..challenges[i].after :
    challenges[j].user = challenges[i].user => challenges[j].used

(* A refresh token that is alive was issued by a call that began under the *)
(* current password, or by one that a reset overtook: which inserted it    *)
(* after that reset closed the sessions it saw.  Whatever resets,          *)
(* refreshes, logouts and failures interleave, a reset closes all it sees, *)
(* and the next one what it missed (auth.service.ts:541-556).  The comment *)
(* of 550-551 says that every session already open ends: the second case   *)
(* is where it does not, a refresh in flight during the reset.             *)
LiveSessionsFollowPassword ==
  \A i \in DOMAIN refreshTokens :
    LET token == refreshTokens[i]
        current == password[token.user] IN
    ~token.revoked => \/ token.issued = current
                      \/ token.issued < token.until /\ current <= token.until

=============================================================================
