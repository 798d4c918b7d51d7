------------------------------ MODULE Sessions ------------------------------
(***************************************************************************)
(* One account and its sessions: the routes of http/routes/auth.ts, and    *)
(* the identity check of http/routes/payments.ts, over the users row and   *)
(* the user_credentials row of the account.                                *)
(*                                                                         *)
(* A handler holds no lock between two awaits, so every statement is a     *)
(* step and other requests run in between.  credentials.put writes back    *)
(* every column of the record a handler has read (failure count, lock and  *)
(* pending code together); users.update writes only the columns it names.  *)
(*                                                                         *)
(* Token signatures and hashing are left out: a password or a code is right*)
(* or wrong, a token is its type and its mfa claim.  No code sets          *)
(* suspended_at or business_verified, so neither is here; requests the rate*)
(* limiter refuses, and bodies a route refuses, change nothing.            *)
(***************************************************************************)
EXTENDS Naturals

CONSTANTS
  Workers,          \* requests that can be in flight at the same time
  NoRow,            \* the table has no row for this account
  Registrations,    \* bodies of POST /v1/auth/register: see RegistrationAccepted
  Languages,        \* LANGUAGES
  MaxFailed,        \* MAX_FAILED_ATTEMPTS
  LockTime,         \* LOCKOUT_MINUTES, in ticks
  OtpTime,          \* OTP_TTL_MINUTES, in ticks
  MaxTime,          \* bound: ticks that pass
  MaxCodes,         \* bound: codes that are generated
  MaxCrashes        \* bound: requests lost in flight

ASSUME SessionsAssumption ==
  /\ MaxFailed \in Nat \ {0} /\ LockTime \in Nat \ {0} /\ OtpTime \in Nat
  /\ MaxTime \in Nat /\ MaxCodes \in Nat /\ MaxCrashes \in Nat
  /\ NoRow \notin [level : 0 .. 2, mfaEnabled : BOOLEAN]
  /\ NoRow \notin [failed : Nat, lockedUntil : Nat, otp : Nat, otpUntil : Nat]

VARIABLES
  user,             \* the users row: verification level and mfa_enabled
  cred,             \* the user_credentials row, without the password
  now,              \* the time
  issued,           \* the mfa claims of the token pairs handed out
  lastCode,         \* the codes generated so far are 1 .. lastCode
  uses,             \* history: how often each code was answered with a token pair, at most 2
  identity,         \* the account's verification session at Stripe Identity
  req,              \* what each worker is doing
  alone,            \* history: no two requests have been in flight together
  crashes           \* requests lost so far

rows == <<user, cred>>
vars == <<user, cred, now, issued, lastCode, uses, identity, req, alone, crashes>>

\* VERIFICATION_ORDER: unverified, phone_verified, id_verified.
Unverified == 0
PhoneVerified == 1
IdVerified == 2
Levels == Unverified .. IdVerified

\* The columns of users that the routes decide by.
Users == [level : Levels, mfaEnabled : BOOLEAN]

NoCode == 0
\* The columns of user_credentials; a failure count that reaches MaxFailed is a lock.
Credentials == [failed : 0 .. MaxFailed - 1, lockedUntil : Nat, otp : Nat, otpUntil : Nat]
NewCredentials == [failed |-> 0, lockedUntil |-> 0, otp |-> NoCode, otpUntil |-> 0]

-----------------------------------------------------------------------------
\* Requests.  right: the password typed is the right one; code: the code typed, or the
\* one drawn by otp/send; c: the credentials as
\* the handler read and changed them.

Idle == [op |-> "none", at |-> "idle", right |-> FALSE, code |-> NoCode,
         c |-> NewCredentials]

\* The route is entered: its middleware let the request through.
Begin(w, request) ==
  /\ req[w] = Idle
  /\ req' = [req EXCEPT ![w] = request]
  /\ alone' = (alone /\ \A v \in Workers \ {w} : req[v] = Idle)
  /\ UNCHANGED <<rows, issued, now, lastCode, uses, identity, crashes>>

At(w, op, at) == req[w].op = op /\ req[w].at = at
GoTo(w, at) == req' = [req EXCEPT ![w].at = at]
End(w) == req' = [req EXCEPT ![w] = Idle]
Keep(w, c) == req' = [req EXCEPT ![w].c = c, ![w].at = "put"]

Init ==
  /\ user = NoRow /\ cred = NoRow /\ now = 0
  /\ issued = {}
  /\ lastCode = 0 /\ uses = [k \in 1 .. MaxCodes |-> 0]
  /\ identity = "none"
  /\ req = [w \in Workers |-> Idle]
  /\ alone = TRUE /\ crashes = 0

\* tokenPair: an access and a refresh token with the same claims.  Access tokens expire;
\* the refresh token, which makes new ones, outlives everything that happens here.
IssuePair(mfa) == issued' = issued \cup {mfa}

\* verifyToken accepts what tokenPair has signed, and nothing else.
Accepted(mfa) == mfa \in issued

\* requireAuth, and requireMfa behind it.
Authenticated == \E mfa \in BOOLEAN : Accepted(mfa)
ClearedMfa == Accepted(TRUE)

-----------------------------------------------------------------------------
\* POST /v1/auth/register.  users.email is UNIQUE; the two inserts are two transactions.

\* validateBaseUser: whether the email and the phone have their form, the length of the
\* name, the roles, whether the home base lies in a fence of the pilot, the languages.
ValidateBaseUser(body) ==
  /\ body.email /\ body.phone
  /\ body.displayName >= 2
  /\ body.roles # {} /\ body.roles \subseteq {"host", "crew", "creator", "admin"}
  /\ body.homeBase
  /\ body.languages \subseteq Languages

\* assertPasswordPolicy
AssertPasswordPolicy(password) == password.length \in 12 .. 200 /\ ~password.common

\* Nobody makes himself an admin.
RegistrationAccepted(body) ==
  ValidateBaseUser(body) /\ "admin" \notin body.roles /\ AssertPasswordPolicy(body.password)

StartRegister(w, body) ==
  /\ RegistrationAccepted(body)
  /\ Begin(w, [Idle EXCEPT !.op = "register", !.at = "create"])

CreateUser(w) ==
  /\ At(w, "register", "create")
  /\ IF user = NoRow
       THEN /\ user' = [level |-> Unverified, mfaEnabled |-> FALSE]
            /\ Keep(w, NewCredentials)
       ELSE user' = user /\ End(w)
  /\ UNCHANGED <<cred, issued, now, lastCode, uses, identity, alone, crashes>>

-----------------------------------------------------------------------------
\* POST /v1/auth/login

StartLogin(w, right) == Begin(w, [Idle EXCEPT !.op = "login", !.at = "read", !.right = right])

Locked(c) == c.lockedUntil > now

\* What a verdict on the password makes of the credentials.
AfterVerdictMut(c, right) ==    \* mutant: the count is not reset when it locks
  IF right
    THEN [c EXCEPT !.failed = 0, !.lockedUntil = 0]
    ELSE IF c.failed + 1 >= MaxFailed
           THEN [c EXCEPT !.failed = @ + 1, !.lockedUntil = now + LockTime]
           ELSE [c EXCEPT !.failed = @ + 1]

AfterVerdict(c, right) ==
  IF right
    THEN [c EXCEPT !.failed = 0, !.lockedUntil = 0]
    ELSE IF c.failed + 1 >= MaxFailed
           THEN [c EXCEPT !.failed = 0, !.lockedUntil = now + LockTime]
           ELSE [c EXCEPT !.failed = @ + 1]

LoginReadUnlocked(w) ==    \* mutant: the lock is not looked at
  /\ At(w, "login", "read")
  /\ IF user = NoRow \/ cred = NoRow
       THEN End(w)
       ELSE req' = [req EXCEPT ![w].c = cred, ![w].at = "verify"]
  /\ UNCHANGED <<rows, issued, now, lastCode, uses, identity, alone, crashes>>

LoginRead(w) ==
  /\ At(w, "login", "read")
  /\ IF user = NoRow \/ cred = NoRow \/ Locked(cred)
       THEN End(w)
       ELSE req' = [req EXCEPT ![w].c = cred, ![w].at = "verify"]
  /\ UNCHANGED <<rows, issued, now, lastCode, uses, identity, alone, crashes>>

\* verifyPassword has derived the key, off the event loop.
LoginVerdict(w) ==
  /\ At(w, "login", "verify")
  /\ Keep(w, AfterVerdict(req[w].c, req[w].right))
  /\ UNCHANGED <<rows, issued, now, lastCode, uses, identity, alone, crashes>>

-----------------------------------------------------------------------------
\* POST /v1/auth/refresh: one read, and a pair with the claims of the token presented.

RefreshStepUp(mfa) ==    \* mutant: the new pair has cleared MFA
  /\ Accepted(mfa) /\ user # NoRow
  /\ IssuePair(TRUE)
  /\ UNCHANGED <<rows, now, lastCode, uses, identity, req, alone, crashes>>

Refresh(mfa) ==
  /\ Accepted(mfa) /\ user # NoRow
  /\ IssuePair(mfa)
  /\ UNCHANGED <<rows, now, lastCode, uses, identity, req, alone, crashes>>

-----------------------------------------------------------------------------
\* POST /v1/auth/otp/send

StartSend(w) ==
  /\ Authenticated /\ lastCode < MaxCodes
  /\ Begin(w, [Idle EXCEPT !.op = "send", !.at = "read"])

SendRead(w) ==
  /\ At(w, "send", "read")
  /\ lastCode < MaxCodes
  /\ lastCode' = lastCode + 1
  /\ IF cred = NoRow
       THEN End(w)
       ELSE Keep(w, [cred EXCEPT !.otp = lastCode', !.otpUntil = now + OtpTime])
  /\ UNCHANGED <<rows, issued, now, uses, identity, alone, crashes>>

-----------------------------------------------------------------------------
\* POST /v1/auth/otp/verify, with a code sent before or one that never was.

StartVerify(w, code) ==
  /\ Authenticated
  /\ Begin(w, [Idle EXCEPT !.op = "verify", !.at = "read", !.code = code])

CodeHolds(c, code) == c.otp # NoCode /\ c.otpUntil >= now /\ c.otp = code

SpentMut(c) == [c EXCEPT !.otpUntil = now]    \* mutant: the code stays until its tick is over
Spent(c) == [c EXCEPT !.otp = NoCode, !.otpUntil = 0]

VerifyRead(w) ==
  /\ At(w, "verify", "read")
  /\ IF cred # NoRow /\ CodeHolds(cred, req[w].code) THEN Keep(w, Spent(cred)) ELSE End(w)
  /\ UNCHANGED <<rows, issued, now, lastCode, uses, identity, alone, crashes>>

VerifyUserAlways(w) ==    \* mutant: the level is set whatever it was
  /\ At(w, "verify", "user")
  /\ GoTo(w, "update")
  /\ UNCHANGED <<rows, issued, now, lastCode, uses, identity, alone, crashes>>

VerifyUser(w) ==
  /\ At(w, "verify", "user")
  /\ GoTo(w, IF user.level = Unverified THEN "update" ELSE "answer")
  /\ UNCHANGED <<rows, issued, now, lastCode, uses, identity, alone, crashes>>

VerifyUpdate(w) ==
  /\ At(w, "verify", "update")
  /\ user' = [user EXCEPT !.level = PhoneVerified]
  /\ GoTo(w, "answer")
  /\ UNCHANGED <<cred, issued, now, lastCode, uses, identity, alone, crashes>>

VerifyAnswer(w) ==
  /\ At(w, "verify", "answer")
  /\ uses' = [uses EXCEPT ![req[w].code] = IF @ < 2 THEN @ + 1 ELSE 2]
  /\ IssuePair(TRUE)
  /\ End(w)
  /\ UNCHANGED <<rows, now, lastCode, identity, alone, crashes>>

-----------------------------------------------------------------------------
\* credentials.put, the one statement by which register, login, send and verify store
\* what they have made of the record; login then answers a right password.

Put(w) ==
  /\ req[w].at = "put"
  /\ cred' = req[w].c
  /\ IF req[w].op = "login" /\ req[w].right THEN IssuePair(FALSE) ELSE issued' = issued
  /\ IF req[w].op = "verify"
       THEN req' = [req EXCEPT ![w].c = NewCredentials, ![w].at = "user"]
       ELSE End(w)
  /\ UNCHANGED <<user, now, lastCode, uses, identity, alone, crashes>>

-----------------------------------------------------------------------------
\* POST /v1/auth/mfa/enable: one UPDATE of one column.
EnableMfa ==
  /\ Authenticated /\ user # NoRow
  /\ user' = [user EXCEPT !.mfaEnabled = TRUE]
  /\ UNCHANGED <<cred, issued, now, lastCode, uses, identity, req, alone, crashes>>

\* POST /v1/identity/verify needs a session that has cleared MFA; a second call under
\* the user's idempotency key finds the session of the first.
StartIdentity(w) ==
  /\ ClearedMfa
  /\ Begin(w, [Idle EXCEPT !.op = "identity", !.at = "user"])

IdentityUser(w) ==
  /\ At(w, "identity", "user")
  /\ IF user.level >= IdVerified THEN End(w) ELSE GoTo(w, "session")
  /\ UNCHANGED <<rows, issued, now, lastCode, uses, identity, alone, crashes>>

IdentitySession(w) ==
  /\ At(w, "identity", "session")
  /\ identity' = IF identity = "none" THEN "open" ELSE identity
  /\ End(w)
  /\ UNCHANGED <<rows, issued, now, lastCode, uses, alone, crashes>>

\* The person completes the check with Stripe.
IdentityPasses ==
  /\ identity = "open"
  /\ identity' = "verified"
  /\ UNCHANGED <<rows, issued, now, lastCode, uses, req, alone, crashes>>

\* The identity branch of POST /v1/webhooks/stripe; Stripe may deliver more than once.
StartWebhook(w) ==
  /\ identity = "verified"
  /\ Begin(w, [Idle EXCEPT !.op = "webhook", !.at = "user"])

WebhookUser(w) ==
  /\ At(w, "webhook", "user")
  /\ IF user.level >= IdVerified THEN End(w) ELSE GoTo(w, "promote")
  /\ UNCHANGED <<rows, issued, now, lastCode, uses, identity, alone, crashes>>

WebhookPromote(w) ==
  /\ At(w, "webhook", "promote")
  /\ user' = [user EXCEPT !.level = IdVerified]
  /\ End(w)
  /\ UNCHANGED <<cred, issued, now, lastCode, uses, identity, alone, crashes>>

-----------------------------------------------------------------------------

Tick ==
  /\ now < MaxTime
  /\ now' = now + 1
  /\ UNCHANGED <<rows, issued, lastCode, uses, identity, req, alone, crashes>>

\* A request dies at an await: its pod is gone, or the awaited call fails.
Crash(w) ==
  /\ req[w] # Idle /\ crashes < MaxCrashes
  /\ crashes' = crashes + 1
  /\ End(w)
  /\ UNCHANGED <<rows, issued, now, lastCode, uses, identity, alone>>

Start(w) ==
  \/ StartSend(w) \/ StartIdentity(w) \/ StartWebhook(w)
  \/ \E body \in Registrations : StartRegister(w, body)
  \/ \E right \in BOOLEAN : StartLogin(w, right)
  \/ \E code \in 1 .. lastCode : StartVerify(w, code)

Continue(w) ==
  \/ CreateUser(w) \/ Put(w)
  \/ LoginRead(w) \/ LoginVerdict(w)
  \/ SendRead(w)
  \/ VerifyRead(w) \/ VerifyUser(w) \/ VerifyUpdate(w) \/ VerifyAnswer(w)
  \/ IdentityUser(w) \/ IdentitySession(w)
  \/ WebhookUser(w) \/ WebhookPromote(w)

Next ==
  \/ \E w \in Workers : Start(w) \/ Continue(w) \/ Crash(w)
  \/ \E mfa \in BOOLEAN : Refresh(mfa)
  \/ EnableMfa \/ IdentityPasses \/ Tick

Spec == Init /\ [][Next]_vars

-----------------------------------------------------------------------------
\* Properties

\* The types of the two rows and of the copies in flight; in particular a failure count
\* never stands at the limit without having become a lock.
TypeOK ==
  /\ user \in Users \cup {NoRow}
  /\ cred \in Credentials \cup {NoRow}
  /\ issued \subseteq BOOLEAN
  /\ now \in Nat /\ lastCode \in Nat
  /\ identity \in {"none", "open", "verified"}
  /\ \A w \in Workers : req[w].c \in Credentials

\* "One code, one use" (auth.ts:215): as long as requests do not overlap, and whichever
\* of them die, no code is exchanged for a second token pair.
OneCodeOneUse == alone => \A k \in DOMAIN uses : uses[k] <= 1

\* A session that has cleared MFA belongs to an account whose phone is verified, however
\* requests overlap and wherever they die: what the money endpoints take requireMfa for.
MfaMeansVerified == TRUE \in issued => user.level >= PhoneVerified

\* A lock ends by time and by nothing else, as long as requests do not overlap: no login,
\* code or refresh in between shortens or clears it (auth.ts:113-115).
LockHolds ==
  [][(alone' /\ cred # NoRow /\ Locked(cred)) => cred'.lockedUntil = cred.lockedUntil]_vars

\* "Never move someone down" (payments.ts:463-464): whatever is replayed or arrives late,
\* and from whichever route, an account keeps the level it holds, as long as requests do
\* not overlap.
NeverMovedDown ==
  [][(alone' /\ user # NoRow) => user'.level >= user.level]_vars
=============================================================================
