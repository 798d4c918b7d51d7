--------------------------- MODULE SessionsProofs ---------------------------
(***************************************************************************)
(* Sessions for any number of requests, any limits and any times.          *)
(*                                                                         *)
(* The invariant has two halves.  Typed, Registered and Verified hold      *)
(* however requests overlap: whatever a request or a token stands for has  *)
(* a users row behind it, and what hands out the mfa claim has raised the  *)
(* level first.  OneAtATime, Raises, KeepsLock and Spending speak of       *)
(* requests that do not overlap; then a busy worker's copy of the record   *)
(* is what the table holds, and it takes every step that is not Quiet.     *)
(* A request that dies is part of both.                                    *)
(***************************************************************************)
EXTENDS Sessions, TLAPS

Ops == {"none", "register", "login", "send", "verify", "identity", "webhook"}
Stages == {"idle", "create", "read", "verify", "put", "user", "update", "answer", "session",
           "promote"}

\* The types of what a worker is doing.
Requests == [op : Ops, at : Stages, right : BOOLEAN, code : Nat, c : Credentials]

Typed ==
  /\ user \in Users \cup {NoRow}
  /\ cred \in Credentials \cup {NoRow}
  /\ now \in Nat /\ lastCode \in Nat
  /\ issued \subseteq BOOLEAN
  /\ identity \in {"none", "open", "verified"}
  /\ req \in [Workers -> Requests]

\* A request past its first read of the account, and everything that tokens open, has a row.
Registered ==
  /\ issued # {} => user # NoRow
  /\ identity # "none" => user # NoRow
  /\ \A w \in Workers :
       req[w].op \in {"send", "verify", "identity", "webhook"} \/ req[w].at \in {"verify", "put"}
         => user # NoRow

LEMMA NoRowIsNoRecord == NoRow \notin Users /\ NoRow \notin Credentials
BY SessionsAssumption DEF Users, Credentials, Levels, Unverified, IdVerified

LEMMA NewIsCredentials == NewCredentials \in Credentials
BY SessionsAssumption DEF NewCredentials, Credentials, NoCode

LEMMA IdleIsRequest == Idle \in Requests
BY NewIsCredentials DEF Idle, Requests, NoCode, Ops, Stages

LEMMA TypedInit == Init => Typed
BY IdleIsRequest DEF Init, Typed

LEMMA TypedNext == ASSUME Typed, Registered, [Next]_vars PROVE Typed'
<1> USE IdleIsRequest, NewIsCredentials, NoRowIsNoRecord
<1>1. ASSUME NEW w \in Workers, NEW r \in Requests, Begin(w, r) PROVE Typed'
  BY <1>1 DEF Begin, Typed, rows
<1>2. ASSUME NEW w \in Workers, Start(w) PROVE Typed'
  <2>1. [Idle EXCEPT !.op = "send", !.at = "read"] \in Requests BY DEF Requests, Ops, Stages, Typed
  <2>2. [Idle EXCEPT !.op = "identity", !.at = "user"] \in Requests BY DEF Requests, Ops, Stages, Typed
  <2>3. [Idle EXCEPT !.op = "webhook", !.at = "user"] \in Requests BY DEF Requests, Ops, Stages, Typed
  <2>4. [Idle EXCEPT !.op = "register", !.at = "create"] \in Requests BY DEF Requests, Ops, Stages, Typed
  <2>5. \A right \in BOOLEAN : [Idle EXCEPT !.op = "login", !.at = "read", !.right = right] \in Requests
    BY DEF Requests, Ops, Stages, Typed
  <2>6. \A code \in 1 .. lastCode :
          [Idle EXCEPT !.op = "verify", !.at = "read", !.code = code] \in Requests
    <3>1. lastCode \in Nat BY DEF Typed
    <3>2. \A code \in 1 .. lastCode : code \in Nat BY <3>1
    <3>3. QED BY <3>2 DEF Requests, Ops, Stages
  <2>7. QED BY <1>1, <1>2, <2>1, <2>2, <2>3, <2>4, <2>5, <2>6
        DEF Start, StartSend, StartIdentity, StartWebhook, StartRegister, StartLogin, StartVerify
<1>3. ASSUME NEW w \in Workers, CreateUser(w) PROVE Typed'
  BY <1>3 DEF CreateUser, Typed, At, Keep, End, Requests, Ops, Stages, Users, Levels, Unverified, IdVerified
<1>4. ASSUME NEW w \in Workers, Put(w) PROVE Typed'
  <2>1. cred' \in Credentials BY <1>4 DEF Put, Typed, Requests
  <2>2. issued' \subseteq BOOLEAN
    <3>1. issued' = issued \/ issued' = issued \cup {FALSE} BY <1>4 DEF Put, IssuePair
    <3>2. issued \subseteq BOOLEAN /\ FALSE \in BOOLEAN BY DEF Typed
    <3>3. QED BY <3>1, <3>2
  <2>3. req' \in [Workers -> Requests]
    <3>1. CASE req[w].op = "verify" BY <1>4, <3>1 DEF Put, Typed, Requests, Ops, Stages
    <3>2. CASE req[w].op # "verify" BY <1>4, <3>2 DEF Put, End, Typed
    <3>3. QED BY <3>1, <3>2
  <2>4. QED BY <1>4, <2>1, <2>2, <2>3 DEF Put, Typed
<1>5. ASSUME NEW w \in Workers, LoginRead(w) PROVE Typed'
  BY <1>5 DEF LoginRead, Typed, At, End, Requests, Ops, Stages, rows
<1>6. ASSUME NEW w \in Workers, LoginVerdict(w) PROVE Typed'
  <2> DEFINE c == req[w].c
  <2>1. c \in [failed : 0 .. MaxFailed - 1, lockedUntil : Nat, otp : Nat, otpUntil : Nat]
    BY DEF Typed, Requests, Credentials
  <2>2. now + LockTime \in Nat /\ 0 \in 0 .. MaxFailed - 1 BY SessionsAssumption DEF Typed
  <2>3. ~(c.failed + 1 >= MaxFailed) => c.failed + 1 \in 0 .. MaxFailed - 1
    BY <2>1, SessionsAssumption
  <2>4. AfterVerdict(c, req[w].right) \in Credentials
    <3> HIDE DEF c
    <3>1. QED BY <2>1, <2>2, <2>3 DEF AfterVerdict, Credentials
  <2>5. QED BY <1>6, <2>4 DEF LoginVerdict, Typed, At, Keep, Requests, Ops, Stages, rows
<1>7. ASSUME NEW w \in Workers, SendRead(w) PROVE Typed'
  <2>1. CASE cred # NoRow
    <3>1. lastCode' \in Nat /\ now + OtpTime \in Nat
      BY <1>7, SessionsAssumption DEF SendRead, Typed
    <3>2. [cred EXCEPT !.otp = lastCode', !.otpUntil = now + OtpTime] \in Credentials
      BY <2>1, <3>1 DEF Typed, Credentials
    <3>3. QED BY <1>7, <2>1, <3>1, <3>2 DEF SendRead, Typed, At, Keep, Requests, Ops, Stages, rows
  <2>2. QED BY <1>7, <2>1 DEF SendRead, Typed, At, End, Requests, Ops, Stages, rows
<1>8. ASSUME NEW w \in Workers, VerifyRead(w) PROVE Typed'
  <2>1. cred # NoRow => Spent(cred) \in Credentials
    BY DEF Spent, Typed, Credentials, NoCode
  <2>2. QED BY <1>8, <2>1 DEF VerifyRead, Typed, At, Keep, End, Requests, Ops, Stages, rows
<1>9. ASSUME NEW w \in Workers,
             VerifyUser(w) \/ IdentityUser(w) \/ IdentitySession(w) \/ WebhookUser(w)
      PROVE Typed'
  BY <1>9 DEF VerifyUser, IdentityUser, IdentitySession, WebhookUser, Typed, At, GoTo, End,
     Requests, Ops, Stages, rows
<1>10. ASSUME NEW w \in Workers, VerifyUpdate(w) \/ WebhookPromote(w) PROVE Typed'
  <2>1. user # NoRow
    <3>1. req[w].op \in {"verify", "webhook"} BY <1>10 DEF VerifyUpdate, WebhookPromote, At
    <3>2. QED BY <3>1 DEF Registered
  <2>2. user' \in Users
    BY <1>10, <2>1 DEF VerifyUpdate, WebhookPromote, Typed, Users, Levels, PhoneVerified,
       Unverified, IdVerified
  <2>3. req' \in [Workers -> Requests]
    BY <1>10 DEF VerifyUpdate, WebhookPromote, Typed, At, GoTo, End, Requests, Ops, Stages
  <2>4. QED BY <1>10, <2>2, <2>3 DEF VerifyUpdate, WebhookPromote, Typed
<1>11. ASSUME NEW w \in Workers, VerifyAnswer(w) PROVE Typed'
  <2>1. issued' \subseteq BOOLEAN
    <3>1. issued' = issued \cup {TRUE} BY <1>11 DEF VerifyAnswer, IssuePair
    <3>2. QED BY <3>1, Zenon DEF Typed
  <2>2. QED BY <1>11, <2>1 DEF VerifyAnswer, Typed, End, rows
<1>12. ASSUME NEW mfa \in BOOLEAN, Refresh(mfa) PROVE Typed'
  <2>1. issued' \subseteq BOOLEAN
    <3>1. issued' = issued \cup {mfa} BY <1>12 DEF Refresh, IssuePair
    <3>2. QED BY <3>1, Zenon DEF Typed
  <2>2. QED BY <1>12, <2>1 DEF Refresh, Typed, rows
<1>13. CASE EnableMfa BY <1>13 DEF EnableMfa, Typed, Users
<1>14. CASE IdentityPasses \/ Tick BY <1>14 DEF IdentityPasses, Tick, Typed, rows
<1>15. ASSUME NEW w \in Workers, Crash(w) PROVE Typed' BY <1>15 DEF Crash, End, Typed, rows
<1>16. CASE UNCHANGED vars BY <1>16 DEF vars, Typed
<1>17. QED
  BY <1>2, <1>3, <1>4, <1>5, <1>6, <1>7, <1>8, <1>9, <1>10, <1>11, <1>12, <1>13, <1>14, <1>15,
     <1>16 DEF Next, Continue

\* A row once written stays: for every step and every reader.
LEMMA RowStays == ASSUME Typed, Registered, [Next]_vars, user # NoRow PROVE user' # NoRow
<1> USE NoRowIsNoRecord
<1>1. ASSUME NEW w \in Workers, Start(w) PROVE user' = user
  BY <1>1 DEF Start, StartSend, StartIdentity, StartWebhook, StartRegister, StartLogin, StartVerify,
     Begin, rows
<1>2. ASSUME NEW w \in Workers, CreateUser(w) \/ VerifyUpdate(w) \/ WebhookPromote(w)
      PROVE user' # NoRow
  <2>1. user' = user \/ user' \in Users
    BY <1>2 DEF CreateUser, VerifyUpdate, WebhookPromote, Typed, Users, Levels, Unverified,
       PhoneVerified, IdVerified
  <2>2. QED BY <2>1
<1>3. ASSUME NEW w \in Workers, Continue(w), ~CreateUser(w), ~VerifyUpdate(w), ~WebhookPromote(w)
      PROVE user' = user
  BY <1>3 DEF Continue, Put, LoginRead, LoginVerdict, SendRead, VerifyRead, VerifyUser,
     VerifyAnswer, IdentityUser, IdentitySession, WebhookUser, rows
<1>4. CASE EnableMfa
  <2>1. user' \in Users BY <1>4 DEF EnableMfa, Typed, Users
  <2>2. QED BY <2>1
<1>5. QED
  BY <1>1, <1>2, <1>3, <1>4 DEF Next, Crash, Refresh, IdentityPasses, Tick, rows, vars

Holder(r) == r.op \in {"send", "verify", "identity", "webhook"} \/ r.at \in {"verify", "put"}

Clear == issued = {} /\ identity = "none" /\ \A w \in Workers : ~Holder(req[w])

LEMMA RegisteredNext == ASSUME Typed, Registered, [Next]_vars PROVE Registered'
<1>1. CASE user # NoRow BY <1>1, RowStays DEF Registered
<1>2. CASE user = NoRow
  <2>1. Clear BY <1>2 DEF Registered, Holder, Clear
  <2>2. ASSUME NEW w \in Workers, Start(w) PROVE Clear'
    <3>1. \/ StartLogin(w, TRUE) \/ StartLogin(w, FALSE)
          \/ \E body \in Registrations : StartRegister(w, body)
      BY <2>1, <2>2 DEF Clear, Start, StartSend, StartIdentity, StartWebhook, StartVerify, Authenticated,
         ClearedMfa, Accepted
    <3>2. \E r \in Requests : ~Holder(r) /\ Begin(w, r)
      <4>1. ASSUME NEW right \in BOOLEAN, StartLogin(w, right) PROVE <3>2
        <5> DEFINE r == [Idle EXCEPT !.op = "login", !.at = "read", !.right = right]
        <5>1. r \in Requests /\ r.op = "login" /\ r.at = "read"
          BY IdleIsRequest DEF Requests, Ops, Stages
        <5>2. QED BY <4>1, <5>1 DEF StartLogin, Holder
      <4>2. ASSUME NEW body \in Registrations, StartRegister(w, body) PROVE <3>2
        <5> DEFINE r == [Idle EXCEPT !.op = "register", !.at = "create"]
        <5>1. r \in Requests /\ r.op = "register" /\ r.at = "create"
          BY IdleIsRequest DEF Requests, Ops, Stages
        <5>2. QED BY <4>2, <5>1 DEF StartRegister, Holder
      <4>3. QED BY <3>1, <4>1, <4>2
    <3>3. QED BY <2>1, <3>2 DEF Clear, Begin, Typed
  <2>3. ASSUME NEW w \in Workers, Continue(w) PROVE Clear' \/ user' # NoRow
    <3>1. CreateUser(w) \/ LoginRead(w)
      BY <2>1, <2>3 DEF Clear, Continue, Put, LoginVerdict, SendRead, VerifyRead, VerifyUser, VerifyUpdate,
         VerifyAnswer, IdentityUser, IdentitySession, WebhookUser, WebhookPromote, At, Holder
    <3>2. CASE CreateUser(w)
      <4>1. [level |-> Unverified, mfaEnabled |-> FALSE] \in Users
        BY DEF Users, Levels, Unverified, IdVerified
      <4>2. QED BY <1>2, <3>2, <4>1, NoRowIsNoRecord DEF CreateUser
    <3>3. CASE LoginRead(w)
      BY <1>2, <2>1, <3>3 DEF Clear, LoginRead, End, Idle, Typed, Requests, Holder
    <3>4. QED BY <3>1, <3>2, <3>3
  <2>4. ASSUME NEW w \in Workers, Crash(w) PROVE Clear'
    BY <2>1, <2>4 DEF Clear, Crash, End, Idle, Typed, Requests, Holder
  <2>5. ~EnableMfa /\ ~IdentityPasses /\ \A mfa \in BOOLEAN : ~Refresh(mfa)
    BY <1>2, <2>1 DEF Clear, EnableMfa, IdentityPasses, Refresh
  <2>6. Tick \/ UNCHANGED vars => Clear' BY <2>1 DEF Clear, Tick, vars
  <2>7. Clear' \/ user' # NoRow BY <2>2, <2>3, <2>4, <2>5, <2>6 DEF Next
  <2>8. QED BY <2>7 DEF Registered, Holder, Clear
<1>3. QED BY <1>1, <1>2

Verified ==
  /\ TRUE \in issued => user # NoRow /\ user.level >= PhoneVerified
  /\ \A w \in Workers : At(w, "verify", "answer") => user.level >= PhoneVerified

LEMMA LevelStays ==
  ASSUME Typed, [Next]_vars, user # NoRow, user.level >= PhoneVerified
  PROVE  user'.level >= PhoneVerified
<1>1. user \in Users BY DEF Typed
<1>2. \/ user' = user
      \/ user' = [user EXCEPT !.mfaEnabled = TRUE]
      \/ user' = [user EXCEPT !.level = PhoneVerified]
      \/ user' = [user EXCEPT !.level = IdVerified]
  <2>1. ASSUME NEW w \in Workers, Start(w) PROVE user' = user
    BY <2>1 DEF Start, StartSend, StartIdentity, StartWebhook, StartRegister, StartLogin,
       StartVerify, Begin, rows
  <2>2. ASSUME NEW w \in Workers, Continue(w), ~VerifyUpdate(w), ~WebhookPromote(w)
        PROVE user' = user
    BY <2>2 DEF Continue, CreateUser, Put, LoginRead, LoginVerdict, SendRead, VerifyRead,
       VerifyUser, VerifyAnswer, IdentityUser, IdentitySession, WebhookUser, rows
  <2>3. QED
    BY <2>1, <2>2 DEF Next, VerifyUpdate, WebhookPromote, Crash, Refresh, EnableMfa,
       IdentityPasses, Tick, rows, vars
<1>3. QED BY <1>1, <1>2 DEF Users, Levels, Unverified, PhoneVerified, IdVerified

\* A step of one request leaves the others where they are, and every step is one request's
\* or moves none.
LEMMA OthersKeep ==
  ASSUME Typed, NEW w \in Workers, NEW v \in Workers, v # w, Start(w) \/ Continue(w) \/ Crash(w)
  PROVE  req'[v] = req[v]
<1>1. CASE Start(w)
  BY <1>1 DEF Start, StartSend, StartIdentity, StartWebhook, StartRegister, StartLogin,
     StartVerify, Begin, Typed
<1>2. CASE Continue(w)
  BY <1>2 DEF Continue, CreateUser, Put, LoginRead, LoginVerdict, SendRead, VerifyRead, VerifyUser,
     VerifyUpdate, VerifyAnswer, IdentityUser, IdentitySession, WebhookUser, WebhookPromote, GoTo,
     End, Keep, Typed
<1>3. CASE Crash(w) BY <1>3 DEF Crash, End, Typed
<1>4. QED BY <1>1, <1>2, <1>3

LEMMA OwnStep ==
  ASSUME Typed, [Next]_vars, NEW v \in Workers, req'[v] # req[v]
  PROVE  Start(v) \/ Continue(v) \/ Crash(v)
BY OthersKeep DEF Next, Refresh, EnableMfa, IdentityPasses, Tick, vars

\* A route is entered at its first stage.
LEMMA Entered ==
  ASSUME Typed, NEW w \in Workers, Start(w)
  PROVE  /\ req'[w].at \in {"read", "user", "create"} /\ req'[w].c = NewCredentials
         /\ req'[w].op = "verify" => req'[w].code \in 1 .. lastCode
         /\ req'[w].at = "user" => req'[w].op \in {"identity", "webhook"}
         /\ req'[w].at = "create" => req'[w].op = "register"
<1>1. StartSend(w) => req'[w] = [Idle EXCEPT !.op = "send", !.at = "read"]
  BY DEF StartSend, Begin, Typed
<1>2. StartIdentity(w) => req'[w] = [Idle EXCEPT !.op = "identity", !.at = "user"]
  BY DEF StartIdentity, Begin, Typed
<1>3. StartWebhook(w) => req'[w] = [Idle EXCEPT !.op = "webhook", !.at = "user"]
  BY DEF StartWebhook, Begin, Typed
<1>4. ASSUME NEW body \in Registrations, StartRegister(w, body)
      PROVE  req'[w] = [Idle EXCEPT !.op = "register", !.at = "create"]
  BY <1>4 DEF StartRegister, Begin, Typed
<1>5. ASSUME NEW right \in BOOLEAN, StartLogin(w, right)
      PROVE  req'[w] = [Idle EXCEPT !.op = "login", !.at = "read", !.right = right]
  BY <1>5 DEF StartLogin, Begin, Typed
<1>6. ASSUME NEW code \in 1 .. lastCode, StartVerify(w, code)
      PROVE  req'[w] = [Idle EXCEPT !.op = "verify", !.at = "read", !.code = code]
  BY <1>6 DEF StartVerify, Begin, Typed
<1>7. QED BY <1>1, <1>2, <1>3, <1>4, <1>5, <1>6 DEF Start, Idle

\* Where a request that is not over goes on to, and with which credentials in hand.
LEMMA Advance ==
  ASSUME Typed, NEW w \in Workers, Continue(w), req'[w] # Idle
  PROVE  /\ req'[w].op = req[w].op /\ req'[w].code = req[w].code
         /\ \/ CreateUser(w) /\ req'[w].at = "put" /\ req'[w].c = NewCredentials /\ user = NoRow
            \/ Put(w) /\ req[w].op = "verify" /\ req'[w].at = "user" /\ req'[w].c = NewCredentials
            \/ LoginRead(w) /\ req'[w].at = "verify" /\ req'[w].c = cred
                 /\ cred # NoRow /\ ~Locked(cred)
            \/ LoginVerdict(w) /\ req'[w].at = "put"
                 /\ req'[w].c = AfterVerdict(req[w].c, req[w].right)
            \/ SendRead(w) /\ req'[w].at = "put" /\ cred # NoRow
                 /\ req'[w].c = [cred EXCEPT !.otp = lastCode', !.otpUntil = now + OtpTime]
            \/ VerifyRead(w) /\ req'[w].at = "put" /\ req'[w].c = Spent(cred)
                 /\ cred # NoRow /\ CodeHolds(cred, req[w].code)
            \/ VerifyUser(w) /\ req'[w].c = req[w].c
                 /\ req'[w].at = (IF user.level = Unverified THEN "update" ELSE "answer")
            \/ VerifyUpdate(w) /\ req'[w].at = "answer" /\ req'[w].c = req[w].c
            \/ IdentityUser(w) /\ req'[w].at = "session" /\ req'[w].c = req[w].c
            \/ WebhookUser(w) /\ req'[w].at = "promote" /\ req'[w].c = req[w].c
<1> DEFINE r == req[w]
<1>1. req \in [Workers -> Requests] /\ r \in Requests BY DEF Typed
<1>2. ~End(w) BY <1>1 DEF End
<1>3. ASSUME NEW c, Keep(w, c)
      PROVE  /\ req'[w].op = r.op /\ req'[w].code = r.code
             /\ req'[w].at = "put" /\ req'[w].c = c
  <2>1. req' = [req EXCEPT ![w] = [r EXCEPT !.c = c, !.at = "put"]] BY <1>1, <1>3 DEF Keep
  <2>2. req'[w] = [r EXCEPT !.c = c, !.at = "put"] BY <1>1, <2>1
  <2>3. QED BY <1>1, <2>2 DEF Requests
<1>4. ASSUME NEW at, GoTo(w, at)
      PROVE  /\ req'[w].op = r.op /\ req'[w].code = r.code
             /\ req'[w].at = at /\ req'[w].c = r.c
  <2>1. req'[w] = [r EXCEPT !.at = at] BY <1>1, <1>4 DEF GoTo
  <2>2. QED BY <1>1, <2>1 DEF Requests
<1>5. CASE CreateUser(w) BY <1>2, <1>3, <1>5 DEF CreateUser
<1>6. CASE Put(w)
  <2>1. r.op = "verify" BY <1>2, <1>6 DEF Put
  <2>2. req' = [req EXCEPT ![w] = [r EXCEPT !.c = NewCredentials, !.at = "user"]]
    BY <1>1, <1>6, <2>1 DEF Put
  <2>3. req'[w] = [r EXCEPT !.c = NewCredentials, !.at = "user"] BY <1>1, <2>2
  <2>4. req'[w].op = r.op /\ req'[w].code = r.code /\ req'[w].at = "user" /\ req'[w].c = NewCredentials
    BY <1>1, <2>3 DEF Requests
  <2>5. QED BY <1>6, <2>1, <2>4
<1>7. CASE LoginRead(w)
  <2>1. req' = [req EXCEPT ![w].c = cred, ![w].at = "verify"] BY <1>2, <1>7 DEF LoginRead
  <2>2. req' = [req EXCEPT ![w] = [r EXCEPT !.c = cred, !.at = "verify"]] BY <1>1, <2>1
  <2>3. req'[w] = [r EXCEPT !.c = cred, !.at = "verify"] BY <1>1, <2>2
  <2>4. req'[w].op = r.op /\ req'[w].code = r.code /\ req'[w].at = "verify" /\ req'[w].c = cred
    BY <1>1, <2>3 DEF Requests
  <2>5. cred # NoRow /\ ~Locked(cred) BY <1>2, <1>7 DEF LoginRead
  <2>6. QED BY <1>7, <2>4, <2>5
<1>8. CASE LoginVerdict(w) BY <1>3, <1>8 DEF LoginVerdict
<1>9. CASE SendRead(w) BY <1>2, <1>3, <1>9 DEF SendRead
<1>10. CASE VerifyRead(w) BY <1>2, <1>3, <1>10 DEF VerifyRead
<1>11. CASE VerifyUser(w) BY <1>4, <1>11 DEF VerifyUser
<1>12. CASE VerifyUpdate(w) BY <1>4, <1>12 DEF VerifyUpdate
<1>13. CASE IdentityUser(w) BY <1>2, <1>4, <1>13 DEF IdentityUser
<1>14. CASE WebhookUser(w) BY <1>2, <1>4, <1>14 DEF WebhookUser
<1>15. ~VerifyAnswer(w) /\ ~IdentitySession(w) /\ ~WebhookPromote(w)
  BY <1>2 DEF VerifyAnswer, IdentitySession, WebhookPromote
<1>16. QED
  BY <1>5, <1>6, <1>7, <1>8, <1>9, <1>10, <1>11, <1>12, <1>13, <1>14, <1>15 DEF Continue

LEMMA VerifiedNext == ASSUME Typed, Registered, Verified, [Next]_vars PROVE Verified'
<1>1. TRUE \in issued' => user' # NoRow /\ user'.level >= PhoneVerified
  <2>1. ASSUME NEW w \in Workers, VerifyAnswer(w)
        PROVE user # NoRow /\ user.level >= PhoneVerified
    BY <2>1 DEF VerifyAnswer, Verified, Registered, At
  <2>2. ASSUME NEW mfa \in BOOLEAN, Refresh(mfa) PROVE issued' = issued
    BY <2>2 DEF Refresh, Accepted, IssuePair
  <2>3. ASSUME NEW w \in Workers, Put(w) PROVE TRUE \in issued' => TRUE \in issued
    BY <2>3 DEF Put, IssuePair
  <2>4. ASSUME NEW w \in Workers, Continue(w), ~Put(w), ~VerifyAnswer(w) PROVE issued' = issued
    BY <2>4 DEF Continue, CreateUser, LoginRead, LoginVerdict, SendRead, VerifyRead, VerifyUser,
       VerifyUpdate, IdentityUser, IdentitySession, WebhookUser, WebhookPromote
  <2>5. ASSUME NEW w \in Workers, Start(w) PROVE issued' = issued
    BY <2>5 DEF Start, StartSend, StartIdentity, StartWebhook, StartRegister, StartLogin,
       StartVerify, Begin
  <2>6. \/ TRUE \in issued' => TRUE \in issued
        \/ user # NoRow /\ user.level >= PhoneVerified
    BY <2>1, <2>2, <2>3, <2>4, <2>5 DEF Next, Crash, EnableMfa, IdentityPasses, Tick, vars
  <2>7. QED BY <2>6, RowStays, LevelStays DEF Verified
<1>2. ASSUME NEW v \in Workers, At(v, "verify", "answer")'
      PROVE  user'.level >= PhoneVerified
  <2>1. CASE At(v, "verify", "answer")
    <3>1. user # NoRow /\ user.level >= PhoneVerified BY <2>1 DEF Verified, Registered, At
    <3>2. QED BY <3>1, LevelStays
  <2>2. CASE ~At(v, "verify", "answer")
    <3>1. VerifyUser(v) \/ VerifyUpdate(v)
      <4>1. Start(v) \/ Continue(v) \/ Crash(v) BY <1>2, <2>2, OwnStep DEF At
      <4>2. ~Start(v) BY <1>2, Entered DEF At
      <4>3. ~Crash(v) BY <1>2 DEF Crash, End, Idle, Typed, At
      <4>4. CASE Continue(v)
        <5>1. req'[v].op = "verify" /\ req'[v].at = "answer" BY <1>2 DEF At
        <5>2. req'[v] # Idle BY <5>1 DEF Idle
        <5>3. QED BY <4>4, <5>1, <5>2, Advance
      <4>5. QED BY <4>1, <4>2, <4>3, <4>4
    <3>2. user \in Users
      <4>1. user # NoRow BY <3>1 DEF VerifyUser, VerifyUpdate, At, Registered
      <4>2. QED BY <4>1 DEF Typed
    <3>3. QED
      BY <1>2, <3>1, <3>2 DEF VerifyUser, VerifyUpdate, At, GoTo, Typed, Requests, rows, Users,
         Levels, Unverified, PhoneVerified, IdVerified
  <2>3. QED BY <2>1, <2>2
<1>3. QED BY <1>1, <1>2 DEF Verified

-----------------------------------------------------------------------------
(***************************************************************************)
(* Requests that do not overlap.                                           *)
(***************************************************************************)

\* As long as the history says so, at most one worker is busy.
OneAtATime == alone => \A v, w \in Workers : v # w => req[v] = Idle \/ req[w] = Idle

\* The steps no request takes.
Quiet ==
  \/ EnableMfa \/ IdentityPasses \/ Tick \/ UNCHANGED vars
  \/ \E mfa \in BOOLEAN : Refresh(mfa)

LEMMA QuietKeeps ==
  ASSUME Typed, Quiet
  PROVE  /\ req' = req /\ alone' = alone /\ cred' = cred /\ uses' = uses /\ lastCode' = lastCode
         /\ now' >= now
         /\ user' = user \/ (user # NoRow /\ user' = [user EXCEPT !.mfaEnabled = TRUE])
<1>1. now \in Nat BY DEF Typed
<1>2. QED BY <1>1 DEF Quiet, EnableMfa, IdentityPasses, Tick, Refresh, rows, vars

LEMMA Busy == ASSUME NEW w \in Workers, Continue(w) \/ Crash(w) PROVE req[w] # Idle
<1>1. Idle.at = "idle" /\ Idle.op = "none" BY DEF Idle
<1>2. QED
  BY <1>1 DEF Continue, CreateUser, Put, LoginRead, LoginVerdict, SendRead, VerifyRead, VerifyUser,
     VerifyUpdate, VerifyAnswer, IdentityUser, IdentitySession, WebhookUser, WebhookPromote, Crash, At

LEMMA AloneFalls == ASSUME [Next]_vars, alone' PROVE alone
BY DEF Next, Start, StartSend, StartIdentity, StartWebhook, StartRegister, StartLogin,
   StartVerify, Begin, Continue, CreateUser, Put, LoginRead, LoginVerdict, SendRead, VerifyRead,
   VerifyUser, VerifyUpdate, VerifyAnswer, IdentityUser, IdentitySession, WebhookUser,
   WebhookPromote, Crash, Refresh, EnableMfa, IdentityPasses, Tick, vars

\* While requests do not overlap, a busy worker has taken the step itself, or the step was quiet.
LEMMA OwnOrQuiet ==
  ASSUME Typed, OneAtATime, [Next]_vars, alone', NEW w \in Workers, req'[w] # Idle
  PROVE  Start(w) \/ Continue(w) \/ Quiet
<1>1. ASSUME NEW v \in Workers, v # w, Start(v) PROVE FALSE
  <2>1. req[w] = Idle
    BY <1>1 DEF Start, StartSend, StartIdentity, StartWebhook, StartRegister, StartLogin,
       StartVerify, Begin
  <2>2. QED BY <1>1, <2>1, OthersKeep
<1>2. ASSUME NEW v \in Workers, v # w, Continue(v) \/ Crash(v) PROVE FALSE
  <2>1. req[v] # Idle BY <1>2, Busy
  <2>2. req[w] = req'[w] BY <1>2, OthersKeep
  <2>3. QED BY <1>2, <2>1, <2>2, AloneFalls DEF OneAtATime
<1>3. ~Crash(w) BY DEF Crash, End, Typed
<1>4. QED BY <1>1, <1>2, <1>3 DEF Next, Quiet

LEMMA OneAtATimeNext == ASSUME Typed, OneAtATime, [Next]_vars PROVE OneAtATime'
<1> SUFFICES ASSUME alone', NEW v \in Workers, NEW w \in Workers, v # w,
                    req'[v] # Idle, req'[w] # Idle
             PROVE  FALSE
  BY DEF OneAtATime, Idle
<1>1. CASE Quiet BY <1>1, QuietKeeps DEF OneAtATime
<1>2. CASE ~Quiet
  <2>1. Start(v) \/ Continue(v) BY <1>2, OwnOrQuiet
  <2>2. Start(w) \/ Continue(w) BY <1>2, OwnOrQuiet
  <2>3. req'[w] = req[w] /\ req'[v] = req[v] BY <2>1, <2>2, OthersKeep
  <2>4. QED BY <2>3, AloneFalls DEF OneAtATime
<1>3. QED BY <1>1, <1>2

-----------------------------------------------------------------------------
\* The account that a code is about to raise has still the level that was read.
Raises ==
  alone => \A w \in Workers : At(w, "verify", "update") => user.level = Unverified

LEMMA RaisesNext ==
  ASSUME Typed, Registered, OneAtATime, Raises, [Next]_vars PROVE Raises'
<1> SUFFICES ASSUME alone', NEW w \in Workers, At(w, "verify", "update")'
             PROVE  user'.level = Unverified
  BY DEF Raises
<1>1. req'[w].op = "verify" /\ req'[w].at = "update" BY DEF At
<1>2. req'[w] # Idle BY <1>1 DEF Idle
<1>3. CASE Quiet
  <2>1. At(w, "verify", "update") /\ alone BY <1>1, <1>3, QuietKeeps DEF At
  <2>2. user # NoRow /\ user.level = Unverified BY <2>1 DEF At, Registered, Raises
  <2>3. QED BY <1>3, <2>2, QuietKeeps DEF Typed, Users
<1>4. CASE Start(w) BY <1>1, <1>4, Entered
<1>5. CASE Continue(w)
  <2>1. VerifyUser(w) /\ user.level = Unverified BY <1>1, <1>2, <1>5, Advance
  <2>2. QED BY <2>1 DEF VerifyUser, rows
<1>6. QED BY <1>2, <1>3, <1>4, <1>5, OwnOrQuiet

LEMMA NeverDown ==
  ASSUME Typed, Registered, Raises, [Next]_vars, alone', user # NoRow
  PROVE  user'.level >= user.level
<1>1. user \in Users BY DEF Typed
<1>2. user.level \in {0, 1, 2} BY <1>1 DEF Users, Levels, Unverified, IdVerified
<1>3. ASSUME NEW w \in Workers, VerifyUpdate(w) PROVE user'.level >= user.level
  <2>1. user.level = Unverified BY <1>3, AloneFalls DEF VerifyUpdate, Raises
  <2>2. QED BY <1>1, <1>2, <1>3, <2>1 DEF VerifyUpdate, Users, Unverified, PhoneVerified
<1>4. ASSUME NEW w \in Workers, WebhookPromote(w) PROVE user'.level >= user.level
  BY <1>1, <1>2, <1>4 DEF WebhookPromote, Users, IdVerified
<1>5. ASSUME NEW w \in Workers, Start(w) PROVE user' = user
  BY <1>5 DEF Start, StartSend, StartIdentity, StartWebhook, StartRegister, StartLogin,
     StartVerify, Begin, rows
<1>6. ASSUME NEW w \in Workers, Continue(w), ~VerifyUpdate(w), ~WebhookPromote(w)
      PROVE user' = user
  BY <1>6 DEF Continue, CreateUser, Put, LoginRead, LoginVerdict, SendRead, VerifyRead,
     VerifyUser, VerifyAnswer, IdentityUser, IdentitySession, WebhookUser, rows
<1>7. \/ user' = user
      \/ user' = [user EXCEPT !.mfaEnabled = TRUE]
      \/ \E w \in Workers : VerifyUpdate(w) \/ WebhookPromote(w)
  BY <1>5, <1>6 DEF Next, Crash, Refresh, EnableMfa, IdentityPasses, Tick, rows, vars
<1>8. QED BY <1>1, <1>2, <1>3, <1>4, <1>7 DEF Users

-----------------------------------------------------------------------------
\* What a request is about to store leaves a lock that holds as it is.
KeepsLock ==
  /\ cred # NoRow => user # NoRow
  /\ alone =>
       \A w \in Workers :
         /\ At(w, "register", "put") => cred = NoRow
         /\ At(w, "login", "verify") \/ At(w, "login", "put") => cred # NoRow /\ cred.lockedUntil <= now
         /\ At(w, "send", "put") \/ At(w, "verify", "put")
              => cred # NoRow /\ req[w].c.lockedUntil = cred.lockedUntil
         /\ req[w].at = "put" => req[w].op \in {"register", "login", "send", "verify"}

LEMMA CredStays ==
  ASSUME [Next]_vars, \A w \in Workers : ~Put(w) PROVE cred' = cred
BY DEF Next, Start, StartSend, StartIdentity, StartWebhook, StartRegister, StartLogin,
   StartVerify, Begin, Continue, CreateUser, LoginRead, LoginVerdict, SendRead, VerifyRead,
   VerifyUser, VerifyUpdate, VerifyAnswer, IdentityUser, IdentitySession, WebhookUser,
   WebhookPromote, Crash, Refresh, EnableMfa, IdentityPasses, Tick, rows, vars

LEMMA LockKept ==
  ASSUME Typed, KeepsLock, [Next]_vars, alone', cred # NoRow, Locked(cred)
  PROVE  cred'.lockedUntil = cred.lockedUntil
<1>1. ASSUME NEW w \in Workers, Put(w) PROVE cred'.lockedUntil = cred.lockedUntil
  <2>1. req[w].at = "put" /\ cred' = req[w].c BY <1>1 DEF Put
  <2>2. req[w].op \in {"register", "login", "send", "verify"} BY <2>1, AloneFalls DEF KeepsLock
  <2>3. req[w].op # "register" BY <2>1, AloneFalls DEF KeepsLock, At
  <2>4. req[w].op # "login"
    <3>1. ASSUME req[w].op = "login" PROVE cred.lockedUntil <= now
      BY <2>1, <3>1, AloneFalls DEF KeepsLock, At
    <3>2. cred.lockedUntil \in Nat /\ now \in Nat BY DEF Typed, Credentials
    <3>3. QED BY <3>1, <3>2 DEF Locked
  <2>5. req[w].c.lockedUntil = cred.lockedUntil
    BY <2>1, <2>2, <2>3, <2>4, AloneFalls DEF KeepsLock, At
  <2>6. QED BY <2>1, <2>5
<1>2. QED BY <1>1, CredStays

LEMMA KeepsLockNext ==
  ASSUME Typed, Registered, OneAtATime, KeepsLock, [Next]_vars PROVE KeepsLock'
<1>1. cred' # NoRow => user' # NoRow
  <2>1. CASE user # NoRow BY <2>1, RowStays
  <2>2. CASE user = NoRow
    <3>1. \A w \in Workers : ~Put(w) BY <2>2 DEF Put, Registered
    <3>2. QED BY <2>2, <3>1, CredStays DEF KeepsLock
  <2>3. QED BY <2>1, <2>2
<1>2. ASSUME alone', NEW w \in Workers
      PROVE  /\ At(w, "register", "put")' => cred' = NoRow
             /\ At(w, "login", "verify")' \/ At(w, "login", "put")'
                  => cred' # NoRow /\ cred'.lockedUntil <= now'
             /\ At(w, "send", "put")' \/ At(w, "verify", "put")'
                  => cred' # NoRow /\ req'[w].c.lockedUntil = cred'.lockedUntil
             /\ req'[w].at = "put" => req'[w].op \in {"register", "login", "send", "verify"}
  <2>1. CASE req'[w].at \notin {"verify", "put"} BY <2>1 DEF At
  <2>2. CASE req'[w].at \in {"verify", "put"}
    <3>1. req'[w] # Idle BY <2>2 DEF Idle
    <3>2. CASE Quiet
      <4>1. req' = req /\ cred' = cred /\ alone /\ now' >= now BY <1>2, <3>2, QuietKeeps
      <4>2. cred # NoRow => cred.lockedUntil \in Nat BY DEF Typed, Credentials
      <4>3. now \in Nat /\ now' \in Nat
        BY <3>2 DEF Typed, Quiet, EnableMfa, IdentityPasses, Tick, Refresh, vars
      <4>4. QED BY <4>1, <4>2, <4>3 DEF KeepsLock, At
    <3>3. CASE Start(w) BY <2>2, <3>3, Entered
    <3>4. CASE Continue(w)
      <4>1. alone BY <1>2, AloneFalls
      <4>2. CASE CreateUser(w) /\ req'[w].at = "put" /\ user = NoRow
        <5>1. cred' = cred /\ req'[w].op = "register"
          BY <3>1, <3>4, <4>2, Advance DEF CreateUser, At
        <5>2. QED BY <4>2, <5>1 DEF KeepsLock, At
      <4>3. CASE LoginRead(w) /\ req'[w].at = "verify" /\ cred # NoRow /\ ~Locked(cred)
        <5>1. cred' = cred /\ now' = now /\ req'[w].op = "login"
          BY <3>1, <3>4, <4>3, Advance DEF LoginRead, At, rows
        <5>2. cred.lockedUntil \in Nat /\ now \in Nat BY <4>3 DEF Typed, Credentials
        <5>3. QED BY <4>3, <5>1, <5>2 DEF Locked, At
      <4>4. CASE LoginVerdict(w) /\ req'[w].at = "put"
        <5>1. cred' = cred /\ now' = now /\ req'[w].op = "login" /\ At(w, "login", "verify")
          BY <3>1, <3>4, <4>4, Advance DEF LoginVerdict, At, rows
        <5>2. QED BY <4>1, <4>4, <5>1 DEF KeepsLock, At
      <4>5. CASE SendRead(w) /\ req'[w].at = "put" /\ cred # NoRow
                  /\ req'[w].c = [cred EXCEPT !.otp = lastCode', !.otpUntil = now + OtpTime]
        <5>1. cred' = cred /\ req'[w].op = "send"
          BY <3>1, <3>4, <4>5, Advance DEF SendRead, At, rows
        <5>2. cred \in Credentials BY <4>5 DEF Typed
        <5>3. req'[w].c.lockedUntil = cred.lockedUntil BY <4>5, <5>2 DEF Credentials
        <5>4. QED BY <4>5, <5>1, <5>3 DEF At
      <4>6. CASE VerifyRead(w) /\ req'[w].at = "put" /\ req'[w].c = Spent(cred) /\ cred # NoRow
        <5>1. cred' = cred /\ req'[w].op = "verify"
          BY <3>1, <3>4, <4>6, Advance DEF VerifyRead, At, rows
        <5>2. cred \in Credentials BY <4>6 DEF Typed
        <5>3. req'[w].c.lockedUntil = cred.lockedUntil BY <4>6, <5>2 DEF Credentials, Spent
        <5>4. QED BY <4>6, <5>1, <5>3 DEF At
      <4>7. QED BY <2>2, <3>1, <3>4, <4>2, <4>3, <4>4, <4>5, <4>6, Advance
    <3>5. QED BY <1>2, <3>1, <3>2, <3>3, <3>4, OwnOrQuiet
  <2>3. QED BY <2>1, <2>2
<1>3. QED BY <1>1, <1>2 DEF KeepsLock

-----------------------------------------------------------------------------
\* A request that has a code in its hands: it will put the spent credentials and be answered.
Spends(w, k) ==
  req[w].op = "verify" /\ req[w].code = k /\ req[w].at \in {"put", "user", "update", "answer"}

\* A code that was answered is nowhere any more: not in the row, not in a request.
Dead(k) ==
  /\ uses[k] = 1 /\ k <= lastCode
  /\ cred # NoRow => cred.otp # k
  /\ \A w \in Workers : req[w].c.otp # k /\ ~Spends(w, k)

Spending ==
  /\ uses \in [1 .. MaxCodes -> 0 .. 2]
  /\ alone =>
       /\ \A k \in 1 .. MaxCodes : uses[k] # 0 => Dead(k)
       /\ \A w \in Workers : req[w].op = "verify" =>
            /\ req[w].code \in 1 .. lastCode
            /\ req[w].at = "put" => req[w].c.otp = NoCode
            /\ req[w].at \in {"user", "update", "answer"} =>
                 (cred # NoRow => cred.otp # req[w].code)

LEMMA IdleHoldsNothing ==
  Idle.op = "none" /\ Idle.at = "idle" /\ Idle.code = 0 /\ Idle.c.otp = 0
BY DEF Idle, NoCode, NewCredentials

LEMMA UsesStay ==
  ASSUME [Next]_vars, \A w \in Workers : ~VerifyAnswer(w) PROVE uses' = uses
BY DEF Next, Start, StartSend, StartIdentity, StartWebhook, StartRegister, StartLogin,
   StartVerify, Begin, Continue, CreateUser, Put, LoginRead, LoginVerdict, SendRead, VerifyRead,
   VerifyUser, VerifyUpdate, IdentityUser, IdentitySession, WebhookUser,
   WebhookPromote, Crash, Refresh, EnableMfa, IdentityPasses, Tick, vars

LEMMA CodesGrow ==
  ASSUME Typed, [Next]_vars PROVE lastCode' \in Nat /\ lastCode' >= lastCode
<1>1. lastCode \in Nat BY DEF Typed
<1>2. lastCode' = lastCode \/ lastCode' = lastCode + 1
  <2>1. ASSUME NEW w \in Workers, Start(w) PROVE lastCode' = lastCode
    BY <2>1 DEF Start, StartSend, StartIdentity, StartWebhook, StartRegister, StartLogin,
       StartVerify, Begin
  <2>2. ASSUME NEW w \in Workers, Continue(w), ~SendRead(w) PROVE lastCode' = lastCode
    BY <2>2 DEF Continue, CreateUser, Put, LoginRead, LoginVerdict, VerifyRead, VerifyUser,
       VerifyUpdate, VerifyAnswer, IdentityUser, IdentitySession, WebhookUser, WebhookPromote
  <2>3. QED
    BY <2>1, <2>2 DEF Next, SendRead, Crash, Refresh, EnableMfa, IdentityPasses, Tick, vars
<1>3. QED BY <1>1, <1>2

\* A code that is dead stays dead.
LEMMA DeadStays ==
  ASSUME Typed, OneAtATime, Spending, [Next]_vars, alone',
         NEW k \in 1 .. MaxCodes, Dead(k), uses' = uses
  PROVE  Dead(k)'
<1>1. alone BY AloneFalls
<1>2. k \in Nat /\ k # 0 /\ lastCode \in Nat BY SessionsAssumption DEF Typed
<1>3. uses'[k] = 1 /\ k <= lastCode' BY <1>2, CodesGrow DEF Dead
<1>4. cred' # NoRow => cred'.otp # k
  <2>1. ASSUME NEW w \in Workers, Put(w) PROVE cred'.otp # k BY <2>1 DEF Put, Dead
  <2>2. QED BY <2>1, CredStays DEF Dead
<1>5. ASSUME NEW w \in Workers PROVE req'[w].c.otp # k /\ ~Spends(w, k)'
  <2>1. CASE req'[w] = Idle BY <1>2, <2>1, IdleHoldsNothing DEF Spends
  <2>2. CASE Quiet BY <2>2, QuietKeeps DEF Dead, Spends
  <2>3. CASE Start(w)
    BY <1>2, <2>3, Entered DEF NewCredentials, NoCode, Spends
  <2>4. CASE Continue(w) /\ req'[w] # Idle
    <3>1. req[w].c.otp # k /\ ~Spends(w, k) BY DEF Dead
    <3>2. req[w].c \in Credentials BY DEF Typed, Requests
    <3>3. AfterVerdict(req[w].c, req[w].right).otp = req[w].c.otp
      BY <3>2 DEF AfterVerdict, Credentials
    <3>4. req'[w].c.otp # k
      <4>1. CASE SendRead(w) /\ cred # NoRow
                   /\ req'[w].c = [cred EXCEPT !.otp = lastCode', !.otpUntil = now + OtpTime]
        <5>1. lastCode' = lastCode + 1 BY <4>1 DEF SendRead
        <5>2. req'[w].c.otp = lastCode' BY <4>1 DEF Typed, Credentials
        <5>3. QED BY <1>2, <5>1, <5>2 DEF Dead
      <4>2. CASE req'[w].c = Spent(cred) /\ cred # NoRow
        BY <1>2, <4>2 DEF Spent, NoCode, Typed, Credentials
      <4>3. CASE req'[w].c = NewCredentials BY <1>2, <4>3 DEF NewCredentials, NoCode
      <4>4. CASE req'[w].c = cred /\ cred # NoRow BY <4>4 DEF Dead
      <4>5. CASE req'[w].c = AfterVerdict(req[w].c, req[w].right) BY <3>1, <3>3, <4>5
      <4>6. CASE req'[w].c = req[w].c BY <3>1, <4>6
      <4>7. QED BY <2>4, <4>1, <4>2, <4>3, <4>4, <4>5, <4>6, Advance
    <3>5. ~Spends(w, k)'
      <4>1. SUFFICES ASSUME req[w].op = "verify", req[w].code = k,
                            req'[w].at \in {"put", "user", "update", "answer"}
                     PROVE  FALSE
        BY <2>4, Advance DEF Spends
      <4>2. ~CreateUser(w) /\ ~LoginRead(w) /\ ~LoginVerdict(w) /\ ~SendRead(w)
            /\ ~IdentityUser(w) /\ ~WebhookUser(w)
        BY <4>1 DEF CreateUser, LoginRead, LoginVerdict, SendRead, IdentityUser, WebhookUser, At
      <4>3. ~Put(w) /\ ~VerifyUser(w) /\ ~VerifyUpdate(w)
        BY <3>1, <4>1 DEF Put, VerifyUser, VerifyUpdate, At, Spends
      <4>4. CodeHolds(cred, k) /\ cred # NoRow BY <2>4, <4>1, <4>2, <4>3, Advance
      <4>5. QED BY <4>4 DEF CodeHolds, Dead
    <3>6. QED BY <3>4, <3>5
  <2>5. QED BY <2>1, <2>2, <2>3, <2>4, OwnOrQuiet
<1>6. QED BY <1>3, <1>4, <1>5 DEF Dead

\* The answer that hands out a token pair for a code.
LEMMA AnswerKills ==
  ASSUME Typed, OneAtATime, Spending, [Next]_vars, alone', NEW w \in Workers, VerifyAnswer(w)
  PROVE  /\ uses' \in [1 .. MaxCodes -> 0 .. 2]
         /\ \A k \in 1 .. MaxCodes : uses'[k] # 0 => Dead(k)'
<1> DEFINE k0 == req[w].code
<1>1. alone /\ req[w].op = "verify" /\ req[w].at = "answer"
  BY AloneFalls DEF VerifyAnswer, At
<1>2. k0 \in 1 .. lastCode /\ (cred # NoRow => cred.otp # k0) /\ lastCode \in Nat
  BY <1>1 DEF Spending, Typed
<1>3. uses' = [uses EXCEPT ![k0] = IF @ < 2 THEN @ + 1 ELSE 2] /\ cred' = cred /\ lastCode' = lastCode
  BY DEF VerifyAnswer, rows
<1>4. \A v \in Workers : req'[v] = Idle
  <2>1. req'[w] = Idle BY DEF VerifyAnswer, End, Typed
  <2>2. ASSUME NEW v \in Workers, v # w PROVE req'[v] = Idle
    <3>1. Continue(w) BY DEF Continue
    <3>2. req[w] # Idle BY <3>1, Busy
    <3>3. req[v] = Idle BY <1>1, <2>2, <3>2 DEF OneAtATime
    <3>4. QED BY <2>2, <3>1, <3>3, OthersKeep
  <2>3. QED BY <2>1, <2>2
<1>5. k0 \in 1 .. MaxCodes => uses[k0] = 0
  BY <1>1 DEF Spending, Dead, Spends
<1>6. uses' \in [1 .. MaxCodes -> 0 .. 2]
  <2>1. uses \in [1 .. MaxCodes -> 0 .. 2] BY DEF Spending
  <2>2. ASSUME NEW n \in 0 .. 2 PROVE (IF n < 2 THEN n + 1 ELSE 2) \in 0 .. 2 OBVIOUS
  <2>3. QED BY <1>3, <2>1, <2>2
<1>7. ASSUME NEW k \in 1 .. MaxCodes, uses'[k] # 0 PROVE Dead(k)'
  <2>1. k # 0 /\ k \in Nat BY SessionsAssumption
  <2>2. \A v \in Workers : req'[v].c.otp # k /\ ~Spends(v, k)'
    BY <1>4, <2>1, IdleHoldsNothing DEF Spends
  <2>3. CASE k = k0
    <3>1. uses'[k] = 1 BY <1>3, <1>5, <2>3 DEF Spending
    <3>2. k <= lastCode' BY <1>2, <1>3, <2>3
    <3>3. cred' # NoRow => cred'.otp # k BY <1>2, <1>3, <2>3
    <3>4. QED BY <2>2, <3>1, <3>2, <3>3 DEF Dead
  <2>4. CASE k # k0
    <3>1. uses'[k] = uses[k] BY <1>3, <2>4 DEF Spending
    <3>2. Dead(k) BY <1>1, <1>7, <3>1 DEF Spending
    <3>3. QED BY <1>3, <2>2, <3>1, <3>2 DEF Dead
  <2>5. QED BY <2>3, <2>4
<1>8. QED BY <1>6, <1>7

LEMMA SpendingNext ==
  ASSUME Typed, OneAtATime, Spending, [Next]_vars PROVE Spending'
<1>1. uses' \in [1 .. MaxCodes -> 0 .. 2]
  <2>1. uses \in [1 .. MaxCodes -> 0 .. 2] BY DEF Spending
  <2>2. ASSUME NEW n \in 0 .. 2 PROVE (IF n < 2 THEN n + 1 ELSE 2) \in 0 .. 2 OBVIOUS
  <2>3. ASSUME NEW w \in Workers, VerifyAnswer(w) PROVE <1>1
    <3>1. uses' = [uses EXCEPT ![req[w].code] = IF @ < 2 THEN @ + 1 ELSE 2]
      BY <2>3 DEF VerifyAnswer
    <3>2. QED BY <2>1, <2>2, <3>1
  <2>4. QED BY <2>1, <2>3, UsesStay
<1>2. ASSUME alone', NEW k \in 1 .. MaxCodes, uses'[k] # 0 PROVE Dead(k)'
  <2>1. CASE \E w \in Workers : VerifyAnswer(w) BY <1>2, <2>1, AnswerKills
  <2>2. CASE \A w \in Workers : ~VerifyAnswer(w)
    <3>1. uses' = uses BY <2>2, UsesStay
    <3>2. Dead(k) BY <1>2, <3>1, AloneFalls DEF Spending
    <3>3. QED BY <1>2, <3>1, <3>2, DeadStays
  <2>3. QED BY <2>1, <2>2
<1>3. ASSUME alone', NEW w \in Workers, req'[w].op = "verify"
      PROVE  /\ req'[w].code \in 1 .. lastCode'
             /\ req'[w].at = "put" => req'[w].c.otp = NoCode
             /\ req'[w].at \in {"user", "update", "answer"} =>
                  (cred' # NoRow => cred'.otp # req'[w].code)
  <2>1. alone /\ req'[w] # Idle BY <1>3, AloneFalls, IdleHoldsNothing
  <2>2. lastCode \in Nat /\ lastCode' \in Nat /\ lastCode' >= lastCode BY CodesGrow DEF Typed
  <2>3. CASE Quiet BY <1>3, <2>1, <2>3, QuietKeeps DEF Spending
  <2>4. CASE Start(w) BY <1>3, <2>2, <2>4, Entered
  <2>5. CASE Continue(w)
    <3>1. req[w].op = "verify" /\ req'[w].code = req[w].code BY <1>3, <2>1, <2>5, Advance
    <3>2. req[w].code \in 1 .. lastCode BY <2>1, <3>1 DEF Spending
    <3>3. ~CreateUser(w) /\ ~LoginRead(w) /\ ~LoginVerdict(w) /\ ~SendRead(w)
          /\ ~IdentityUser(w) /\ ~WebhookUser(w)
      BY <3>1 DEF CreateUser, LoginRead, LoginVerdict, SendRead, IdentityUser, WebhookUser, At
    <3>4. CASE Put(w) /\ req'[w].at = "user"
      <4>1. cred'.otp = 0 /\ req[w].code # 0
        BY <2>1, <3>1, <3>2, <3>4 DEF Put, Spending, NoCode
      <4>2. QED BY <2>2, <3>1, <3>2, <3>4, <4>1
    <3>5. CASE VerifyRead(w) /\ req'[w].at = "put" /\ req'[w].c = Spent(cred) /\ cred # NoRow
      <4>1. req'[w].c.otp = NoCode BY <3>5 DEF Spent, Typed, Credentials
      <4>2. QED BY <2>2, <3>1, <3>2, <3>5, <4>1
    <3>6. CASE VerifyUser(w) /\ req'[w].at \in {"update", "answer"}
      <4>1. req[w].at = "user" /\ cred' = cred BY <3>6 DEF VerifyUser, At, rows
      <4>2. QED BY <2>1, <2>2, <3>1, <3>2, <3>6, <4>1 DEF Spending
    <3>7. CASE VerifyUpdate(w) /\ req'[w].at = "answer"
      <4>1. req[w].at = "update" /\ cred' = cred BY <3>7 DEF VerifyUpdate, At
      <4>2. QED BY <2>1, <2>2, <3>1, <3>2, <3>7, <4>1 DEF Spending
    <3>8. QED BY <2>1, <2>5, <3>3, <3>4, <3>5, <3>6, <3>7, Advance
  <2>6. QED BY <1>3, <2>1, <2>3, <2>4, <2>5, OwnOrQuiet
<1>4. QED BY <1>1, <1>2, <1>3 DEF Spending

-----------------------------------------------------------------------------
IInv == Typed /\ Registered /\ Verified /\ OneAtATime /\ Raises /\ KeepsLock /\ Spending

LEMMA InitHolds == Init => IInv
<1> SUFFICES ASSUME Init PROVE IInv OBVIOUS
<1>1. Typed BY TypedInit
<1>2. issued = {} /\ user = NoRow /\ cred = NoRow /\ identity = "none" BY DEF Init
<1>3. \A w \in Workers : req[w] = Idle BY DEF Init
<1>4. Registered BY <1>2, <1>3, IdleHoldsNothing DEF Registered
<1>5. Verified BY <1>2, <1>3, IdleHoldsNothing DEF Verified, At
<1>6. OneAtATime BY <1>3 DEF OneAtATime
<1>7. Raises BY <1>3, IdleHoldsNothing DEF Raises, At
<1>8. KeepsLock BY <1>2, <1>3, IdleHoldsNothing DEF KeepsLock, At
<1>9. Spending
  <2>1. uses = [k \in 1 .. MaxCodes |-> 0] BY DEF Init
  <2>2. uses \in [1 .. MaxCodes -> 0 .. 2] /\ \A k \in 1 .. MaxCodes : uses[k] = 0 BY <2>1
  <2>3. QED BY <1>3, <2>2, IdleHoldsNothing DEF Spending
<1>10. QED BY <1>1, <1>4, <1>5, <1>6, <1>7, <1>8, <1>9 DEF IInv

LEMMA StepHolds == IInv /\ [Next]_vars => IInv'
<1> SUFFICES ASSUME IInv, [Next]_vars PROVE IInv' OBVIOUS
<1> USE DEF IInv
<1>1. Typed' /\ Registered' BY TypedNext, RegisteredNext
<1>2. Verified' BY VerifiedNext
<1>3. OneAtATime' /\ Raises' BY OneAtATimeNext, RaisesNext
<1>4. KeepsLock' BY KeepsLockNext
<1>5. Spending' BY SpendingNext
<1>6. QED BY <1>1, <1>2, <1>3, <1>4, <1>5

LEMMA Invariant == Spec => []IInv
BY InitHolds, StepHolds, PTL DEF Spec

\* The rows and every copy of the credentials that a request carries are of the right
\* types; a failure count never stands at the limit without having become a lock, for any
\* number of requests and any limits (auth.ts, infra/postgres/store.ts).
THEOREM SessionTypes == Spec => []TypeOK
<1>1. Typed => TypeOK BY DEF Typed, TypeOK, Requests
<1>2. QED BY Invariant, <1>1, PTL DEF IInv

\* Whatever overlaps and whatever dies, tokens with the mfa claim exist only of an account
\* whose phone is verified: requireMfa never lets an unverified account at the money.
THEOREM MfaIsEarned == Spec => []MfaMeansVerified
<1>1. Verified => MfaMeansVerified BY DEF Verified, MfaMeansVerified
<1>2. QED BY Invariant, <1>1, PTL DEF IInv

\* Requests that do not overlap exchange a code for one token pair at most, wherever one of
\* them dies: otp/verify stores the spent record before it hands anything out.
THEOREM CodesSpentOnce == Spec => []OneCodeOneUse
<1>1. Spending => OneCodeOneUse
  <2>1. SUFFICES ASSUME Spending, alone, NEW k \in DOMAIN uses PROVE uses[k] <= 1
    BY DEF OneCodeOneUse
  <2>2. uses \in [1 .. MaxCodes -> 0 .. 2] BY <2>1 DEF Spending
  <2>3. k \in 1 .. MaxCodes BY <2>1, <2>2
  <2>4. uses[k] = 0 \/ uses[k] = 1 BY <2>1, <2>3 DEF Spending, Dead
  <2>5. QED BY <2>4
<1>2. QED BY Invariant, <1>1, PTL DEF IInv

\* Requests that do not overlap never lower a verification level: the otp check writes its
\* level only over the lowest, and the webhook's is the highest.
THEOREM LevelsOnlyRise == Spec => NeverMovedDown
<1>1. IInv /\ [Next]_vars => (alone' /\ user # NoRow => user'.level >= user.level)
  BY NeverDown DEF IInv
<1>2. QED BY Invariant, <1>1, PTL DEF Spec, NeverMovedDown

\* Requests that do not overlap leave a lock that holds as it is: a login is turned away
\* before it changes the record, and send and verify put the lock back as they read it.
THEOREM LocksRunOut == Spec => LockHolds
<1>1. IInv /\ [Next]_vars =>
        (alone' /\ cred # NoRow /\ Locked(cred) => cred'.lockedUntil = cred.lockedUntil)
  BY LockKept DEF IInv
<1>2. QED BY Invariant, <1>1, PTL DEF Spec, LockHolds
=============================================================================
