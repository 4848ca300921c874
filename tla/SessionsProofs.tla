-------------------------- MODULE SessionsProofs ---------------------------
(***************************************************************************)
(* Sessions of one account, for every set of devices and requests.         *)
(*                                                                         *)
(* What TokensAreCurrent and RevocationIsFinal rest on is that a stamp is  *)
(* written once: no request has written, read or issued anything under the *)
(* stamp of a request whose batch has not run (RequestsFresh).  What       *)
(* OneTokenPerLogin and RotatedOnce rest on is that a token is inserted    *)
(* once, by the request it is named for, and that what a rotation spends   *)
(* had been given out (Made, Spent).  LoginsYieldOnlyToRevocation rests on *)
(* what a login counts on until its batch: with the present stamp it holds *)
(* an account that may sign in, and a conflict is one that its second      *)
(* attempt resolves (LoginsGoOn).                                          *)
(***************************************************************************)
EXTENDS Sessions, TLAPS

-----------------------------------------------------------------------------
(* The inductive invariant. *)

\* Nothing in the system carries the value s yet; the requests that have not
\* written theirs.
Fresh(s) ==
  /\ account.stamp # s
  /\ account.password # s
  /\ \A l \in Logins : login[l].stamp # s /\ login[l].password # s
  /\ \A r \in Refreshes : refresh[r].stamp # s
  /\ \A a \in access : a.stamp # s

Pending ==
  {c \in Changes : change[c].stage # "done"}
    \cup {l \in Logins : login[l].stage \in {"idle", "recovering"}}

RequestsFresh == \A s \in Pending : Fresh(s)

\* A login that holds the present stamp verified the present password.
LoginsKnow ==
  \A l \in Logins \ Recoveries :
    login[l].stage # "idle" /\ login[l].stamp = account.stamp
      => login[l].password = account.password

\* A session bound to a device carries a stamp some login generated.
Bound ==
  /\ \A l \in Logins :
       login[l].stage = "prepared" /\ login[l].device # None
         => login[l].dstamp \in Logins
  /\ \A k \in TokenIds :
       tokens[k] # None /\ tokens[k].device # None
         => tokens[k].dstamp \in Logins

\* Tokens are inserted by the requests they are named for, and so are the
\* families.
Made ==
  /\ \A l \in Logins : login[l].stage # "done" =>
       /\ tokens[l] = None
       /\ \A k \in TokenIds : tokens[k] # None => tokens[k].family # l
  /\ \A r \in Refreshes : refresh[r].stage # "done" => tokens[r] = None

\* What a refresh holds was given out, and what it spent is not stored.
Spent ==
  \A r \in Refreshes :
    /\ refresh[r].stage \in {"token", "user", "device", "done"} =>
         refresh[r].token \in GivenOut /\ refresh[r].row # None
    /\ refresh[r].stage = "done" => tokens[refresh[r].token] = None

\* A row, while it is stored, is as the refreshes that read it hold it.
RowsStand ==
  \A r \in Refreshes :
    /\ refresh[r].stage \in {"token", "user", "device"}
    /\ tokens[refresh[r].token] # None
    => refresh[r].row = tokens[refresh[r].token]

\* A login that met a conflict may try once more; only a recovery login goes
\* through the recovery stages.
LoginShape ==
  \A l \in Logins :
    /\ login[l].stage = "conflict" => login[l].retries = 1
    /\ login[l].stage \in {"recovering", "reread"} => l \in Recoveries

\* No claim was issued under the stamp a banned account has.
BansAreFresh ==
  account.status = "banned" => \A a \in access : a.stamp # account.stamp

\* A login that holds the present stamp holds an account that may sign in,
\* with the recovery code it read; and, unless its device was removed, a
\* conflict is with a stamp its second attempt takes over.
GoesOn(l) ==
  LET req  == login[l]
      kept == req.device \notin removed
  IN  /\ account.status = "active" /\ ~account.deleted
      /\ req.stage = "recovering" => account.recovery = req.code
      /\ req.stage = "conflict" /\ kept =>
           devices[req.device] \in Logins \ {req.dstamp}
      /\ req.stage = "verified" /\ req.retries = 0 /\ kept =>
           devices[req.device] \in Logins
      /\ req.stage = "prepared" /\ req.retries = 0 /\ kept =>
           devices[req.device] \in Logins /\ devices[req.device] = req.dstamp

\* Where a login may be, and that it goes on while it holds the present stamp.
OnCourse(l) ==
  /\ login[l].stage = "conflict" \/ login[l].retries = 0 =>
       login[l].device # None
  /\ login[l].stage \in {"recovering", "reread"} => login[l].retries = 1
  /\ login[l].stage = "reread" => login[l].stamp # account.stamp
  /\ /\ login[l].stage \in {"recovering", "verified", "prepared", "conflict"}
     /\ login[l].stamp = account.stamp
     => GoesOn(l)

LoginsGoOn == \A l \in Logins : OnCourse(l)

\* A deleted account is banned.
DeletionsBan == account.deleted => account.status = "banned"

IInv ==
  /\ TypeOK
  /\ LoginShape
  /\ RequestsFresh
  /\ LoginsKnow
  /\ Bound
  /\ Made
  /\ Spent
  /\ RowsStand
  /\ TokensAreCurrent
  /\ OneTokenPerLogin
  /\ RotatedOnce
  /\ SessionsProveThePassword
  /\ BansAreFresh
  /\ DeletionsBan
  /\ LoginsGoOn
  /\ LoginsYieldOnlyToRevocation

-----------------------------------------------------------------------------
(* What the seven changes of the stamp have in common. *)

Replaces(c) ==
  /\ change[c].stage = "read"
  /\ account'.stamp = c
  /\ account'.password \in {account.password, c}
  /\ account'.password = account.password \/ tokens' = NoTokens
  /\ tokens' = NoTokens
  /\ change' = [change EXCEPT ![c] = [NoChange EXCEPT !.stage = "done"]]
  /\ UNCHANGED <<login, refresh, access>>

ReplacingStep(c) ==
  \/ changePassword(c)
  \/ ChangeSecondFactor(c)
  \/ DisableFactor(c)
  \/ recoverTwoFactor(c)
  \/ deleteAllDevices(c)
  \/ BanUser(c)
  \/ deleteAccountData(c)

LEMMA ReplacingReplaces ==
  ASSUME TypeOK, NEW c \in Changes, ReplacingStep(c)
  PROVE  /\ Replaces(c)
         /\ account'.status = "active" => account.status = "active"
         /\ account' \in AccountRow
         /\ devices' \in [Devices -> DeviceStamps]
         /\ removed' \subseteq Devices
<1> USE DEF TypeOK, AccountRow, Replaces, Close, Claimed, Stamps, DeviceStamps
<1>1. CASE changePassword(c)
  BY <1>1 DEF changePassword
<1>2. CASE ChangeSecondFactor(c)
  <2>1. PICK code \in {None, c, account.recovery} :
          account' = [account EXCEPT !.stamp = c, !.recovery = code]
    BY <1>2 DEF ChangeSecondFactor
  <2> QED
    BY <1>2, <2>1 DEF ChangeSecondFactor
<1>3. CASE DisableFactor(c)
  BY <1>3 DEF DisableFactor
<1>4. CASE recoverTwoFactor(c)
  BY <1>4 DEF recoverTwoFactor
<1>5. CASE deleteAllDevices(c)
  BY <1>5 DEF deleteAllDevices
<1>6. CASE BanUser(c)
  BY <1>6 DEF BanUser
<1>7. CASE deleteAccountData(c)
  BY <1>7 DEF deleteAccountData
<1> QED
  BY <1>1, <1>2, <1>3, <1>4, <1>5, <1>6, <1>7 DEF ReplacingStep

\* Everything a step can be.
LEMMA Steps ==
  ASSUME [Next]_vars
  PROVE  \/ \E l \in Logins, d \in Devices \cup {None} : StartLogin(l, d)
         \/ \E l \in Logins : SpendRecoveryCode(l)
         \/ \E l \in Logins : RereadAccount(l)
         \/ \E l \in Logins : prepareLoginDevice(l)
         \/ \E l \in Logins : issueIdentitySession(l)
         \/ \E l \in Logins : retryAfterDeviceConflict(l)
         \/ \E r \in Refreshes : ReadToken(r)
         \/ \E r \in Refreshes : ReadUser(r)
         \/ \E r \in Refreshes : ReadDevice(r)
         \/ \E r \in Refreshes : Rotate(r)
         \/ \E k \in TokenIds : revokeToken(k)
         \/ \E c \in Changes, kind \in Kinds : StartChange(c, kind)
         \/ \E c \in Changes : ReplacingStep(c)
         \/ \E c \in Changes : UnbanUser(c)
         \/ \E c \in Changes : LoseRace(c)
         \/ \E x \in Removals : StartRemoval(x)
         \/ \E x \in Removals : deleteDevices(x)
         \/ UNCHANGED vars
<1>1. CASE \E l \in Logins : LoginStep(l)
  BY <1>1 DEF LoginStep
<1>2. CASE \E r \in Refreshes : RefreshStep(r)
  BY <1>2 DEF RefreshStep
<1>3. CASE \E c \in Changes : ChangeStep(c)
  BY <1>3 DEF ChangeStep, ReplacingStep
<1>4. CASE \E x \in Removals : RemovalStep(x)
  BY <1>4 DEF RemovalStep
<1> QED
  BY <1>1, <1>2, <1>3, <1>4 DEF Next

-----------------------------------------------------------------------------
(* Types. *)

LEMMA TypeInit ==
  ASSUME Init
  PROVE  TypeOK
  BY DEF Init, TypeOK, Stamps, DeviceStamps, NoLogin, NoRefresh, NoChange,
         NoRemoval, Kinds, AccountRow, LoginRequest, RefreshRequest,
         ChangeRequest, RemovalRequest

LEMMA RowTyped ==
  ASSUME NEW d \in Devices \cup {None}, NEW ds \in Logins \cup {None},
         NEW s \in Stamps, NEW p \in Stamps, NEW f \in Logins
  PROVE  /\ Row(d, ds, s, p, f) \in TokenRow
         /\ Claim(d, ds, s) \in Claims
  BY DEF Row, TokenRow, Claim, Claims

LEMMA TypeStep ==
  ASSUME TypeOK, LoginShape, Spent, [Next]_vars
  PROVE  TypeOK'
<1> USE DEF TypeOK
<1>1. ASSUME NEW l \in Logins, NEW d \in Devices \cup {None}, StartLogin(l, d)
      PROVE  TypeOK'
  <2> DEFINE v ==
        [stage |-> IF l \in Recoveries THEN "recovering" ELSE "verified",
         stamp |-> account.stamp, password |-> account.password,
         code |-> account.recovery, device |-> d, dstamp |-> None,
         retries |-> NoLogin.retries]
  <2>1. v \in LoginRequest
    BY DEF AccountRow, LoginRequest, NoLogin
  <2>2. login' = [login EXCEPT ![l] = v]
    BY <1>1 DEF StartLogin
  <2> QED
    BY <1>1, <2>1, <2>2 DEF StartLogin
<1>2. ASSUME NEW l \in Logins, SpendRecoveryCode(l)
      PROVE  TypeOK'
  <2>1. /\ [login[l] EXCEPT !.stage = "reread"] \in LoginRequest
        /\ [login[l] EXCEPT !.stage = "refused"] \in LoginRequest
    BY DEF LoginRequest
  <2>2. login' \in [Logins -> LoginRequest]
    BY <1>2, <2>1 DEF SpendRecoveryCode
  <2>3. tokens' \in [TokenIds -> TokenRow \cup {None}]
    BY <1>2 DEF SpendRecoveryCode, NoTokens
  <2>4. account' \in AccountRow
    BY <1>2 DEF SpendRecoveryCode, Stamps, AccountRow
  <2> QED
    BY <1>2, <2>2, <2>3, <2>4 DEF SpendRecoveryCode
<1>3. ASSUME NEW l \in Logins, RereadAccount(l)
      PROVE  TypeOK'
  <2> DEFINE v == [login[l] EXCEPT !.stage = "verified", !.stamp = account.stamp]
             w == [login[l] EXCEPT !.stage = "refused"]
  <2> account.stamp \in Stamps
    BY DEF AccountRow
  <2>1. v \in LoginRequest /\ w \in LoginRequest
    BY DEF LoginRequest
  <2>2. login' = [login EXCEPT ![l] = v] \/ login' = [login EXCEPT ![l] = w]
    BY <1>3 DEF RereadAccount
  <2> QED
    BY <1>3, <2>1, <2>2 DEF RereadAccount
<1>4. ASSUME NEW l \in Logins, prepareLoginDevice(l)
      PROVE  TypeOK'
  <2> DEFINE ds == SessionStamp(l, login[l].device)
             v == [login[l] EXCEPT !.stage = "prepared", !.dstamp = ds]
  <2>1. ds \in Logins \cup {None}
    BY DEF SessionStamp
  <2>2. v \in LoginRequest
    BY <2>1 DEF LoginRequest
  <2>3. login' = [login EXCEPT ![l] = v]
    BY <1>4 DEF prepareLoginDevice
  <2> QED
    BY <1>4, <2>2, <2>3 DEF prepareLoginDevice
<1>5. ASSUME NEW l \in Logins, issueIdentitySession(l)
      PROVE  TypeOK'
  <2> DEFINE req == login[l]
  <2>1. /\ req.device \in Devices \cup {None}
        /\ req.dstamp \in Logins \cup {None}
        /\ req.stamp \in Stamps
        /\ req.password \in Stamps
    BY DEF LoginRequest
  <2>2. /\ Row(req.device, req.dstamp, req.stamp, req.password, l) \in TokenRow
        /\ Claim(req.device, req.dstamp, req.stamp) \in Claims
    BY <2>1, RowTyped
  <2>3. devices' \in [Devices -> DeviceStamps]
    BY <1>5, <2>1 DEF issueIdentitySession, Upserted, DeviceStamps
  <2>4. /\ tokens' \in [TokenIds -> TokenRow \cup {None}]
        /\ access' \subseteq Claims
    BY <1>5, <2>2 DEF issueIdentitySession, TokenIds
  <2>5. /\ [login[l] EXCEPT !.stage = "done"] \in LoginRequest
        /\ [login[l] EXCEPT !.stage = "conflict"] \in LoginRequest
        /\ [login[l] EXCEPT !.stage = "refused"] \in LoginRequest
    BY DEF LoginRequest
  <2>6. \/ login' = [login EXCEPT ![l] = [@ EXCEPT !.stage = "done"]]
        \/ login' = [login EXCEPT ![l] = [@ EXCEPT !.stage = "conflict"]]
        \/ login' = [login EXCEPT ![l] = [@ EXCEPT !.stage = "refused"]]
    BY <1>5 DEF issueIdentitySession
  <2>7. login' \in [Logins -> LoginRequest]
    BY <2>5, <2>6
  <2> QED
    BY <1>5, <2>3, <2>4, <2>7 DEF issueIdentitySession
<1>6. ASSUME NEW l \in Logins, retryAfterDeviceConflict(l)
      PROVE  TypeOK'
  <2>1. login[l].retries = 1
    BY <1>6 DEF retryAfterDeviceConflict, LoginShape
  <2>2. /\ [login[l] EXCEPT !.stage = "refused"] \in LoginRequest
        /\ [login[l] EXCEPT !.stage = "verified", !.retries = 0]
             \in LoginRequest
    BY DEF LoginRequest
  <2> DEFINE v == [login[l] EXCEPT !.stage = "verified",
                                    !.retries = login[l].retries - 1]
  <2>5. login[l].retries - 1 = 0
    BY <2>1
  <2>6. v = [login[l] EXCEPT !.stage = "verified", !.retries = 0]
    BY <2>5
  <2>3. \/ login' = [login EXCEPT ![l] = [@ EXCEPT !.stage = "refused"]]
        \/ login' = [login EXCEPT ![l] = v]
    BY <1>6 DEF retryAfterDeviceConflict
  <2>4. login' \in [Logins -> LoginRequest]
    BY <2>2, <2>3, <2>6
  <2> QED
    BY <1>6, <2>4 DEF retryAfterDeviceConflict
<1>7. ASSUME NEW r \in Refreshes, ReadToken(r)
      PROVE  TypeOK'
  <2>1. PICK k \in GivenOut :
          refresh' = [refresh EXCEPT ![r] =
            IF tokens[k] = None THEN [@ EXCEPT !.stage = "refused"]
            ELSE [@ EXCEPT !.stage = "token", !.token = k, !.row = tokens[k]]]
    BY <1>7 DEF ReadToken
  <2>2. k \in TokenIds
    BY DEF GivenOut, TokenIds
  <2>3. /\ [refresh[r] EXCEPT !.stage = "refused"] \in RefreshRequest
        /\ [refresh[r] EXCEPT !.stage = "token", !.token = k, !.row = tokens[k]]
             \in RefreshRequest
    BY <2>2 DEF RefreshRequest
  <2>4. refresh' \in [Refreshes -> RefreshRequest]
    BY <2>1, <2>3
  <2> QED
    BY <1>7, <2>4 DEF ReadToken
<1>8. ASSUME NEW r \in Refreshes, ReadUser(r)
      PROVE  TypeOK'
  <2>1. /\ [refresh[r] EXCEPT !.stage = "refused"] \in RefreshRequest
        /\ [refresh[r] EXCEPT !.stage = "user", !.stamp = account.stamp]
             \in RefreshRequest
    BY DEF RefreshRequest, AccountRow
  <2>2. refresh' \in [Refreshes -> RefreshRequest]
    BY <1>8, <2>1 DEF ReadUser, Reject
  <2>3. tokens' \in [TokenIds -> TokenRow \cup {None}]
    BY <1>8 DEF ReadUser, Reject, Without
  <2> QED
    BY <1>8, <2>2, <2>3 DEF ReadUser
<1>9. ASSUME NEW r \in Refreshes, ReadDevice(r)
      PROVE  TypeOK'
  <2>1. /\ [refresh[r] EXCEPT !.stage = "refused"] \in RefreshRequest
        /\ [refresh[r] EXCEPT !.stage = "device"] \in RefreshRequest
    BY DEF RefreshRequest
  <2>2. refresh' \in [Refreshes -> RefreshRequest]
    BY <1>9, <2>1 DEF ReadDevice, Reject
  <2>3. tokens' \in [TokenIds -> TokenRow \cup {None}]
    BY <1>9 DEF ReadDevice, Reject, Without
  <2> QED
    BY <1>9, <2>2, <2>3 DEF ReadDevice
<1>10. ASSUME NEW r \in Refreshes, Rotate(r)
       PROVE  TypeOK'
  <2>1. /\ [refresh[r] EXCEPT !.stage = "refused"] \in RefreshRequest
        /\ [refresh[r] EXCEPT !.stage = "done"] \in RefreshRequest
    BY DEF RefreshRequest
  <2>2. refresh' \in [Refreshes -> RefreshRequest]
    BY <1>10, <2>1 DEF Rotate
  <2>3. refresh[r].token \in TokenIds
    BY <1>10 DEF Rotate, Spent, GivenOut, TokenIds
  <2>4. tokens' \in [TokenIds -> TokenRow \cup {None}]
    BY <1>10, <2>3 DEF Rotate, Without
  <2>5. refresh[r].row \in TokenRow /\ refresh[r].stamp \in Stamps
    BY <1>10 DEF Rotate, Spent, RefreshRequest
  <2>6. Claim(refresh[r].row.device, refresh[r].row.dstamp, refresh[r].stamp)
          \in Claims
    BY <2>5 DEF Claim, Claims, TokenRow
  <2> QED
    BY <1>10, <2>2, <2>4, <2>6 DEF Rotate
<1>11. ASSUME NEW k \in TokenIds, revokeToken(k)
       PROVE  TypeOK'
  BY <1>11 DEF revokeToken, Without
<1>12. ASSUME NEW c \in Changes, NEW kind \in Kinds, StartChange(c, kind)
       PROVE  TypeOK'
  <2>1. [stage |-> "read", kind |-> kind, stamp |-> account.stamp,
         password |-> account.password, recovery |-> account.recovery]
          \in ChangeRequest
    BY DEF ChangeRequest, AccountRow
  <2> QED
    BY <1>12, <2>1 DEF StartChange
<1> [NoChange EXCEPT !.stage = "done"] \in ChangeRequest
  BY DEF NoChange, ChangeRequest, Kinds, Stamps
<1>13. ASSUME NEW c \in Changes, ReplacingStep(c)
       PROVE  TypeOK'
  <2>1. /\ Replaces(c)
        /\ account' \in AccountRow
        /\ devices' \in [Devices -> DeviceStamps]
        /\ removed' \subseteq Devices
    BY <1>13, ReplacingReplaces
  <2>2. UNCHANGED removal
    BY <1>13 DEF ReplacingStep, changePassword, ChangeSecondFactor,
         DisableFactor, recoverTwoFactor, deleteAllDevices, BanUser,
         deleteAccountData, Close
  <2> QED
    BY <2>1, <2>2 DEF Replaces, NoTokens
<1>14. ASSUME NEW c \in Changes, UnbanUser(c)
       PROVE  TypeOK'
  BY <1>14 DEF UnbanUser, Close, AccountRow
<1>15. ASSUME NEW c \in Changes, LoseRace(c)
       PROVE  TypeOK'
  BY <1>15 DEF LoseRace, Close
<1>16. ASSUME NEW x \in Removals, StartRemoval(x)
       PROVE  TypeOK'
  BY <1>16 DEF StartRemoval, DeviceStamps, RemovalRequest
<1>17. ASSUME NEW x \in Removals, deleteDevices(x)
       PROVE  TypeOK'
  BY <1>17 DEF deleteDevices, DeviceStamps, Matching, NoRemoval, RemovalRequest
<1>18. CASE UNCHANGED vars
  BY <1>18 DEF vars
<1> QED
  BY <1>1, <1>2, <1>3, <1>4, <1>5, <1>6, <1>7, <1>8, <1>9, <1>10, <1>11,
     <1>12, <1>13, <1>14, <1>15, <1>16, <1>17, <1>18, Steps

-----------------------------------------------------------------------------
(* Freshness, and what a login knows. *)

\* The three parts of the invariant that only the requests' own records and
\* the values in use decide.
LEMMA FreshStep ==
  ASSUME TypeOK, Spent, RequestsFresh, [Next]_vars
  PROVE  RequestsFresh'
<1> SUFFICES ASSUME NEW s \in Pending'
             PROVE  Fresh(s)'
  BY DEF RequestsFresh
<1> USE DEF TypeOK, Fresh
<1> DEFINE Before == s \in Pending => Fresh(s)
<1>0. Before
  BY DEF RequestsFresh
<1>1. ASSUME NEW l \in Logins, NEW d \in Devices \cup {None}, StartLogin(l, d)
      PROVE  Fresh(s)'
  <2>1. s \in Pending
    BY <1>1 DEF StartLogin, Pending
  <2> QED
    BY <1>1, <2>1, <1>0 DEF StartLogin
<1>2. ASSUME NEW l \in Logins, SpendRecoveryCode(l)
      PROVE  Fresh(s)'
  <2>2. /\ \A m \in Logins : /\ login'[m].stamp = login[m].stamp
                             /\ login'[m].password = login[m].password
                             /\ m # l => login'[m].stage = login[m].stage
        /\ login'[l].stage \in {"reread", "refused"}
    BY <1>2 DEF SpendRecoveryCode, LoginRequest
  <2>3. change' = change /\ l \notin Changes
    BY <1>2, RequestAssumption DEF SpendRecoveryCode
  <2>1. s \in Pending /\ s # l
    BY <2>2, <2>3 DEF Pending
  <2>4. account'.stamp \in {account.stamp, l} /\ account'.password = account.password
    BY <1>2 DEF SpendRecoveryCode, AccountRow
  <2>5. refresh' = refresh /\ access' = access
    BY <1>2 DEF SpendRecoveryCode
  <2> QED
    BY <2>1, <2>2, <2>4, <2>5, <1>0
<1>3. ASSUME NEW l \in Logins, RereadAccount(l)
      PROVE  Fresh(s)'
  <2>1. s \in Pending
    BY <1>3 DEF RereadAccount, Pending
  <2> QED
    BY <1>3, <2>1, <1>0 DEF RereadAccount, LoginRequest
<1>4. ASSUME NEW l \in Logins, prepareLoginDevice(l)
      PROVE  Fresh(s)'
  <2>1. s \in Pending
    BY <1>4 DEF prepareLoginDevice, Pending
  <2> QED
    BY <1>4, <2>1, <1>0 DEF prepareLoginDevice, LoginRequest
<1>5. ASSUME NEW l \in Logins, issueIdentitySession(l)
      PROVE  Fresh(s)'
  <2>2. /\ \A m \in Logins : /\ login'[m].stamp = login[m].stamp
                             /\ login'[m].password = login[m].password
                             /\ m # l => login'[m].stage = login[m].stage
        /\ login'[l].stage \in {"done", "conflict", "refused"}
    BY <1>5 DEF issueIdentitySession, LoginRequest
  <2>1. s \in Pending
    BY <1>5, <2>2 DEF issueIdentitySession, Pending
  <2>3. /\ account' = account /\ refresh' = refresh
        /\ \A a \in access' : a \in access \/ a.stamp = login[l].stamp
    BY <1>5 DEF issueIdentitySession, Claim
  <2> QED
    BY <2>1, <2>2, <2>3, <1>0
<1>6. ASSUME NEW l \in Logins, retryAfterDeviceConflict(l)
      PROVE  Fresh(s)'
  <2>2. /\ \A m \in Logins : /\ login'[m].stamp = login[m].stamp
                             /\ login'[m].password = login[m].password
                             /\ m # l => login'[m].stage = login[m].stage
        /\ login'[l].stage \in {"verified", "refused"}
    BY <1>6 DEF retryAfterDeviceConflict, LoginRequest
  <2>1. s \in Pending
    BY <1>6, <2>2 DEF retryAfterDeviceConflict, Pending
  <2>3. account' = account /\ refresh' = refresh /\ access' = access
    BY <1>6 DEF retryAfterDeviceConflict
  <2> QED
    BY <2>1, <2>2, <2>3, <1>0
<1>7. ASSUME NEW r \in Refreshes, ReadToken(r)
      PROVE  Fresh(s)'
  <2>1. s \in Pending
    BY <1>7 DEF ReadToken, Pending
  <2> QED
    BY <1>7, <2>1, <1>0 DEF ReadToken, RefreshRequest
<1>8. ASSUME NEW r \in Refreshes, ReadUser(r)
      PROVE  Fresh(s)'
  <2>1. s \in Pending
    BY <1>8 DEF ReadUser, Pending
  <2> QED
    BY <1>8, <2>1, <1>0 DEF ReadUser, Reject, RefreshRequest
<1>9. ASSUME NEW r \in Refreshes, ReadDevice(r)
      PROVE  Fresh(s)'
  <2>1. s \in Pending
    BY <1>9 DEF ReadDevice, Pending
  <2> QED
    BY <1>9, <2>1, <1>0 DEF ReadDevice, Reject, RefreshRequest
<1>10. ASSUME NEW r \in Refreshes, Rotate(r)
       PROVE  Fresh(s)'
  <2>1. s \in Pending
    BY <1>10 DEF Rotate, Pending
  <2> QED
    BY <1>10, <2>1, <1>0 DEF Rotate, RefreshRequest, Claim
<1>11. ASSUME NEW k \in TokenIds, revokeToken(k)
       PROVE  Fresh(s)'
  BY <1>11, <1>0 DEF revokeToken, Pending
<1>12. ASSUME NEW c \in Changes, NEW kind \in Kinds, StartChange(c, kind)
       PROVE  Fresh(s)'
  <2>1. s \in Pending
    BY <1>12 DEF StartChange, Pending
  <2> QED
    BY <1>12, <2>1, <1>0 DEF StartChange
<1>13. ASSUME NEW c \in Changes, ReplacingStep(c)
       PROVE  Fresh(s)'
  <2>1. Replaces(c)
    BY <1>13, ReplacingReplaces
  <2>2. s \in Pending /\ s # c
    BY <2>1, RequestAssumption DEF Replaces, Pending, NoChange
  <2> QED
    BY <2>1, <2>2, <1>0 DEF Replaces
<1>14. ASSUME NEW c \in Changes, UnbanUser(c)
       PROVE  Fresh(s)'
  <2>1. s \in Pending
    BY <1>14 DEF UnbanUser, Close, Pending, NoChange
  <2> QED
    BY <1>14, <2>1, <1>0 DEF UnbanUser, Close, AccountRow
<1>15. ASSUME NEW c \in Changes, LoseRace(c)
       PROVE  Fresh(s)'
  <2>1. s \in Pending
    BY <1>15 DEF LoseRace, Close, Pending, NoChange
  <2> QED
    BY <1>15, <2>1, <1>0 DEF LoseRace, Close
<1>16. ASSUME NEW x \in Removals, StartRemoval(x)
       PROVE  Fresh(s)'
  BY <1>16, <1>0 DEF StartRemoval, Pending
<1>17. ASSUME NEW x \in Removals, deleteDevices(x)
       PROVE  Fresh(s)'
  BY <1>17, <1>0 DEF deleteDevices, Pending
<1>18. CASE UNCHANGED vars
  BY <1>18, <1>0 DEF vars, Pending
<1> QED
  BY <1>1, <1>2, <1>3, <1>4, <1>5, <1>6, <1>7, <1>8, <1>9, <1>10, <1>11,
     <1>12, <1>13, <1>14, <1>15, <1>16, <1>17, <1>18, Steps

\* What a login's steps after its start leave alone.
LEMMA LoginFrame ==
  ASSUME TypeOK, NEW l \in Logins,
         \/ SpendRecoveryCode(l)
         \/ prepareLoginDevice(l)
         \/ issueIdentitySession(l)
         \/ retryAfterDeviceConflict(l)
  PROVE  /\ \A m \in Logins : /\ login'[m].stamp = login[m].stamp
                              /\ login'[m].password = login[m].password
                              /\ login'[m].device = login[m].device
                              /\ m # l => login'[m] = login[m]
         /\ login[l].stage \in {"recovering", "verified", "prepared",
                                "conflict"}
         /\ login'[l].stage \in {"reread", "verified", "prepared", "conflict",
                                 "done", "refused"}
         /\ login'[l].stage = "reread" => login[l].stage = "recovering"
         /\ login'[l].stage = "conflict" =>
              login[l].retries = 1 /\ login'[l].retries = 1
         /\ login'[l].stage = "prepared" => prepareLoginDevice(l)
         /\ login'[l].stage = "done" => issueIdentitySession(l)
<1> USE DEF TypeOK
<1>1. CASE SpendRecoveryCode(l)
  BY <1>1 DEF SpendRecoveryCode, LoginRequest
<1>2. CASE prepareLoginDevice(l)
  BY <1>2 DEF prepareLoginDevice, LoginRequest
<1>3. CASE issueIdentitySession(l)
  BY <1>3 DEF issueIdentitySession, LoginRequest
<1>4. CASE retryAfterDeviceConflict(l)
  BY <1>4 DEF retryAfterDeviceConflict, LoginRequest
<1> QED
  BY <1>1, <1>2, <1>3, <1>4

LEMMA ShapeStep ==
  ASSUME TypeOK, LoginShape, [Next]_vars
  PROVE  LoginShape'
<1> USE DEF TypeOK, LoginShape
<1>1. ASSUME NEW l \in Logins, NEW d \in Devices \cup {None}, StartLogin(l, d)
      PROVE  LoginShape'
  BY <1>1 DEF StartLogin
<1>2. ASSUME NEW l \in Logins,
             \/ SpendRecoveryCode(l)
             \/ prepareLoginDevice(l)
             \/ issueIdentitySession(l)
             \/ retryAfterDeviceConflict(l)
      PROVE  LoginShape'
  BY <1>2, LoginFrame
<1>3. ASSUME NEW l \in Logins, RereadAccount(l)
      PROVE  LoginShape'
  BY <1>3 DEF RereadAccount, LoginRequest
<1>4. ASSUME NEW c \in Changes, ReplacingStep(c)
      PROVE  LoginShape'
  BY <1>4, ReplacingReplaces DEF Replaces
<1>5. CASE UNCHANGED login
  BY <1>5
<1> QED
  BY <1>1, <1>2, <1>3, <1>4, <1>5, Steps DEF ReadToken, ReadUser, ReadDevice,
     Rotate, revokeToken, StartChange, UnbanUser, LoseRace, Close,
     StartRemoval, deleteDevices, vars

LEMMA KnowStep ==
  ASSUME TypeOK, LoginShape, RequestsFresh, LoginsKnow, [Next]_vars
  PROVE  LoginsKnow'
<1> USE DEF TypeOK, LoginsKnow
<1>1. ASSUME NEW l \in Logins, NEW d \in Devices \cup {None}, StartLogin(l, d)
      PROVE  LoginsKnow'
  BY <1>1 DEF StartLogin
<1>2. ASSUME NEW l \in Logins, SpendRecoveryCode(l)
      PROVE  LoginsKnow'
  <2>1. Fresh(l)
    BY <1>2 DEF SpendRecoveryCode, RequestsFresh, Pending
  <2>2. account' = account \/ account'.stamp = l
    BY <1>2 DEF SpendRecoveryCode, AccountRow
  <2> QED
    BY <1>2, <2>1, <2>2, LoginFrame DEF Fresh
<1>3. ASSUME NEW l \in Logins, RereadAccount(l)
      PROVE  LoginsKnow'
  <2>1. l \in Recoveries
    BY <1>3 DEF RereadAccount, LoginShape
  <2> QED
    BY <1>3, <2>1 DEF RereadAccount
<1>4. ASSUME NEW l \in Logins,
             \/ prepareLoginDevice(l)
             \/ issueIdentitySession(l)
             \/ retryAfterDeviceConflict(l)
      PROVE  LoginsKnow'
  <2>1. account' = account
    BY <1>4 DEF prepareLoginDevice, issueIdentitySession,
       retryAfterDeviceConflict
  <2> QED
    BY <1>4, <2>1, LoginFrame
<1>5. ASSUME NEW c \in Changes, ReplacingStep(c)
      PROVE  LoginsKnow'
  <2>1. Replaces(c)
    BY <1>5, ReplacingReplaces
  <2>2. Fresh(c)
    BY <2>1 DEF Replaces, RequestsFresh, Pending
  <2> QED
    BY <2>1, <2>2 DEF Replaces, Fresh
<1>6. ASSUME NEW c \in Changes, UnbanUser(c)
      PROVE  LoginsKnow'
  BY <1>6 DEF UnbanUser, Close, AccountRow
<1>7. CASE UNCHANGED <<login, account>>
  BY <1>7
<1> QED
  BY <1>1, <1>2, <1>3, <1>4, <1>5, <1>6, <1>7, Steps DEF ReadToken, ReadUser,
     ReadDevice, Rotate, revokeToken, StartChange, LoseRace, Close,
     StartRemoval, deleteDevices, vars

LEMMA BansStep ==
  ASSUME TypeOK, RequestsFresh, BansAreFresh, [Next]_vars
  PROVE  BansAreFresh'
<1> USE DEF TypeOK, BansAreFresh
<1>1. ASSUME NEW l \in Logins, SpendRecoveryCode(l)
      PROVE  BansAreFresh'
  <2>1. Fresh(l)
    BY <1>1 DEF SpendRecoveryCode, RequestsFresh, Pending
  <2>2. account' = account \/ account'.stamp = l
    BY <1>1 DEF SpendRecoveryCode, AccountRow
  <2> QED
    BY <1>1, <2>1, <2>2 DEF SpendRecoveryCode, Fresh
<1>2. ASSUME NEW l \in Logins, issueIdentitySession(l)
      PROVE  BansAreFresh'
  BY <1>2 DEF issueIdentitySession, SessionEligible, UserEligible
<1>3. ASSUME NEW r \in Refreshes, Rotate(r)
      PROVE  BansAreFresh'
  BY <1>3 DEF Rotate, Rotatable, UserEligible
<1>4. ASSUME NEW c \in Changes, ReplacingStep(c)
      PROVE  BansAreFresh'
  <2>1. Replaces(c)
    BY <1>4, ReplacingReplaces
  <2>2. Fresh(c)
    BY <2>1 DEF Replaces, RequestsFresh, Pending
  <2> QED
    BY <2>1, <2>2 DEF Replaces, Fresh
<1>5. ASSUME NEW c \in Changes, UnbanUser(c)
      PROVE  BansAreFresh'
  BY <1>5 DEF UnbanUser, Close, AccountRow
<1>6. CASE UNCHANGED <<account, access>>
  BY <1>6
<1> QED
  BY <1>1, <1>2, <1>3, <1>4, <1>5, <1>6, Steps DEF StartLogin, RereadAccount,
     prepareLoginDevice, retryAfterDeviceConflict, ReadToken, ReadUser,
     ReadDevice, revokeToken, StartChange, LoseRace, Close, StartRemoval,
     deleteDevices, vars

-----------------------------------------------------------------------------
(* Tokens. *)

\* Two statements insert a token; every other step leaves each row or deletes
\* it.
TokensShrink == \A k \in TokenIds : tokens'[k] \in {tokens[k], None}

LEMMA OnlyTwoInsert ==
  ASSUME TypeOK, Spent, [Next]_vars
  PROVE  \/ \E l \in Logins : issueIdentitySession(l)
         \/ \E r \in Refreshes : Rotate(r)
         \/ TokensShrink
<1> USE DEF TypeOK, TokensShrink
<1>1. ASSUME NEW l \in Logins, SpendRecoveryCode(l)
      PROVE  TokensShrink
  BY <1>1 DEF SpendRecoveryCode, NoTokens
<1>2. ASSUME NEW r \in Refreshes, ReadUser(r)
      PROVE  TokensShrink
  BY <1>2 DEF ReadUser, Reject, Without
<1>3. ASSUME NEW r \in Refreshes, ReadDevice(r)
      PROVE  TokensShrink
  BY <1>3 DEF ReadDevice, Reject, Without
<1>4. ASSUME NEW k \in TokenIds, revokeToken(k)
      PROVE  TokensShrink
  BY <1>4 DEF revokeToken, Without
<1>5. ASSUME NEW c \in Changes, ReplacingStep(c)
      PROVE  TokensShrink
  BY <1>5, ReplacingReplaces DEF Replaces, NoTokens
<1>6. ASSUME NEW x \in Removals, deleteDevices(x)
      PROVE  TokensShrink
  BY <1>6 DEF deleteDevices
<1>7. CASE UNCHANGED tokens
  BY <1>7
<1> QED
  BY <1>1, <1>2, <1>3, <1>4, <1>5, <1>6, <1>7, Steps DEF StartLogin,
     RereadAccount, prepareLoginDevice, retryAfterDeviceConflict, ReadToken,
     StartChange, UnbanUser, LoseRace, StartRemoval, vars

\* The rows after each of the two insertions.
LEMMA Issued ==
  ASSUME TypeOK, NEW l \in Logins, issueIdentitySession(l)
  PROVE  \/ /\ \A k \in TokenIds \ {l} : tokens'[k] = tokens[k]
            /\ tokens'[l] = Row(login[l].device, login[l].dstamp,
                                login[l].stamp, login[l].password, l)
            /\ login'[l].stage = "done"
            /\ SessionEligible(login[l].device, login[l].dstamp,
                               login[l].stamp)
         \/ UNCHANGED tokens
  BY DEF issueIdentitySession, TypeOK, TokenIds, LoginRequest

LEMMA Rotated ==
  ASSUME TypeOK, Spent, NEW r \in Refreshes, Rotate(r)
  PROVE  LET old == refresh[r].token
         IN  /\ old \in GivenOut
             /\ old \in TokenIds \ {r}
             /\ tokens'[old] = None
             /\ \A k \in TokenIds \ {old, r} : tokens'[k] = tokens[k]
             /\ \/ /\ tokens[old] # None
                   /\ tokens'[r] = tokens[old]
                   /\ refresh'[r].stage = "done"
                   /\ UserEligible(refresh[r].stamp)
                \/ /\ tokens'[r] = tokens[r]
                   /\ refresh'[r].stage = "refused"
<1> DEFINE old == refresh[r].token
<1>1. refresh[r].stage = "device"
  BY DEF Rotate
<1>2. old \in GivenOut
  BY <1>1 DEF Spent
<1>3. r \notin GivenOut
  BY <1>1, RequestAssumption DEF GivenOut
<1>4. old \in TokenIds /\ old # r /\ r \in TokenIds
  BY <1>2, <1>3 DEF GivenOut, TokenIds
<1> QED
  BY <1>2, <1>4 DEF Rotate, Rotatable, Without, TypeOK, RefreshRequest

LEMMA BoundStep ==
  ASSUME TypeOK, Spent, Bound, [Next]_vars
  PROVE  Bound'
<1> DEFINE Logs == \A l \in Logins :
                     login[l].stage = "prepared" /\ login[l].device # None
                       => login[l].dstamp \in Logins
           Rows == \A k \in TokenIds :
                     tokens[k] # None /\ tokens[k].device # None
                       => tokens[k].dstamp \in Logins
<1>1. Logs'
  <2>1. ASSUME NEW l \in Logins, NEW d \in Devices \cup {None},
               StartLogin(l, d)
        PROVE  Logs'
    BY <2>1 DEF StartLogin, Bound, TypeOK
  <2>2. ASSUME NEW l \in Logins, RereadAccount(l)
        PROVE  Logs'
    BY <2>2 DEF RereadAccount, Bound, TypeOK, LoginRequest
  <2>3. ASSUME NEW l \in Logins, prepareLoginDevice(l)
        PROVE  Logs'
    BY <2>3 DEF prepareLoginDevice, SessionStamp, Bound, TypeOK, LoginRequest
  <2>4. ASSUME NEW l \in Logins,
               \/ SpendRecoveryCode(l)
               \/ issueIdentitySession(l)
               \/ retryAfterDeviceConflict(l)
        PROVE  Logs'
    <3>1. login'[l].stage # "prepared"
      BY <2>4 DEF SpendRecoveryCode, issueIdentitySession,
         retryAfterDeviceConflict, TypeOK, LoginRequest
    <3> QED
      BY <2>4, <3>1, LoginFrame DEF Bound
  <2>5. ASSUME NEW c \in Changes, ReplacingStep(c)
        PROVE  Logs'
    BY <2>5, ReplacingReplaces DEF Replaces, Bound
  <2>6. CASE UNCHANGED login
    BY <2>6 DEF Bound
  <2> QED
    BY <2>1, <2>2, <2>3, <2>4, <2>5, <2>6, Steps DEF ReadToken, ReadUser,
       ReadDevice, Rotate, revokeToken, StartChange, UnbanUser, LoseRace,
       Close, StartRemoval, deleteDevices, vars
<1>2. Rows'
  <2>1. ASSUME NEW l \in Logins, issueIdentitySession(l)
        PROVE  Rows'
    <3>1. login[l].stage = "prepared"
      BY <2>1 DEF issueIdentitySession
    <3>2. CASE UNCHANGED tokens
      BY <3>2 DEF Bound
    <3>3. ASSUME \A k \in TokenIds \ {l} : tokens'[k] = tokens[k],
                 tokens'[l] = Row(login[l].device, login[l].dstamp,
                                  login[l].stamp, login[l].password, l)
          PROVE  Rows'
      <4>1. /\ tokens'[l].device = login[l].device
            /\ tokens'[l].dstamp = login[l].dstamp
        BY <3>3 DEF Row
      <4> QED
        BY <4>1, <3>1, <3>3 DEF Bound
    <3> QED
      BY <2>1, <3>2, <3>3, Issued
  <2>2. ASSUME NEW r \in Refreshes, Rotate(r)
        PROVE  Rows'
    BY <2>2, Rotated DEF Bound
  <2>3. CASE TokensShrink
    BY <2>3 DEF TokensShrink, Bound
  <2> QED
    BY <2>1, <2>2, <2>3, OnlyTwoInsert
<1> QED
  BY <1>1, <1>2 DEF Bound

\* What was given out stays so, and so does what each refresh presented.
LEMMA GivenOutGrows ==
  ASSUME TypeOK, [Next]_vars
  PROVE  /\ \A l \in Logins : login[l].stage = "done" => login'[l].stage = "done"
         /\ \A r \in Refreshes :
              refresh[r].stage = "done" => refresh'[r] = refresh[r]
         /\ GivenOut \subseteq GivenOut'
<1>1. \A l \in Logins : login[l].stage = "done" => login'[l].stage = "done"
  <2> USE DEF TypeOK
  <2>1. ASSUME NEW l \in Logins, NEW d \in Devices \cup {None},
               StartLogin(l, d)
        PROVE  \A m \in Logins : login[m].stage = "done"
                 => login'[m].stage = "done"
    BY <2>1 DEF StartLogin
  <2>2. ASSUME NEW l \in Logins, RereadAccount(l)
        PROVE  \A m \in Logins : login[m].stage = "done"
                 => login'[m].stage = "done"
    BY <2>2 DEF RereadAccount
  <2>3. ASSUME NEW l \in Logins,
               \/ SpendRecoveryCode(l)
               \/ prepareLoginDevice(l)
               \/ issueIdentitySession(l)
               \/ retryAfterDeviceConflict(l)
        PROVE  \A m \in Logins : login[m].stage = "done"
                 => login'[m].stage = "done"
    BY <2>3, LoginFrame
  <2>4. ASSUME NEW c \in Changes, ReplacingStep(c)
        PROVE  UNCHANGED login
    BY <2>4, ReplacingReplaces DEF Replaces
  <2> QED
    BY <2>1, <2>2, <2>3, <2>4, Steps DEF ReadToken, ReadUser,
       ReadDevice, Rotate, revokeToken, StartChange, UnbanUser, LoseRace,
       Close, StartRemoval, deleteDevices, vars
<1>2. \A r \in Refreshes :
        refresh[r].stage = "done" => refresh'[r] = refresh[r]
  <2> USE DEF TypeOK
  <2>1. ASSUME NEW r \in Refreshes,
               ReadToken(r) \/ ReadUser(r) \/ ReadDevice(r) \/ Rotate(r)
        PROVE  \A q \in Refreshes : refresh[q].stage = "done"
                 => refresh'[q] = refresh[q]
    <3>1. CASE ReadToken(r)
      BY <3>1 DEF ReadToken
    <3>2. CASE ReadUser(r)
      BY <3>2 DEF ReadUser, Reject
    <3>3. CASE ReadDevice(r)
      BY <3>3 DEF ReadDevice, Reject
    <3>4. CASE Rotate(r)
      BY <3>4 DEF Rotate
    <3> QED
      BY <2>1, <3>1, <3>2, <3>3, <3>4
  <2>2. ASSUME NEW c \in Changes, ReplacingStep(c)
        PROVE  UNCHANGED refresh
    BY <2>2, ReplacingReplaces DEF Replaces
  <2> QED
    BY <2>1, <2>2, Steps DEF StartLogin, SpendRecoveryCode, RereadAccount,
       prepareLoginDevice, issueIdentitySession, retryAfterDeviceConflict,
       revokeToken, StartChange, UnbanUser, LoseRace, Close, StartRemoval,
       deleteDevices, vars
<1> QED
  BY <1>1, <1>2 DEF GivenOut

LEMMA MadeStep ==
  ASSUME TypeOK, Spent, Made, [Next]_vars
  PROVE  Made'
<1>1. ASSUME NEW l \in Logins, issueIdentitySession(l)
      PROVE  Made'
  <2>1. login[l].stage # "done" /\ refresh' = refresh /\ l \in TokenIds
        /\ \A m \in Logins : m # l => login'[m] = login[m]
    BY <1>1, LoginFrame DEF issueIdentitySession, TokenIds
  <2>2. CASE UNCHANGED tokens
    BY <2>1, <2>2 DEF Made
  <2>3. ASSUME \A k \in TokenIds \ {l} : tokens'[k] = tokens[k],
               tokens'[l] = Row(login[l].device, login[l].dstamp,
                                login[l].stamp, login[l].password, l),
               login'[l].stage = "done"
        PROVE  Made'
    <3>1. tokens'[l].family = l
      BY <2>3 DEF Row
    <3>2. l \notin Refreshes
      BY RequestAssumption
    <3> QED
      BY <3>1, <3>2, <2>1, <2>3 DEF Made, TokenIds
  <2> QED
    BY <1>1, <2>2, <2>3, Issued
<1>2. ASSUME NEW r \in Refreshes, Rotate(r)
      PROVE  Made'
  <2>1. /\ login' = login
        /\ \A q \in Refreshes : q # r => refresh'[q] = refresh[q]
        /\ refresh[r].stage = "device"
    BY <1>2 DEF Rotate, TypeOK
  <2>2. r \notin Logins
    BY RequestAssumption
  <2> QED
    BY <1>2, <2>1, <2>2, Rotated DEF Made, TokenIds
<1>3. CASE TokensShrink
  <2>1. /\ \A l \in Logins : login'[l].stage # "done" => login[l].stage # "done"
        /\ \A r \in Refreshes :
             refresh'[r].stage # "done" => refresh[r].stage # "done"
    BY GivenOutGrows
  <2> QED
    BY <1>3, <2>1 DEF Made, TokensShrink, TokenIds
<1> QED
  BY <1>1, <1>2, <1>3, OnlyTwoInsert

LEMMA SpentStep ==
  ASSUME TypeOK, Made, Spent, [Next]_vars
  PROVE  Spent'
<1> SUFFICES ASSUME NEW r \in Refreshes,
                    refresh'[r].stage \in {"token", "user", "device", "done"}
             PROVE  /\ refresh'[r].token \in GivenOut'
                    /\ refresh'[r].row # None
                    /\ refresh'[r].stage = "done" =>
                         tokens'[refresh'[r].token] = None
  BY DEF Spent
<1> USE DEF TypeOK
<1>0. GivenOut \subseteq GivenOut'
  BY GivenOutGrows
<1>1. ASSUME UNCHANGED refresh
      PROVE  /\ refresh'[r].token \in GivenOut'
             /\ refresh'[r].row # None
             /\ refresh'[r].stage = "done" =>
                  tokens'[refresh'[r].token] = None
  <2> DEFINE k == refresh[r].token
  <2>1. k \in GivenOut /\ refresh[r].row # None
    BY <1>1 DEF Spent
  <2>2. ASSUME refresh[r].stage = "done"
        PROVE  tokens'[k] = None
    <3>1. tokens[k] = None /\ k \in TokenIds
      BY <2>1, <2>2 DEF Spent, GivenOut, TokenIds
    <3>2. ASSUME NEW l \in Logins, issueIdentitySession(l)
          PROVE  tokens'[k] = None
      <4>1. k # l
        BY <2>1, <3>2, RequestAssumption DEF GivenOut, issueIdentitySession
      <4> QED
        BY <3>1, <3>2, <4>1, Issued
    <3>3. ASSUME NEW q \in Refreshes, Rotate(q)
          PROVE  tokens'[k] = None
      <4>1. refresh[q].stage = "device"
        BY <3>3 DEF Rotate
      <4>2. k # q
        BY <2>1, <4>1, RequestAssumption DEF GivenOut
      <4> QED
        BY <3>1, <3>3, <4>2, Rotated
    <3>4. CASE TokensShrink
      BY <3>1, <3>4 DEF TokensShrink
    <3> QED
      BY <3>2, <3>3, <3>4, OnlyTwoInsert
  <2> QED
    BY <1>0, <1>1, <2>1, <2>2
<1>2. ASSUME NEW q \in Refreshes, ReadToken(q)
      PROVE  /\ refresh'[r].token \in GivenOut'
             /\ refresh'[r].row # None
             /\ refresh'[r].stage = "done" =>
                  tokens'[refresh'[r].token] = None
  <2>1. tokens' = tokens
    BY <1>2 DEF ReadToken
  <2>2. CASE r # q
    <3>1. refresh'[r] = refresh[r]
      BY <1>2, <2>2 DEF ReadToken
    <3> QED
      BY <1>0, <2>1, <3>1 DEF Spent
  <2>3. CASE r = q
    <3>1. PICK k \in GivenOut : refresh' = [refresh EXCEPT ![r] =
            IF tokens[k] = None THEN [@ EXCEPT !.stage = "refused"]
            ELSE [@ EXCEPT !.stage = "token", !.token = k, !.row = tokens[k]]]
      BY <1>2, <2>3 DEF ReadToken
    <3>2. tokens[k] # None
      BY <3>1 DEF RefreshRequest
    <3>3. refresh'[r] = [refresh[r] EXCEPT !.stage = "token", !.token = k,
                                           !.row = tokens[k]]
      BY <3>1, <3>2
    <3>4. /\ refresh'[r].stage = "token"
          /\ refresh'[r].token = k
          /\ refresh'[r].row = tokens[k]
      BY <3>3 DEF RefreshRequest
    <3> QED
      BY <1>0, <3>2, <3>4
  <2> QED
    BY <2>2, <2>3
<1>3. ASSUME NEW q \in Refreshes, ReadUser(q) \/ ReadDevice(q)
      PROVE  /\ refresh'[r].token \in GivenOut'
             /\ refresh'[r].row # None
             /\ refresh'[r].stage = "done" =>
                  tokens'[refresh'[r].token] = None
  <2>1. /\ refresh'[r].token = refresh[r].token
        /\ refresh'[r].row = refresh[r].row
        /\ refresh'[r].stage = "done" => refresh[r].stage = "done"
        /\ refresh[r].stage \in {"token", "user", "device", "done"}
    BY <1>3 DEF ReadUser, ReadDevice, Reject, RefreshRequest
  <2>2. TokensShrink
    BY <1>3 DEF ReadUser, ReadDevice, Reject, Without, TokensShrink
  <2> QED
    BY <1>0, <2>1, <2>2 DEF Spent, TokensShrink, GivenOut, TokenIds
<1>4. ASSUME NEW q \in Refreshes, Rotate(q)
      PROVE  /\ refresh'[r].token \in GivenOut'
             /\ refresh'[r].row # None
             /\ refresh'[r].stage = "done" =>
                  tokens'[refresh'[r].token] = None
  <2>1. /\ refresh'[r].token = refresh[r].token
        /\ refresh'[r].row = refresh[r].row
        /\ refresh[r].stage \in {"token", "user", "device", "done"}
        /\ r # q => refresh'[r] = refresh[r]
    BY <1>4 DEF Rotate, RefreshRequest
  <2>2. /\ refresh[r].token \in GivenOut
        /\ refresh[r].token \in TokenIds
        /\ refresh[r].row # None
    BY <2>1 DEF Spent, GivenOut, TokenIds
  <2>3. CASE r = q
    BY <1>0, <1>4, <2>1, <2>2, <2>3, Rotated
  <2>4. CASE r # q
    <3>1. refresh[q].stage = "device" /\ refresh[r].token # q
      BY <1>4, <2>2, RequestAssumption DEF Rotate, GivenOut
    <3> QED
      BY <1>0, <1>4, <2>1, <2>2, <2>4, <3>1, Rotated DEF Spent
  <2> QED
    BY <2>3, <2>4
<1>5. ASSUME NEW c \in Changes, ReplacingStep(c)
      PROVE  UNCHANGED refresh
  BY <1>5, ReplacingReplaces DEF Replaces
<1> QED
  BY <1>1, <1>2, <1>3, <1>4, <1>5, Steps DEF StartLogin, SpendRecoveryCode,
     RereadAccount, prepareLoginDevice, issueIdentitySession,
     retryAfterDeviceConflict, revokeToken, StartChange, UnbanUser, LoseRace,
     Close, StartRemoval, deleteDevices, vars

LEMMA RowsStandStep ==
  ASSUME TypeOK, Spent, RowsStand, [Next]_vars
  PROVE  RowsStand'
<1> SUFFICES ASSUME NEW r \in Refreshes,
                    refresh'[r].stage \in {"token", "user", "device"},
                    tokens'[refresh'[r].token] # None
             PROVE  refresh'[r].row = tokens'[refresh'[r].token]
  BY DEF RowsStand
<1> USE DEF TypeOK
<1>1. ASSUME refresh'[r].token = refresh[r].token,
             refresh'[r].row = refresh[r].row,
             refresh[r].stage \in {"token", "user", "device"}
      PROVE  refresh'[r].row = tokens'[refresh'[r].token]
  <2> DEFINE k == refresh[r].token
  <2>1. k \in GivenOut /\ k \in TokenIds
    BY <1>1 DEF Spent, GivenOut, TokenIds
  <2>2. tokens'[k] = tokens[k]
    <3>1. ASSUME NEW l \in Logins, issueIdentitySession(l)
          PROVE  tokens'[k] = tokens[k]
      <4>1. k # l
        BY <2>1, <3>1, RequestAssumption DEF GivenOut, issueIdentitySession
      <4> QED
        BY <2>1, <3>1, <4>1, Issued
    <3>2. ASSUME NEW q \in Refreshes, Rotate(q)
          PROVE  tokens'[k] = tokens[k]
      <4>1. k # q
        BY <2>1, <3>2, RequestAssumption DEF GivenOut, Rotate
      <4> QED
        BY <1>1, <2>1, <3>2, <4>1, Rotated
    <3>3. CASE TokensShrink
      BY <1>1, <2>1, <3>3 DEF TokensShrink
    <3> QED
      BY <3>1, <3>2, <3>3, OnlyTwoInsert
  <2> QED
    BY <1>1, <2>2 DEF RowsStand
<1>2. ASSUME NEW q \in Refreshes, ReadToken(q)
      PROVE  refresh'[r].row = tokens'[refresh'[r].token]
  <2>1. CASE r # q
    BY <1>1, <1>2, <2>1 DEF ReadToken
  <2>2. CASE r = q
    <3>1. PICK k \in GivenOut : refresh' = [refresh EXCEPT ![r] =
            IF tokens[k] = None THEN [@ EXCEPT !.stage = "refused"]
            ELSE [@ EXCEPT !.stage = "token", !.token = k, !.row = tokens[k]]]
      BY <1>2, <2>2 DEF ReadToken
    <3>2. tokens[k] # None
      BY <3>1 DEF RefreshRequest
    <3>3. refresh'[r] = [refresh[r] EXCEPT !.stage = "token", !.token = k,
                                           !.row = tokens[k]]
      BY <3>1, <3>2
    <3>4. refresh'[r].token = k /\ refresh'[r].row = tokens[k]
      BY <3>3 DEF RefreshRequest
    <3> QED
      BY <1>2, <3>4 DEF ReadToken
  <2> QED
    BY <2>1, <2>2
<1>3. ASSUME NEW q \in Refreshes, ReadUser(q) \/ ReadDevice(q) \/ Rotate(q)
      PROVE  refresh'[r].row = tokens'[refresh'[r].token]
  <2>1. /\ refresh'[r].token = refresh[r].token
        /\ refresh'[r].row = refresh[r].row
        /\ refresh[r].stage \in {"token", "user", "device"}
    BY <1>3 DEF ReadUser, ReadDevice, Rotate, Reject, RefreshRequest
  <2> QED
    BY <1>1, <2>1
<1>4. ASSUME NEW c \in Changes, ReplacingStep(c)
      PROVE  UNCHANGED refresh
  BY <1>4, ReplacingReplaces DEF Replaces
<1>5. CASE UNCHANGED refresh
  BY <1>1, <1>5
<1> QED
  BY <1>2, <1>3, <1>4, <1>5, Steps DEF StartLogin, SpendRecoveryCode,
     RereadAccount, prepareLoginDevice, issueIdentitySession,
     retryAfterDeviceConflict, revokeToken, StartChange, UnbanUser, LoseRace,
     Close, StartRemoval, deleteDevices, vars

LEMMA OneTokenStep ==
  ASSUME TypeOK, Spent, Made, OneTokenPerLogin, [Next]_vars
  PROVE  OneTokenPerLogin'
<1>1. ASSUME NEW l \in Logins, issueIdentitySession(l)
      PROVE  OneTokenPerLogin'
  <2>1. /\ login[l].stage # "done"
        /\ \A k \in TokenIds : tokens[k] # None => tokens[k].family # l
    BY <1>1 DEF issueIdentitySession, Made
  <2>2. CASE UNCHANGED tokens
    BY <2>2 DEF OneTokenPerLogin
  <2>3. ASSUME \A k \in TokenIds \ {l} : tokens'[k] = tokens[k],
               tokens'[l] = Row(login[l].device, login[l].dstamp,
                                login[l].stamp, login[l].password, l)
        PROVE  OneTokenPerLogin'
    <3>1. tokens'[l].family = l
      BY <2>3 DEF Row
    <3> QED
      BY <2>1, <2>3, <3>1 DEF OneTokenPerLogin
  <2> QED
    BY <1>1, <2>2, <2>3, Issued
<1>2. ASSUME NEW r \in Refreshes, Rotate(r)
      PROVE  OneTokenPerLogin'
  BY <1>2, Rotated DEF OneTokenPerLogin
<1>3. CASE TokensShrink
  BY <1>3 DEF OneTokenPerLogin, TokensShrink
<1> QED
  BY <1>1, <1>2, <1>3, OnlyTwoInsert

LEMMA RotatedOnceStep ==
  ASSUME TypeOK, Spent, RotatedOnce, [Next]_vars
  PROVE  RotatedOnce'
<1> USE DEF TypeOK
<1>1. ASSUME NEW r \in Refreshes, Rotate(r)
      PROVE  RotatedOnce'
  <2>1. /\ \A q \in Refreshes : q # r => refresh'[q] = refresh[q]
        /\ refresh'[r].token = refresh[r].token
        /\ refresh'[r].stage = "done" => tokens[refresh[r].token] # None
    BY <1>1 DEF Rotate, Rotatable, RefreshRequest
  <2>2. \A q \in Refreshes : refresh[q].stage = "done"
          => tokens[refresh[q].token] = None
    BY DEF Spent
  <2> QED
    BY <2>1, <2>2 DEF RotatedOnce
<1>2. ASSUME NEW r \in Refreshes, ReadToken(r) \/ ReadUser(r) \/ ReadDevice(r)
      PROVE  RotatedOnce'
  <2>1. /\ \A q \in Refreshes : q # r => refresh'[q] = refresh[q]
        /\ refresh'[r].stage # "done"
    BY <1>2 DEF ReadToken, ReadUser, ReadDevice, Reject, RefreshRequest
  <2> QED
    BY <2>1 DEF RotatedOnce
<1>3. ASSUME NEW c \in Changes, ReplacingStep(c)
      PROVE  UNCHANGED refresh
  BY <1>3, ReplacingReplaces DEF Replaces
<1>4. CASE UNCHANGED refresh
  BY <1>4 DEF RotatedOnce
<1> QED
  BY <1>1, <1>2, <1>3, <1>4, Steps DEF StartLogin, SpendRecoveryCode,
     RereadAccount, prepareLoginDevice, issueIdentitySession,
     retryAfterDeviceConflict, revokeToken, StartChange, UnbanUser, LoseRace,
     Close, StartRemoval, deleteDevices, vars

-----------------------------------------------------------------------------
(* The account, the devices and the tokens. *)

\* A step either leaves the account's status, stamp and password, or leaves
\* no token, or lifts a ban.
LEMMA AccountStep ==
  ASSUME TypeOK, [Next]_vars
  PROVE  \/ UNCHANGED account
         \/ tokens' = NoTokens
         \/ account.status = "banned" /\ UNCHANGED tokens
<1>1. ASSUME NEW c \in Changes, ReplacingStep(c)
      PROVE  tokens' = NoTokens
  BY <1>1, ReplacingReplaces DEF Replaces
<1>2. ASSUME NEW c \in Changes, UnbanUser(c)
      PROVE  account.status = "banned" /\ UNCHANGED tokens
  BY <1>2 DEF UnbanUser
<1>3. ASSUME NEW l \in Logins, SpendRecoveryCode(l)
      PROVE  UNCHANGED account \/ tokens' = NoTokens
  BY <1>3 DEF SpendRecoveryCode
<1> QED
  BY <1>1, <1>2, <1>3, Steps DEF StartLogin, RereadAccount,
     prepareLoginDevice, issueIdentitySession, retryAfterDeviceConflict,
     ReadToken, ReadUser, ReadDevice, Rotate, revokeToken, StartChange,
     LoseRace, StartRemoval, deleteDevices, vars

\* A device's stamp, once there, changes only with the device's removal, and
\* that takes the device's tokens along.
LEMMA DeviceStep ==
  ASSUME TypeOK, Bound, TokensAreCurrent, [Next]_vars,
         NEW k \in TokenIds, tokens'[k] # None, tokens'[k] = tokens[k],
         tokens[k].device # None
  PROVE  devices'[tokens[k].device] = devices[tokens[k].device]
<1> DEFINE d == tokens[k].device
<1>1. d \in Devices /\ devices[d] \in Logins
  BY DEF TypeOK, TokenRow, Bound, TokensAreCurrent, DeviceEligible
<1>2. ASSUME NEW l \in Logins, issueIdentitySession(l)
      PROVE  devices'[d] = devices[d]
  BY <1>1, <1>2 DEF issueIdentitySession, Upserted, TypeOK, LoginRequest
<1>3. ASSUME NEW c \in Changes, ReplacingStep(c)
      PROVE  FALSE
  BY <1>3, ReplacingReplaces DEF Replaces, NoTokens
<1>4. ASSUME NEW x \in Removals, deleteDevices(x)
      PROVE  devices'[d] = devices[d]
  BY <1>1, <1>4 DEF deleteDevices, Matching, TypeOK
<1> QED
  BY <1>2, <1>3, <1>4, Steps DEF StartLogin, SpendRecoveryCode, RereadAccount,
     prepareLoginDevice, retryAfterDeviceConflict, ReadToken, ReadUser,
     ReadDevice, Rotate, revokeToken, StartChange, UnbanUser, LoseRace,
     StartRemoval, vars

LEMMA CurrentStep ==
  ASSUME TypeOK, Bound, Spent, TokensAreCurrent, [Next]_vars
  PROVE  TokensAreCurrent'
<1> SUFFICES ASSUME NEW k \in TokenIds, tokens'[k] # None
             PROVE  /\ account'.status = "active" /\ ~account'.deleted
                    /\ tokens'[k].stamp = account'.stamp
                    /\ DeviceEligible(tokens[k].device, tokens[k].dstamp)'
  BY DEF TokensAreCurrent
<1>1. ASSUME tokens'[k] = tokens[k]
      PROVE  /\ account'.status = "active" /\ ~account'.deleted
             /\ tokens'[k].stamp = account'.stamp
             /\ DeviceEligible(tokens[k].device, tokens[k].dstamp)'
  <2>1. account' = account
    BY <1>1, AccountStep DEF TokensAreCurrent, NoTokens
  <2>2. tokens[k].device # None =>
          devices'[tokens[k].device] = devices[tokens[k].device]
    BY <1>1, DeviceStep
  <2> QED
    BY <1>1, <2>1, <2>2 DEF TokensAreCurrent, DeviceEligible
<1>2. ASSUME NEW l \in Logins, issueIdentitySession(l), tokens'[k] # tokens[k]
      PROVE  /\ account'.status = "active" /\ ~account'.deleted
             /\ tokens'[k].stamp = account'.stamp
             /\ DeviceEligible(tokens[k].device, tokens[k].dstamp)'
  <2> DEFINE req == login[l]
  <2>1. /\ k = l
        /\ tokens'[k] = Row(req.device, req.dstamp, req.stamp, req.password, l)
        /\ SessionEligible(req.device, req.dstamp, req.stamp)
    BY <1>2, Issued
  <2>2. account' = account /\ devices' = Upserted(req.device, req.dstamp)
    BY <1>2, <2>1 DEF issueIdentitySession, SessionEligible
  <2>3. /\ tokens'[k].device = req.device
        /\ tokens'[k].dstamp = req.dstamp
        /\ tokens'[k].stamp = req.stamp
    BY <2>1 DEF Row
  <2> QED
    BY <2>1, <2>2, <2>3 DEF SessionEligible, UserEligible, DeviceEligible
<1>3. ASSUME NEW r \in Refreshes, Rotate(r), tokens'[k] # tokens[k]
      PROVE  /\ account'.status = "active" /\ ~account'.deleted
             /\ tokens'[k].stamp = account'.stamp
             /\ DeviceEligible(tokens[k].device, tokens[k].dstamp)'
  <2> DEFINE old == refresh[r].token
  <2>1. /\ tokens[old] # None /\ old \in TokenIds
        /\ tokens'[k] = tokens[old]
    BY <1>3, Rotated
  <2>2. account' = account /\ devices' = devices
    BY <1>3 DEF Rotate
  <2> QED
    BY <2>1, <2>2 DEF TokensAreCurrent, DeviceEligible
<1> QED
  BY <1>1, <1>2, <1>3, OnlyTwoInsert DEF TokensShrink

LEMMA PasswordStep ==
  ASSUME TypeOK, LoginShape, LoginsKnow, Spent, TokensAreCurrent,
         SessionsProveThePassword, [Next]_vars
  PROVE  SessionsProveThePassword'
<1> SUFFICES ASSUME NEW k \in TokenIds, tokens'[k] # None,
                    tokens'[k].family \notin Recoveries
             PROVE  tokens'[k].password = account'.password
  BY DEF SessionsProveThePassword
<1>1. ASSUME tokens'[k] = tokens[k]
      PROVE  tokens'[k].password = account'.password
  BY <1>1, AccountStep DEF TokensAreCurrent, NoTokens, SessionsProveThePassword
<1>2. ASSUME NEW l \in Logins, issueIdentitySession(l), tokens'[k] # tokens[k]
      PROVE  tokens'[k].password = account'.password
  <2> DEFINE req == login[l]
  <2>1. /\ k = l
        /\ tokens'[k] = Row(req.device, req.dstamp, req.stamp, req.password, l)
        /\ SessionEligible(req.device, req.dstamp, req.stamp)
    BY <1>2, Issued
  <2>2. tokens'[k].family = l /\ tokens'[k].password = req.password
    BY <2>1 DEF Row
  <2>3. req.stage = "prepared" /\ account' = account
    BY <1>2 DEF issueIdentitySession
  <2> QED
    BY <2>1, <2>2, <2>3 DEF LoginsKnow, SessionEligible, UserEligible
<1>3. ASSUME NEW r \in Refreshes, Rotate(r), tokens'[k] # tokens[k]
      PROVE  tokens'[k].password = account'.password
  <2>1. account' = account
    BY <1>3 DEF Rotate
  <2> QED
    BY <1>3, <2>1, Rotated DEF SessionsProveThePassword
<1> QED
  BY <1>1, <1>2, <1>3, OnlyTwoInsert DEF TokensShrink

-----------------------------------------------------------------------------
(* What a login is refused for. *)

\* LoginsYieldOnlyToRevocation, of one login.
YieldsToRevocation(l) ==
  login[l].stage = "refused" /\ login[l].device \notin removed
    => login[l].stamp # account.stamp

\* A step that moves the account on gives it a stamp no login read; the only
\* other change is the end of a ban.
LEMMA AccountMovesOn ==
  ASSUME TypeOK, RequestsFresh, [Next]_vars
  PROVE  \/ UNCHANGED account
         \/ \A l \in Logins : /\ account'.stamp # login[l].stamp
                              /\ login'[l].stamp = login[l].stamp
         \/ /\ ~account.deleted
            /\ account' = [account EXCEPT !.status = "active"]
            /\ UNCHANGED login
<1> USE DEF TypeOK
<1>1. ASSUME NEW l \in Logins, SpendRecoveryCode(l), account' # account
      PROVE  \A m \in Logins : /\ account'.stamp # login[m].stamp
                               /\ login'[m].stamp = login[m].stamp
  <2>1. Fresh(l)
    BY <1>1 DEF SpendRecoveryCode, RequestsFresh, Pending
  <2>2. account'.stamp = l
    BY <1>1 DEF SpendRecoveryCode, AccountRow
  <2> QED
    BY <1>1, <2>1, <2>2, LoginFrame DEF Fresh
<1>2. ASSUME NEW c \in Changes, ReplacingStep(c)
      PROVE  \A m \in Logins : /\ account'.stamp # login[m].stamp
                               /\ login'[m].stamp = login[m].stamp
  <2>1. Replaces(c)
    BY <1>2, ReplacingReplaces
  <2>2. Fresh(c)
    BY <2>1 DEF Replaces, RequestsFresh, Pending
  <2> QED
    BY <2>1, <2>2 DEF Replaces, Fresh
<1>3. ASSUME NEW c \in Changes, UnbanUser(c)
      PROVE  /\ ~account.deleted
             /\ account' = [account EXCEPT !.status = "active"]
             /\ UNCHANGED login
  BY <1>3 DEF UnbanUser, Close
<1> QED
  BY <1>1, <1>2, <1>3, Steps DEF StartLogin, RereadAccount,
     prepareLoginDevice, issueIdentitySession, retryAfterDeviceConflict,
     ReadToken, ReadUser, ReadDevice, Rotate, revokeToken, StartChange,
     LoseRace, StartRemoval, deleteDevices, vars

\* A device that has a session stamp keeps it until it is removed.
LEMMA StampedDevicesStay ==
  ASSUME TypeOK, [Next]_vars
  PROVE  /\ removed \subseteq removed'
         /\ \A d \in Devices : devices[d] \in Logins /\ d \notin removed'
              => devices'[d] = devices[d]
<1> USE DEF TypeOK
<1>1. ASSUME NEW l \in Logins, issueIdentitySession(l)
      PROVE  /\ removed' = removed
             /\ \A d \in Devices : devices[d] \in Logins
                  => devices'[d] = devices[d]
  BY <1>1 DEF issueIdentitySession, Upserted, LoginRequest
<1>2. ASSUME NEW x \in Removals, deleteDevices(x)
      PROVE  /\ removed \subseteq removed'
             /\ \A d \in Devices : d \notin removed'
                  => devices'[d] = devices[d]
  BY <1>2 DEF deleteDevices
<1>3. ASSUME NEW c \in Changes, deleteAllDevices(c)
      PROVE  /\ removed \subseteq removed'
             /\ \A d \in Devices : devices[d] \in Logins /\ d \notin removed'
                  => devices'[d] = devices[d]
  BY <1>3, RequestAssumption DEF deleteAllDevices
<1>4. ASSUME NEW c \in Changes, ReplacingStep(c), ~deleteAllDevices(c)
      PROVE  removed' = removed /\ devices' = devices
  BY <1>4 DEF ReplacingStep, changePassword, ChangeSecondFactor,
     DisableFactor, recoverTwoFactor, BanUser, deleteAccountData
<1> QED
  BY <1>1, <1>2, <1>3, <1>4, Steps DEF StartLogin, SpendRecoveryCode,
     RereadAccount, prepareLoginDevice, retryAfterDeviceConflict, ReadToken,
     ReadUser, ReadDevice, Rotate, revokeToken, StartChange, UnbanUser,
     LoseRace, StartRemoval, vars

\* A request's record changes by its own steps alone.
LEMMA LoginsOwnSteps ==
  ASSUME TypeOK, [Next]_vars, NEW l \in Logins, login'[l] # login[l]
  PROVE  \/ \E d \in Devices \cup {None} : StartLogin(l, d)
         \/ SpendRecoveryCode(l)
         \/ RereadAccount(l)
         \/ prepareLoginDevice(l)
         \/ issueIdentitySession(l)
         \/ retryAfterDeviceConflict(l)
<1>1. ASSUME NEW c \in Changes, ReplacingStep(c)
      PROVE  UNCHANGED login
  BY <1>1, ReplacingReplaces DEF Replaces
<1>2. ASSUME NEW m \in Logins, m # l,
             \/ \E d \in Devices \cup {None} : StartLogin(m, d)
             \/ SpendRecoveryCode(m)
             \/ RereadAccount(m)
             \/ prepareLoginDevice(m)
             \/ issueIdentitySession(m)
             \/ retryAfterDeviceConflict(m)
      PROVE  login'[l] = login[l]
  BY <1>2 DEF StartLogin, SpendRecoveryCode, RereadAccount,
     prepareLoginDevice, issueIdentitySession, retryAfterDeviceConflict, TypeOK
<1> QED
  BY <1>1, <1>2, Steps DEF ReadToken, ReadUser, ReadDevice, Rotate,
     revokeToken, StartChange, UnbanUser, LoseRace, Close, StartRemoval,
     deleteDevices, vars

\* While a login takes no step, what it counts on holds or its stamp or its
\* device is gone.
LEMMA WaitingLogin ==
  ASSUME TypeOK, RequestsFresh, LoginsGoOn, LoginsYieldOnlyToRevocation,
         [Next]_vars, NEW l \in Logins, login'[l] = login[l]
  PROVE  OnCourse(l)' /\ YieldsToRevocation(l)'
<1> USE DEF LoginsGoOn, OnCourse
<1> DEFINE req == login[l]
<1>0. /\ req \in LoginRequest
      /\ account \in AccountRow
  BY DEF TypeOK
<1>1. \/ UNCHANGED account
      \/ account'.stamp # req.stamp
      \/ ~account.deleted /\ account' = [account EXCEPT !.status = "active"]
  BY AccountMovesOn
<1>2. account'.stamp = req.stamp =>
        /\ account.stamp = req.stamp
        /\ account'.recovery = account.recovery
        /\ account.status = "active" /\ ~account.deleted
             => account'.status = "active" /\ ~account'.deleted
  BY <1>0, <1>1 DEF AccountRow
<1>3. /\ req.device \notin removed' => req.device \notin removed
      /\ req.device \in Devices /\ req.device \notin removed'
           /\ devices[req.device] \in Logins
           => devices'[req.device] = devices[req.device]
  BY StampedDevicesStay
<1>4. req.device \in Devices \cup {None}
  BY <1>0 DEF LoginRequest
<1>5. YieldsToRevocation(l)'
  BY <1>2, <1>3 DEF YieldsToRevocation, LoginsYieldOnlyToRevocation
<1>6. ASSUME req.stage \in {"recovering", "verified", "prepared", "conflict"},
             req.stamp = account'.stamp
      PROVE  GoesOn(l)'
  BY <1>2, <1>3, <1>4, <1>6 DEF GoesOn
<1>7. req.stage = "reread" => req.stamp # account'.stamp
  BY <1>2
<1> QED
  BY <1>5, <1>6, <1>7

\* Its own steps keep that up too: it is refused for nothing else.
LEMMA SteppingLogin ==
  ASSUME TypeOK, RequestsFresh, LoginsGoOn, DeletionsBan, [Next]_vars,
         NEW l \in Logins, login'[l] # login[l]
  PROVE  OnCourse(l)' /\ YieldsToRevocation(l)'
<1> DEFINE req == login[l]
           d   == login[l].device
<1> USE DEF YieldsToRevocation
<1>0. /\ req \in LoginRequest
      /\ account \in AccountRow
      /\ login \in [Logins -> LoginRequest]
      /\ devices \in [Devices -> DeviceStamps]
      /\ d \in Devices \cup {None}
  BY DEF TypeOK, LoginRequest
<1>b. OnCourse(l)
  BY DEF LoginsGoOn
<1>1. ASSUME NEW e \in Devices \cup {None}, StartLogin(l, e)
      PROVE  OnCourse(l)' /\ YieldsToRevocation(l)'
  <2>1. /\ login'[l].stage \in {"recovering", "verified"}
        /\ login'[l].retries = 1
        /\ login'[l].code = account.recovery
        /\ login'[l].stamp = account.stamp
    BY <1>0, <1>1 DEF StartLogin, NoLogin
  <2>2. account' = account /\ account.status = "active" /\ ~account.deleted
    BY <1>1 DEF StartLogin
  <2> QED
    BY <2>1, <2>2 DEF OnCourse, GoesOn
<1>2. ASSUME SpendRecoveryCode(l)
      PROVE  OnCourse(l)' /\ YieldsToRevocation(l)'
  <2>1. /\ login'[l].stamp = req.stamp
        /\ login'[l].retries = req.retries
        /\ login'[l].device = d
        /\ req.stage = "recovering"
    BY <1>0, <1>2 DEF SpendRecoveryCode, LoginRequest
  <2>2. CASE account.recovery = req.code
    <3>0. /\ account' = [account EXCEPT !.recovery = None, !.stamp = l]
          /\ login' = [login EXCEPT ![l].stage = "reread"]
      BY <1>2, <2>2 DEF SpendRecoveryCode
    <3>1. login'[l].stage = "reread" /\ account'.stamp = l
      BY <1>0, <3>0 DEF LoginRequest, AccountRow
    <3>2. req.stamp # l
      BY <2>1 DEF RequestsFresh, Pending, Fresh
    <3> QED
      BY <1>b, <2>1, <3>1, <3>2 DEF OnCourse
  <2>3. CASE account.recovery # req.code
    <3>1. login'[l].stage = "refused" /\ account' = account
      BY <1>0, <1>2, <2>3 DEF SpendRecoveryCode, LoginRequest
    <3>2. req.stamp # account.stamp
      BY <1>b, <2>1, <2>3 DEF OnCourse, GoesOn
    <3> QED
      BY <1>b, <2>1, <3>1, <3>2 DEF OnCourse
  <2> QED
    BY <2>2, <2>3
<1>3. ASSUME RereadAccount(l)
      PROVE  OnCourse(l)' /\ YieldsToRevocation(l)'
  <2>1. /\ login'[l].retries = req.retries
        /\ login'[l].device = d
        /\ req.stage = "reread"
        /\ account' = account
    BY <1>0, <1>3 DEF RereadAccount, LoginRequest
  <2>2. CASE account.status = "active"
    <3>1. /\ login'[l].stage = "verified"
          /\ login'[l].stamp = account.stamp
      BY <1>0, <1>3, <2>2 DEF RereadAccount, LoginRequest
    <3>2. ~account.deleted
      BY <2>2 DEF DeletionsBan
    <3> QED
      BY <1>b, <2>1, <2>2, <3>1, <3>2 DEF OnCourse, GoesOn
  <2>3. CASE account.status # "active"
    <3>1. /\ login'[l].stage = "refused"
          /\ login'[l].stamp = req.stamp
      BY <1>0, <1>3, <2>3 DEF RereadAccount, LoginRequest
    <3> QED
      BY <1>b, <2>1, <3>1 DEF OnCourse
  <2> QED
    BY <2>2, <2>3
<1>4. ASSUME prepareLoginDevice(l)
      PROVE  OnCourse(l)' /\ YieldsToRevocation(l)'
  <2>1. /\ login'[l].stage = "prepared"
        /\ login'[l].dstamp = SessionStamp(l, d)
        /\ login'[l].stamp = req.stamp
        /\ login'[l].retries = req.retries
        /\ login'[l].device = d
        /\ req.stage = "verified"
        /\ UNCHANGED <<account, devices, removed>>
    BY <1>0, <1>4 DEF prepareLoginDevice, LoginRequest
  <2>2. d # None /\ devices[d] \in Logins => SessionStamp(l, d) = devices[d]
    BY DEF SessionStamp
  <2> QED
    BY <1>b, <2>1, <2>2 DEF OnCourse, GoesOn
<1>5. ASSUME issueIdentitySession(l)
      PROVE  OnCourse(l)' /\ YieldsToRevocation(l)'
  <2>1. /\ login'[l].stamp = req.stamp
        /\ login'[l].dstamp = req.dstamp
        /\ login'[l].retries = req.retries
        /\ login'[l].device = d
        /\ req.stage = "prepared"
        /\ UNCHANGED <<account, removed>>
    BY <1>0, <1>5 DEF issueIdentitySession, LoginRequest
  <2>2. CASE SessionEligible(d, req.dstamp, req.stamp)
    <3>0. login' = [login EXCEPT ![l].stage = "done"]
      BY <1>5, <2>2 DEF issueIdentitySession
    <3>1. login'[l].stage = "done"
      BY <1>0, <3>0 DEF LoginRequest
    <3> QED
      BY <1>b, <2>1, <3>1 DEF OnCourse
  <2>3. CASE ~SessionEligible(d, req.dstamp, req.stamp)
    <3>0. login' = [login EXCEPT ![l].stage =
            IF d # None /\ req.retries > 0 THEN "conflict" ELSE "refused"]
      BY <1>5, <2>3 DEF issueIdentitySession
    <3>1. login'[l].stage = IF d # None /\ req.retries > 0 THEN "conflict"
                            ELSE "refused"
      BY <1>0, <3>0 DEF LoginRequest
    <3>2. CASE req.stamp # account.stamp
      BY <1>b, <2>1, <3>1, <3>2 DEF OnCourse
    <3>3. CASE req.stamp = account.stamp
      <4>1. GoesOn(l)
        BY <1>b, <2>1, <3>3 DEF OnCourse
      <4>2. UserEligible(req.stamp)
        BY <4>1, <3>3 DEF GoesOn, UserEligible
      <4>3. d \in Devices /\ Upserted(d, req.dstamp)[d] # req.dstamp
        BY <1>0, <2>3, <4>2 DEF SessionEligible
      <4>4. /\ devices[d] \in Logins
            /\ devices[d] # req.dstamp
        BY <1>0, <4>3, RequestAssumption DEF Upserted
      <4>5. devices'[d] = devices[d]
        BY <1>0, <1>5, <4>2, <4>3, <4>4 DEF issueIdentitySession, Upserted
      <4>6. CASE req.retries = 0
        BY <1>b, <2>1, <3>1, <4>1, <4>3, <4>4, <4>6 DEF GoesOn, OnCourse
      <4>7. CASE req.retries > 0
        BY <2>1, <3>1, <4>1, <4>3, <4>4, <4>5, <4>7, RequestAssumption
           DEF GoesOn, OnCourse
      <4> QED
        BY <1>0, <4>6, <4>7 DEF LoginRequest
    <3> QED
      BY <3>2, <3>3
  <2> QED
    BY <2>2, <2>3
<1>6. ASSUME retryAfterDeviceConflict(l)
      PROVE  OnCourse(l)' /\ YieldsToRevocation(l)'
  <2>1. /\ login'[l].stamp = req.stamp
        /\ login'[l].dstamp = req.dstamp
        /\ login'[l].device = d
        /\ req.stage = "conflict"
        /\ UNCHANGED <<account, devices, removed>>
        /\ login'[l].stage \in {"verified", "refused"}
        /\ login'[l].stage = "verified" => devices[d] \in Logins
        /\ login'[l].stage = "refused" =>
             devices[d] \notin Logins \/ devices[d] = req.dstamp
    BY <1>0, <1>6 DEF retryAfterDeviceConflict, LoginRequest
  <2> QED
    BY <1>b, <2>1 DEF OnCourse, GoesOn
<1> QED
  BY <1>1, <1>2, <1>3, <1>4, <1>5, <1>6, LoginsOwnSteps

\* A deleted account stays banned.
LEMMA DeletionsStep ==
  ASSUME TypeOK, DeletionsBan, [Next]_vars
  PROVE  DeletionsBan'
<1> USE DEF TypeOK, AccountRow, DeletionsBan
<1>1. ASSUME NEW l \in Logins, SpendRecoveryCode(l)
      PROVE  DeletionsBan'
  BY <1>1 DEF SpendRecoveryCode
<1>2. ASSUME NEW c \in Changes, ReplacingStep(c)
      PROVE  DeletionsBan'
  BY <1>2 DEF ReplacingStep, changePassword, ChangeSecondFactor,
     DisableFactor, recoverTwoFactor, deleteAllDevices, BanUser,
     deleteAccountData
<1>3. ASSUME NEW c \in Changes, UnbanUser(c)
      PROVE  DeletionsBan'
  BY <1>3 DEF UnbanUser
<1> QED
  BY <1>1, <1>2, <1>3, Steps DEF StartLogin, RereadAccount,
     prepareLoginDevice, issueIdentitySession, retryAfterDeviceConflict,
     ReadToken, ReadUser, ReadDevice, Rotate, revokeToken, StartChange,
     LoseRace, StartRemoval, deleteDevices, vars

LEMMA GoOnStep ==
  ASSUME TypeOK, RequestsFresh, LoginsGoOn, DeletionsBan,
         LoginsYieldOnlyToRevocation, [Next]_vars
  PROVE  LoginsGoOn' /\ DeletionsBan' /\ LoginsYieldOnlyToRevocation'
<1>1. ASSUME NEW l \in Logins
      PROVE  OnCourse(l)' /\ YieldsToRevocation(l)'
  BY <1>1, WaitingLogin, SteppingLogin
<1> QED
  BY <1>1, DeletionsStep DEF LoginsGoOn, LoginsYieldOnlyToRevocation,
     YieldsToRevocation

-----------------------------------------------------------------------------
(* The theorems. *)

LEMMA InvInit ==
  ASSUME Init
  PROVE  IInv
<1>1. TypeOK
  BY TypeInit
<1>2. RequestsFresh
  BY RequestAssumption DEF Init, RequestsFresh, Pending, Fresh, NoLogin,
     NoRefresh
<1>3. LoginShape /\ LoginsKnow /\ Bound /\ BansAreFresh
  BY DEF Init, LoginShape, LoginsKnow, Bound, BansAreFresh, NoLogin
<1>4. Made /\ Spent /\ RowsStand
  BY DEF Init, Made, Spent, RowsStand, NoRefresh, TokenIds
<1>5. TokensAreCurrent /\ OneTokenPerLogin /\ RotatedOnce
        /\ SessionsProveThePassword
  BY DEF Init, TokensAreCurrent, OneTokenPerLogin, RotatedOnce, NoRefresh,
     SessionsProveThePassword
<1>6. LoginsGoOn /\ DeletionsBan /\ LoginsYieldOnlyToRevocation
  BY DEF Init, LoginsGoOn, OnCourse, DeletionsBan, NoLogin,
     LoginsYieldOnlyToRevocation
<1> QED
  BY <1>1, <1>2, <1>3, <1>4, <1>5, <1>6 DEF IInv

LEMMA InvStep ==
  ASSUME IInv, [Next]_vars
  PROVE  IInv'
<1> USE DEF IInv
<1>1. TypeOK' /\ LoginShape'
  BY TypeStep, ShapeStep
<1>2. RequestsFresh' /\ LoginsKnow' /\ BansAreFresh'
  BY FreshStep, KnowStep, BansStep
<1>3. Bound' /\ Made' /\ Spent' /\ RowsStand'
  BY BoundStep, MadeStep, SpentStep, RowsStandStep
<1>4. TokensAreCurrent' /\ OneTokenPerLogin' /\ RotatedOnce'
        /\ SessionsProveThePassword'
  BY CurrentStep, OneTokenStep, RotatedOnceStep, PasswordStep
<1>5. LoginsGoOn' /\ DeletionsBan' /\ LoginsYieldOnlyToRevocation'
  BY GoOnStep
<1> QED
  BY <1>1, <1>2, <1>3, <1>4, <1>5

\* The inductive invariant holds throughout.
THEOREM Invariance == Spec => []IInv
<1>1. Init => IInv
  BY InvInit
<1>2. IInv /\ [Next]_vars => IInv'
  BY InvStep
<1> QED
  BY <1>1, <1>2, PTL DEF Spec

\* Every variable keeps its type.
THEOREM TypeCorrect == Spec => []TypeOK
<1>1. IInv => TypeOK
  BY DEF IInv
<1> QED
  BY <1>1, Invariance, PTL

\* No stored refresh token outlives a change of the account's stamp, a ban, a
\* deletion or the removal of its device: identity-session, identity-refresh
\* and the batches of db/batch/sessions.
THEOREM NoTokenOutlivesRevocation == Spec => []TokensAreCurrent
<1>1. IInv => TokensAreCurrent
  BY DEF IInv
<1> QED
  BY <1>1, Invariance, PTL

\* Rotation never forks: a login has one live token at most, and a token is
\* exchanged once (refreshTokenRotationInsertQuery).
THEOREM RotationNeverForks == Spec => [](OneTokenPerLogin /\ RotatedOnce)
<1>1. IInv => OneTokenPerLogin /\ RotatedOnce
  BY DEF IInv
<1> QED
  BY <1>1, Invariance, PTL

\* After a password change only sessions of the new password are left, but
\* for recovery logins.
THEOREM LivePasswordOnly == Spec => []SessionsProveThePassword
<1>1. IInv => SessionsProveThePassword
  BY DEF IInv
<1> QED
  BY <1>1, Invariance, PTL

\* A login is refused for a revocation and for nothing else, however many
\* logins of its device run beside it (retryAfterDeviceConflict).
THEOREM RefusedForRevocationOnly == Spec => []LoginsYieldOnlyToRevocation
<1>1. IInv => LoginsYieldOnlyToRevocation
  BY DEF IInv
<1> QED
  BY <1>1, Invariance, PTL

\* An access token is accepted when it is issued: what a login or a refresh
\* read before its batch still holds when the batch commits.
THEOREM AcceptedWhenIssued == Spec => IssuedAccessIsAccepted
<1>1. ASSUME IInv, [Next]_vars, NEW a \in Claims, a \in access' \ access
      PROVE  Accepted(a)'
  <2>1. ASSUME NEW l \in Logins, issueIdentitySession(l)
        PROVE  Accepted(a)'
    <3>1. /\ a = Claim(login[l].device, login[l].dstamp, login[l].stamp)
          /\ SessionEligible(login[l].device, login[l].dstamp, login[l].stamp)
      BY <1>1, <2>1 DEF issueIdentitySession
    <3>2. /\ a.device = login[l].device
          /\ a.dstamp = login[l].dstamp
          /\ a.stamp = login[l].stamp
      BY <3>1 DEF Claim
    <3>3. /\ account' = account
          /\ devices' = Upserted(login[l].device, login[l].dstamp)
      BY <2>1, <3>1 DEF issueIdentitySession, SessionEligible
    <3> QED
      BY <3>1, <3>2, <3>3 DEF SessionEligible, UserEligible, Accepted,
         AccountAccepts, DeviceEligible
  <2>2. ASSUME NEW r \in Refreshes, Rotate(r)
        PROVE  Accepted(a)'
    <3>1. /\ a = Claim(refresh[r].row.device, refresh[r].row.dstamp,
                       refresh[r].stamp)
          /\ Rotatable(r)
          /\ refresh[r].stage = "device"
      BY <1>1, <2>2 DEF Rotate
    <3>2. refresh[r].row = tokens[refresh[r].token]
      BY <1>1, <3>1 DEF IInv, RowsStand, Rotatable
    <3>3. /\ a.device = refresh[r].row.device
          /\ a.dstamp = refresh[r].row.dstamp
          /\ a.stamp = refresh[r].stamp
      BY <3>1 DEF Claim
    <3>4. account' = account /\ devices' = devices
      BY <2>2 DEF Rotate
    <3> QED
      BY <3>1, <3>2, <3>3, <3>4 DEF Rotatable, UserEligible, Accepted,
         AccountAccepts, DeviceEligible
  <2>3. ASSUME NEW c \in Changes, ReplacingStep(c)
        PROVE  FALSE
    BY <1>1, <2>3, ReplacingReplaces DEF IInv, Replaces
  <2> QED
    BY <1>1, <2>1, <2>2, <2>3, Steps DEF StartLogin, SpendRecoveryCode,
       RereadAccount, prepareLoginDevice, retryAfterDeviceConflict, ReadToken,
       ReadUser, ReadDevice, revokeToken, StartChange, UnbanUser, LoseRace,
       Close, StartRemoval, deleteDevices, vars
<1>2. ASSUME IInv, [Next]_vars
      PROVE  [\A a \in Claims : a \in access' \ access => Accepted(a)']_vars
  BY <1>1, <1>2
<1> QED
  BY <1>2, Invariance, PTL DEF Spec, IssuedAccessIsAccepted

\* Claims an account stopped accepting, by whatever request, are never
\* accepted again: stamps are written once, and a ban has one of its own.
THEOREM RevokedForGood == Spec => RevocationIsFinal
<1>1. ASSUME IInv, [Next]_vars, NEW a \in access, ~AccountAccepts(a)
      PROVE  ~AccountAccepts(a)'
  <2>1. ASSUME NEW l \in Logins, SpendRecoveryCode(l)
        PROVE  ~AccountAccepts(a)'
    <3>1. Fresh(l)
      BY <1>1, <2>1 DEF SpendRecoveryCode, IInv, RequestsFresh, Pending
    <3>2. account' = account \/ account'.stamp = l
      BY <1>1, <2>1 DEF SpendRecoveryCode, IInv, TypeOK, AccountRow
    <3> QED
      BY <1>1, <3>1, <3>2 DEF Fresh, AccountAccepts
  <2>2. ASSUME NEW c \in Changes, ReplacingStep(c)
        PROVE  ~AccountAccepts(a)'
    <3>1. Replaces(c)
      BY <1>1, <2>2, ReplacingReplaces DEF IInv
    <3>2. Fresh(c)
      BY <1>1, <3>1 DEF Replaces, IInv, RequestsFresh, Pending
    <3> QED
      BY <3>1, <3>2 DEF Replaces, Fresh, AccountAccepts
  <2>3. ASSUME NEW c \in Changes, UnbanUser(c)
        PROVE  ~AccountAccepts(a)'
    BY <1>1, <2>3 DEF UnbanUser, IInv, BansAreFresh, AccountAccepts, TypeOK,
       AccountRow
  <2>4. CASE UNCHANGED account
    BY <1>1, <2>4 DEF AccountAccepts
  <2> QED
    BY <1>1, <2>1, <2>2, <2>3, <2>4, Steps DEF StartLogin, RereadAccount,
       prepareLoginDevice, issueIdentitySession, retryAfterDeviceConflict,
       ReadToken, ReadUser, ReadDevice, Rotate, revokeToken, StartChange,
       LoseRace, StartRemoval, deleteDevices, vars
<1>2. ASSUME IInv, [Next]_vars
      PROVE  [\A a \in access : ~AccountAccepts(a) => ~AccountAccepts(a)']_vars
  BY <1>1, <1>2
<1> QED
  BY <1>2, Invariance, PTL DEF Spec, RevocationIsFinal
=============================================================================
