------------------------------ MODULE Sessions ------------------------------
(***************************************************************************)
(* The sessions of one account: the login that issues a refresh token, the *)
(* rotation of that token, and everything that revokes it.  A request is   *)
(* a sequence of reads, each of its own, and one D1 batch, which is atomic; *)
(* what it read may be stale when its batch runs.                          *)
(*                                                                         *)
(* Requests:  Logins     password grants; those in Recoveries present the  *)
(*                       account's recovery code as their second factor    *)
(*            Refreshes  refresh-token grants                              *)
(*            Changes    requests that replace the security stamp          *)
(*            Removals   requests that delete devices                      *)
(*                                                                         *)
(* A request's own name stands for every fresh value it generates: its     *)
(* refresh token, its device stamp, its security stamp, its password hash. *)
(***************************************************************************)
EXTENDS Naturals, FiniteSets

CONSTANTS Devices, Logins, Recoveries, Refreshes, Changes, Removals,
          Start,      \* the account's first stamp, password hash and code
          Unstamped,  \* the session_stamp of a row older than that column
          None        \* SQL NULL, or no row

ASSUME RequestAssumption ==
  /\ Recoveries \subseteq Logins
  /\ Logins \cap Refreshes = {}
  /\ Logins \cap Changes = {}
  /\ Start \notin Logins \cup Changes
  /\ Unstamped \notin Logins
  /\ None \notin Devices \cup Logins \cup Refreshes \cup Changes
                   \cup {Start, Unstamped}

VARIABLES
  account,   \* the users row
  devices,   \* the devices rows: each one's session_stamp
  tokens,    \* the refresh_tokens rows, by token
  login, refresh, change, removal,   \* the requests in flight
  access,    \* history: what every issued access token claims
  removed    \* history: the devices some removal deleted

vars == <<account, devices, tokens, login, refresh, change, removal,
          access, removed>>

Stamps == {Start} \cup Logins \cup Changes
DeviceStamps == Logins \cup {Unstamped, None}
TokenIds == Logins \cup Refreshes

Kinds == {"password", "factor", "disable", "devices", "recover", "ban",
          "unban", "delete"}

\* A refresh_tokens row; stamp, password and family are history: the security
\* stamp and password hash its login was verified under, and that login.
TokenRow == [device : Devices \cup {None}, dstamp : Logins \cup {None},
             stamp : Stamps, password : Stamps, family : Logins]

Claims == [stamp : Stamps, device : Devices \cup {None},
           dstamp : Logins \cup {None}]

AccountRow == [status : {"active", "banned"}, deleted : BOOLEAN,
               stamp : Stamps, password : Stamps,
               recovery : Stamps \cup {None}]

LoginRequest ==
  [stage : {"idle", "recovering", "reread", "verified", "prepared",
            "conflict", "done", "refused"},
   stamp : Stamps, password : Stamps, code : Stamps \cup {None},
   device : Devices \cup {None}, dstamp : Logins \cup {None},
   retries : {0, 1}]

RefreshRequest ==
  [stage : {"idle", "token", "user", "device", "done", "refused"},
   token : TokenIds \cup {None}, row : TokenRow \cup {None}, stamp : Stamps]

ChangeRequest ==
  [stage : {"idle", "read", "done"}, kind : Kinds, stamp : Stamps,
   password : Stamps, recovery : Stamps \cup {None}]

RemovalRequest ==
  [stage : {"idle", "read", "done"}, seen : [Devices -> DeviceStamps]]

\* Invariant: the rows, the requests in flight and the history have the
\* shapes the code gives them.
TypeOK ==
  /\ account \in AccountRow
  /\ devices \in [Devices -> DeviceStamps]
  /\ tokens \in [TokenIds -> TokenRow \cup {None}]
  /\ login \in [Logins -> LoginRequest]
  /\ refresh \in [Refreshes -> RefreshRequest]
  /\ change \in [Changes -> ChangeRequest]
  /\ removal \in [Removals -> RemovalRequest]
  /\ access \subseteq Claims
  /\ removed \subseteq Devices

\* Deviation: a login that meets a device conflict is not retried.
NoLoginRetry == [stage |-> "idle", stamp |-> Start, password |-> Start,
                 code |-> None, device |-> None, dstamp |-> None,
                 retries |-> 0]

NoLogin == [stage |-> "idle", stamp |-> Start, password |-> Start,
            code |-> None, device |-> None, dstamp |-> None, retries |-> 1]
NoRefresh == [stage |-> "idle", token |-> None, row |-> None, stamp |-> Start]
NoChange == [stage |-> "idle", kind |-> "password", stamp |-> Start,
             password |-> Start, recovery |-> None]
NoRemoval == [stage |-> "idle", seen |-> [d \in Devices |-> None]]

\* An active account, with or without a second factor, and devices that are
\* not registered or registered before session stamps existed.
Init ==
  /\ \E code \in {None, Start} :
       account = [status |-> "active", deleted |-> FALSE, stamp |-> Start,
                  password |-> Start, recovery |-> code]
  /\ devices \in [Devices -> {None, Unstamped}]
  /\ tokens = [k \in TokenIds |-> None]
  /\ login = [l \in Logins |-> NoLogin]
  /\ refresh = [r \in Refreshes |-> NoRefresh]
  /\ change = [c \in Changes |-> NoChange]
  /\ removal = [x \in Removals |-> NoRemoval]
  /\ access = {}
  /\ removed = {}

-----------------------------------------------------------------------------
(* What the guards of the statements and the middleware test. *)

\* The device named in a token is registered under the stamp the token has.
DeviceEligible(d, s) == d # None => devices[d] = s

\* Deviation: the statements do not compare the stamp that was read.
UserEligibleStale(s) == account.status = "active" /\ ~account.deleted

UserEligible(s) ==
  account.status = "active" /\ ~account.deleted /\ account.stamp = s

\* Does the account, and do the account and the device, accept these claims?
AccountAccepts(a) == account.status = "active" /\ account.stamp = a.stamp
Accepted(a) == AccountAccepts(a) /\ DeviceEligible(a.device, a.dstamp)

SignedIn == \E a \in access : Accepted(a)

\* The second statement of every batch that replaces the security stamp.
NoTokens == [k \in TokenIds |-> None]

Without(k) == [tokens EXCEPT ![k] = None]

-----------------------------------------------------------------------------
(* Logins. *)

\* The password grant looks the account up by its e-mail address, which a
\* deletion releases, and verifies the password against the row it read.
StartLogin(l, d) ==
  /\ login[l].stage = "idle"
  /\ account.status = "active" /\ ~account.deleted
  /\ l \in Recoveries => account.recovery # None
  /\ login' = [login EXCEPT ![l] =
       [stage |-> IF l \in Recoveries THEN "recovering" ELSE "verified",
        stamp |-> account.stamp, password |-> account.password,
        code |-> account.recovery, device |-> d, dstamp |-> None,
        retries |-> NoLogin.retries]]
  /\ UNCHANGED <<account, devices, tokens, refresh, change, removal, access,
                 removed>>

\* The recovery code is spent: the second factor goes, the stamp is replaced
\* and every session ends.
SpendRecoveryCode(l) ==
  /\ login[l].stage = "recovering"
  /\ IF account.recovery = login[l].code
       THEN /\ account' = [account EXCEPT !.recovery = None, !.stamp = l]
            /\ tokens' = NoTokens
            /\ login' = [login EXCEPT ![l].stage = "reread"]
       ELSE /\ login' = [login EXCEPT ![l].stage = "refused"]
            /\ UNCHANGED <<account, tokens>>
  /\ UNCHANGED <<devices, refresh, change, removal, access, removed>>

\* It then goes on with the row as it is by now.
RereadAccount(l) ==
  /\ login[l].stage = "reread"
  /\ login' = [login EXCEPT ![l] =
       IF account.status = "active"
         THEN [@ EXCEPT !.stage = "verified", !.stamp = account.stamp]
         ELSE [@ EXCEPT !.stage = "refused"]]
  /\ UNCHANGED <<account, devices, tokens, refresh, change, removal, access,
                 removed>>

\* The stamp the session will carry: the device's own, or a fresh one.
SessionStamp(l, d) ==
  IF d = None THEN None ELSE IF devices[d] \in Logins THEN devices[d] ELSE l

prepareLoginDevice(l) ==
  /\ login[l].stage = "verified"
  /\ login' = [login EXCEPT ![l].stage = "prepared",
                            ![l].dstamp = SessionStamp(l, login[l].device)]
  /\ UNCHANGED <<account, devices, tokens, refresh, change, removal, access,
                 removed>>

\* The batch: register the device, keeping a stamp it already has, and insert
\* the token if the account and the device are still as they were read.
Upserted(d, s) ==
  IF d = None THEN devices
  ELSE [devices EXCEPT ![d] = IF @ \in Logins THEN @ ELSE s]

\* Deviation: the token is inserted whatever stamp the device turned out to
\* have.
SessionEligibleAnyDevice(d, ds, s) == UserEligible(s)

SessionEligible(d, ds, s) ==
  UserEligible(s) /\ (d # None => Upserted(d, ds)[d] = ds)

Row(d, ds, s, p, f) ==
  [device |-> d, dstamp |-> ds, stamp |-> s, password |-> p, family |-> f]

Claim(d, ds, s) == [stamp |-> s, device |-> d, dstamp |-> ds]

issueIdentitySession(l) ==
  LET req == login[l]
  IN  /\ req.stage = "prepared"
      /\ IF UserEligible(req.stamp)
           THEN devices' = Upserted(req.device, req.dstamp)
           ELSE UNCHANGED devices
      /\ IF SessionEligible(req.device, req.dstamp, req.stamp)
           THEN /\ tokens' = [tokens EXCEPT ![l] =
                     Row(req.device, req.dstamp, req.stamp, req.password, l)]
                /\ access' = access
                     \cup {Claim(req.device, req.dstamp, req.stamp)}
                /\ login' = [login EXCEPT ![l].stage = "done"]
           ELSE /\ login' = [login EXCEPT ![l].stage =
                     IF req.device # None /\ req.retries > 0
                       THEN "conflict" ELSE "refused"]
                /\ UNCHANGED <<tokens, access>>
      /\ UNCHANGED <<account, refresh, change, removal, removed>>

\* A first login of the same device may have got in before: try once more
\* with the stamp that one stored.
retryAfterDeviceConflict(l) ==
  /\ login[l].stage = "conflict"
  /\ LET stored == devices[login[l].device]
     IN  IF stored \in Logins /\ stored # login[l].dstamp
           THEN login' = [login EXCEPT ![l].stage = "verified",
                                       ![l].retries = @ - 1]
           ELSE login' = [login EXCEPT ![l].stage = "refused"]
  /\ UNCHANGED <<account, devices, tokens, refresh, change, removal, access,
                 removed>>

-----------------------------------------------------------------------------
(* Refreshes.  A client may present any token it was ever given. *)

GivenOut == {l \in Logins : login[l].stage = "done"}
              \cup {r \in Refreshes : refresh[r].stage = "done"}

ReadToken(r) ==
  /\ refresh[r].stage = "idle"
  /\ \E k \in GivenOut :
       refresh' = [refresh EXCEPT ![r] =
         IF tokens[k] = None THEN [@ EXCEPT !.stage = "refused"]
         ELSE [@ EXCEPT !.stage = "token", !.token = k, !.row = tokens[k]]]
  /\ UNCHANGED <<account, devices, tokens, login, change, removal, access,
                 removed>>

\* deleteRefreshToken and give up.
Reject(r) ==
  /\ tokens' = Without(refresh[r].token)
  /\ refresh' = [refresh EXCEPT ![r].stage = "refused"]

ReadUser(r) ==
  /\ refresh[r].stage = "token"
  /\ \/ /\ account.status # "active"
        /\ Reject(r)
     \/ /\ account.status = "active"
        /\ refresh' = [refresh EXCEPT ![r].stage = "user",
                                      ![r].stamp = account.stamp]
        /\ UNCHANGED tokens
  /\ UNCHANGED <<account, devices, login, change, removal, access, removed>>

ReadDevice(r) ==
  /\ refresh[r].stage = "user"
  /\ \/ /\ ~DeviceEligible(refresh[r].row.device, refresh[r].row.dstamp)
        /\ Reject(r)
     \/ /\ DeviceEligible(refresh[r].row.device, refresh[r].row.dstamp)
        /\ refresh' = [refresh EXCEPT ![r].stage = "device"]
        /\ UNCHANGED tokens
  /\ UNCHANGED <<account, devices, login, change, removal, access, removed>>

\* Insert the successor from the stored row, if that row, the account and the
\* device still hold; delete the predecessor whether or not they do.
Rotatable(r) ==
  /\ tokens[refresh[r].token] # None
  /\ UserEligible(refresh[r].stamp)
  /\ DeviceEligible(tokens[refresh[r].token].device,
                    tokens[refresh[r].token].dstamp)

\* Deviation: the successor is inserted beside its predecessor.
RotateKeepingOld(r) ==
  /\ refresh[r].stage = "device"
  /\ Rotatable(r)
  /\ tokens' = [tokens EXCEPT ![r] = tokens[refresh[r].token]]
  /\ refresh' = [refresh EXCEPT ![r].stage = "done"]
  /\ UNCHANGED <<account, devices, login, change, removal, access, removed>>

Rotate(r) ==
  LET old == refresh[r].token
  IN  /\ refresh[r].stage = "device"
      /\ IF Rotatable(r)
           THEN /\ tokens' = [Without(old) EXCEPT ![r] = tokens[old]]
                /\ access' = access \cup
                     {Claim(refresh[r].row.device, refresh[r].row.dstamp,
                            refresh[r].stamp)}
                /\ refresh' = [refresh EXCEPT ![r].stage = "done"]
           ELSE /\ tokens' = Without(old)
                /\ refresh' = [refresh EXCEPT ![r].stage = "refused"]
                /\ UNCHANGED access
      /\ UNCHANGED <<account, devices, login, change, removal, removed>>

-----------------------------------------------------------------------------
(* Revocation. *)

\* Logout deletes the token the client presents; an expired token is deleted
\* by whoever meets it, and no statement honours it meanwhile.
revokeToken(k) ==
  /\ tokens[k] # None
  /\ tokens' = Without(k)
  /\ UNCHANGED <<account, devices, login, refresh, change, removal, access,
                 removed>>

\* Each of these reads the account row: in the authentication middleware, by
\* e-mail for the public recovery endpoint, in the administrator's handler.
\* An account deletion reads nothing it will compare.
StartChange(c, kind) ==
  /\ change[c].stage = "idle"
  /\ kind \in {"password", "factor", "disable", "devices"} => SignedIn
  /\ kind = "recover" => /\ account.status = "active" /\ ~account.deleted
                         /\ account.recovery # None
  /\ kind = "ban" => account.status = "active" /\ ~account.deleted
  /\ kind = "unban" => account.status = "banned" /\ ~account.deleted
  /\ change' = [change EXCEPT ![c] =
       [stage |-> "read", kind |-> kind, stamp |-> account.stamp,
        password |-> account.password, recovery |-> account.recovery]]
  /\ UNCHANGED <<account, devices, tokens, login, refresh, removal, access,
                 removed>>

\* The request is over; the batch of one that lost its race writes nothing.
Close(c) ==
  /\ change' = [change EXCEPT ![c] = [NoChange EXCEPT !.stage = "done"]]
  /\ UNCHANGED <<login, refresh, removal, access>>

Claimed(c, kind) == change[c].stage = "read" /\ change[c].kind = kind

\* Deviation: a password change leaves the sessions alone.
changePasswordOnly(c) ==
  /\ Claimed(c, "password")
  /\ account.password = change[c].password
  /\ account' = [account EXCEPT !.password = c]
  /\ UNCHANGED <<tokens, devices, removed>>
  /\ Close(c)

changePassword(c) ==
  /\ Claimed(c, "password")
  /\ account.password = change[c].password
  /\ account' = [account EXCEPT !.password = c, !.stamp = c]
  /\ tokens' = NoTokens
  /\ UNCHANGED <<devices, removed>>
  /\ Close(c)

\* Enabling a factor stores a recovery code or keeps the one there is, adding
\* or removing a passkey keeps it, disabling all factors clears it.
ChangeSecondFactor(c) ==
  /\ Claimed(c, "factor")
  /\ account.stamp = change[c].stamp
  /\ \E code \in {None, c, account.recovery} :
       account' = [account EXCEPT !.stamp = c, !.recovery = code]
  /\ tokens' = NoTokens
  /\ UNCHANGED <<devices, removed>>
  /\ Close(c)

\* Turning off the authenticator or the YubiKeys compares that setting alone.
\* Whoever changes the setting replaces the stamp, not the reverse: under a
\* new stamp it may be as it was read or not.
DisableFactor(c) ==
  /\ Claimed(c, "disable")
  /\ \E code \in {None, account.recovery} :
       account' = [account EXCEPT !.stamp = c, !.recovery = code]
  /\ tokens' = NoTokens
  /\ UNCHANGED <<devices, removed>>
  /\ Close(c)

recoverTwoFactor(c) ==
  /\ Claimed(c, "recover")
  /\ account.recovery = change[c].recovery
  /\ account' = [account EXCEPT !.stamp = c, !.recovery = None]
  /\ tokens' = NoTokens
  /\ UNCHANGED <<devices, removed>>
  /\ Close(c)

deleteAllDevices(c) ==
  /\ Claimed(c, "devices")
  /\ account.stamp = change[c].stamp /\ ~account.deleted
  /\ account' = [account EXCEPT !.stamp = c]
  /\ tokens' = NoTokens
  /\ devices' = [d \in Devices |-> None]
  /\ removed' = removed \cup {d \in Devices : devices[d] # None}
  /\ Close(c)

\* Deviation: a ban is only a status.
BanUserStatusOnly(c) ==
  /\ Claimed(c, "ban")
  /\ account.status = "active" /\ ~account.deleted
  /\ account' = [account EXCEPT !.status = "banned"]
  /\ tokens' = NoTokens
  /\ UNCHANGED <<devices, removed>>
  /\ Close(c)

\* Banning replaces the stamp; lifting the ban leaves it.
BanUser(c) ==
  /\ Claimed(c, "ban")
  /\ account.status = "active" /\ ~account.deleted
  /\ account' = [account EXCEPT !.status = "banned", !.stamp = c]
  /\ tokens' = NoTokens
  /\ UNCHANGED <<devices, removed>>
  /\ Close(c)

UnbanUser(c) ==
  /\ Claimed(c, "unban")
  /\ account.status = "banned" /\ ~account.deleted
  /\ account' = [account EXCEPT !.status = "active"]
  /\ UNCHANGED <<tokens, devices, removed>>
  /\ Close(c)

\* The account is banned under a stamp of its own and its address released.
deleteAccountData(c) ==
  /\ Claimed(c, "delete")
  /\ ~account.deleted
  /\ account' = [account EXCEPT !.status = "banned", !.deleted = TRUE,
                                !.stamp = c]
  /\ tokens' = NoTokens
  /\ UNCHANGED <<devices, removed>>
  /\ Close(c)

\* What each batch's first statement compares no longer holds: nothing is
\* written.
LoseRace(c) ==
  /\ change[c].stage = "read"
  /\ LET seen == change[c]
     IN  CASE seen.kind = "password" -> account.password # seen.password
           [] seen.kind = "recover"  -> account.recovery # seen.recovery
           [] seen.kind \in {"factor", "disable"} ->
                                        account.stamp # seen.stamp
           [] seen.kind = "devices"  -> \/ account.stamp # seen.stamp
                                        \/ account.deleted
           [] seen.kind = "ban"      -> \/ account.status # "active"
                                        \/ account.deleted
           [] seen.kind = "unban"    -> \/ account.status # "banned"
                                        \/ account.deleted
           [] seen.kind = "delete"   -> account.deleted
  /\ UNCHANGED <<account, tokens, devices, removed>>
  /\ Close(c)

\* deleteDevice and deleteDevices: the rows read by the middleware or the
\* handler, and the batch that deletes those that are still the same.  A row
\* whose keys or trust changed meanwhile (its mutation token, not modelled)
\* is passed over, so any of the matching rows may be left.
StartRemoval(x) ==
  /\ removal[x].stage = "idle"
  /\ SignedIn
  /\ \E chosen \in SUBSET {d \in Devices : devices[d] # None} \ {{}} :
       removal' = [removal EXCEPT ![x] =
         [stage |-> "read",
          seen |-> [d \in Devices |->
                      IF d \in chosen THEN devices[d] ELSE None]]]
  /\ UNCHANGED <<account, devices, tokens, login, refresh, change, access,
                 removed>>

Matching(x) == {d \in Devices : /\ removal[x].seen[d] # None
                                /\ devices[d] = removal[x].seen[d]}

deleteDevices(x) ==
  /\ removal[x].stage = "read"
  /\ \E gone \in SUBSET Matching(x) :
       /\ tokens' = [k \in TokenIds |->
            IF tokens[k] # None /\ tokens[k].device \in gone
              THEN None ELSE tokens[k]]
       /\ devices' = [d \in Devices |->
            IF d \in gone THEN None ELSE devices[d]]
       /\ removed' = removed \cup gone
  /\ removal' = [removal EXCEPT ![x] = [NoRemoval EXCEPT !.stage = "done"]]
  /\ UNCHANGED <<account, login, refresh, change, access>>

-----------------------------------------------------------------------------
LoginStep(l) ==
  \/ \E d \in Devices \cup {None} : StartLogin(l, d)
  \/ SpendRecoveryCode(l)
  \/ RereadAccount(l)
  \/ prepareLoginDevice(l)
  \/ issueIdentitySession(l)
  \/ retryAfterDeviceConflict(l)

RefreshStep(r) ==
  ReadToken(r) \/ ReadUser(r) \/ ReadDevice(r) \/ Rotate(r)

ChangeStep(c) ==
  \/ \E kind \in Kinds : StartChange(c, kind)
  \/ changePassword(c)
  \/ ChangeSecondFactor(c)
  \/ DisableFactor(c)
  \/ recoverTwoFactor(c)
  \/ deleteAllDevices(c)
  \/ BanUser(c)
  \/ UnbanUser(c)
  \/ deleteAccountData(c)
  \/ LoseRace(c)

RemovalStep(x) == StartRemoval(x) \/ deleteDevices(x)

Next ==
  \/ \E l \in Logins : LoginStep(l)
  \/ \E r \in Refreshes : RefreshStep(r)
  \/ \E k \in TokenIds : revokeToken(k)
  \/ \E c \in Changes : ChangeStep(c)
  \/ \E x \in Removals : RemovalStep(x)

Spec == Init /\ [][Next]_vars

-----------------------------------------------------------------------------
(* Properties. *)

\* No refresh token outlives the security event that should end it: a stored
\* token belongs to an active account, its login was verified under the stamp
\* the account has now, and its device is registered under the token's stamp.
TokensAreCurrent ==
  \A k \in TokenIds : tokens[k] # None =>
    /\ account.status = "active" /\ ~account.deleted
    /\ tokens[k].stamp = account.stamp
    /\ DeviceEligible(tokens[k].device, tokens[k].dstamp)

\* However its rotations interleave, one login never has two live tokens.
OneTokenPerLogin ==
  \A j, k \in TokenIds :
    /\ tokens[j] # None
    /\ tokens[k] # None
    /\ tokens[j].family = tokens[k].family
    => j = k

\* A token buys one successor: of two refreshes that present it, however
\* they interleave, one at most is answered with new tokens.
RotatedOnce ==
  \A q, r \in Refreshes :
    /\ refresh[q].stage = "done"
    /\ refresh[r].stage = "done"
    /\ refresh[q].token = refresh[r].token
    => q = r

\* A live session proves the account's present master password, unless its
\* login presented the recovery code: that one reads the account again after
\* spending the code, and takes over the stamp of a change made in between.
SessionsProveThePassword ==
  \A k \in TokenIds :
    tokens[k] # None /\ tokens[k].family \notin Recoveries
      => tokens[k].password = account.password

\* Concurrent logins of one device do not defeat each other: a login is
\* refused only because the account's stamp moved on or because its device is
\* one that was deleted.
LoginsYieldOnlyToRevocation ==
  \A l \in Logins :
    /\ login[l].stage = "refused"
    /\ login[l].device \notin removed
    => login[l].stamp # account.stamp

\* An access token is accepted at the moment it is issued.
IssuedAccessIsAccepted ==
  [][\A a \in Claims : a \in access' \ access => Accepted(a)']_vars

\* Claims an account has stopped accepting are never accepted again, by a
\* lifted ban for one.
RevocationIsFinal ==
  [][\A a \in access : ~AccountAccepts(a) => ~AccountAccepts(a)']_vars

\* The same of the device a token names: claims refused because the device
\* was revoked stay refused.
DeviceRevocationIsFinal ==
  [][\A a \in access : ~Accepted(a) => ~Accepted(a)']_vars
=============================================================================
