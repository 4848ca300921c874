--------------------------- MODULE IdentityProofs ---------------------------
(***************************************************************************)
(* What is proved of Identity and its components, for any number of        *)
(* registrations, addresses, invites, sign-ins and prompts, and whatever   *)
(* the limits and windows are.                                             *)
(***************************************************************************)
EXTENDS Identity, FiniteSetTheorems, TLAPS

-----------------------------------------------------------------------------
(* Registration.  A commit takes each lock it needs if the lock is free and *)
(* is aborted otherwise, so that it is enough to know that an account's     *)
(* registration is over (AccountsAreDone) and that an invite whose code has *)
(* not been given out has admitted nobody (UnusedAdmitNobody).              *)

AccountsAreDone ==
  \A n \in Arrivals : users[n] # Absent => registration[n].stage = "done"

RequestsGiveAnAddress ==
  \A n \in Arrivals :
    registration[n].stage \in {"invite", "email", "commit"} => registration[n].email \in Emails

UnusedAdmitNobody ==
  \A i \in Invites : invites[i].status = "unused" => consumption[i] = Absent

\* LocksNameTheAdmitted, account by account and invite by invite.
EachLockNamesItsOwn ==
  /\ \A n \in Arrivals :
       (users[n] # Absent /\ users[n].role = "admin") <=> n = bootstrapLock
  /\ \A i \in Invites, n \in Arrivals :
       (users[n] # Absent /\ users[n].invite = i) <=> n = consumption[i]
  /\ \A i \in Invites :
       /\ consumption[i] # Absent => users[consumption[i]].email = invites[i].email
       /\ invites[i].status = "used" =>
            consumption[i] # Absent /\ invites[i].usedBy = consumption[i]

RegistrationInv ==
  /\ RegistrationTypeOK /\ AccountsAreDone /\ RequestsGiveAnAddress
  /\ UnusedAdmitNobody /\ EachLockNamesItsOwn

LEMMA AbsentIsNoOne ==
  /\ \A n \in Arrivals : n # Absent
  /\ \A i \in Invites : i # Absent
  /\ \A e \in Emails : e # Absent
  /\ \A row \in UserRow : row # Absent
BY RegistrationAssumption DEF Arrivals

LEMMA RegistrationInvInit == RegistrationInit => RegistrationInv
<1>. SUFFICES ASSUME RegistrationInit PROVE RegistrationInv
  OBVIOUS
<1>1. RegistrationTypeOK
  <2>1. AwaitedRegistration \in RegistrationRequest
    BY DEF AwaitedRegistration, RegistrationRequest, Policy
  <2>2. [status |-> "unused", email |-> Absent, lapsed |-> FALSE, usedBy |-> Absent] \in InviteRow
    BY DEF InviteRow
  <2>. QED  BY <2>1, <2>2 DEF RegistrationInit, RegistrationTypeOK
<1>2. AccountsAreDone /\ UnusedAdmitNobody /\ RequestsGiveAnAddress
  BY DEF RegistrationInit, AccountsAreDone, UnusedAdmitNobody, RequestsGiveAnAddress,
         AwaitedRegistration
<1>3. EachLockNamesItsOwn
  BY AbsentIsNoOne DEF RegistrationInit, EachLockNamesItsOwn
<1>. QED  BY <1>1, <1>2, <1>3 DEF RegistrationInv

LEMMA LocksFollow == RegistrationTypeOK /\ EachLockNamesItsOwn => LocksNameTheAdmitted
<1>. SUFFICES ASSUME RegistrationTypeOK, EachLockNamesItsOwn PROVE LocksNameTheAdmitted
  OBVIOUS
<1>1. {n \in Registered : users[n].role = "admin"} =
        (IF bootstrapLock = Absent THEN {} ELSE {bootstrapLock})
  BY AbsentIsNoOne DEF RegistrationTypeOK, EachLockNamesItsOwn, Registered
<1>2. ASSUME NEW i \in Invites
      PROVE  {n \in Registered : users[n].invite = i} =
               (IF consumption[i] = Absent THEN {} ELSE {consumption[i]})
  BY <1>2, AbsentIsNoOne DEF RegistrationTypeOK, EachLockNamesItsOwn, Registered
<1>. QED  BY <1>1, <1>2 DEF LocksNameTheAdmitted, EachLockNamesItsOwn

\* What is left of the others when a registration goes on or is answered.
LEMMA RegistrationGoesOn ==
  ASSUME RegistrationTypeOK, NEW n \in Arrivals, NEW x \in RegistrationRequest,
         registration' = [registration EXCEPT ![n] = x]
  PROVE  /\ registration' \in [Arrivals -> RegistrationRequest]
         /\ registration'[n] = x
         /\ \A m \in Arrivals : m # n => registration'[m] = registration[m]
BY DEF RegistrationTypeOK

LEMMA ConcludedIsARequest ==
  ASSUME NEW stage \in {"done", "refused"}
  PROVE  /\ [AwaitedRegistration EXCEPT !.stage = stage] \in RegistrationRequest
         /\ [AwaitedRegistration EXCEPT !.stage = stage].stage = stage
BY DEF AwaitedRegistration, RegistrationRequest, Policy

\* The reads change nothing but the registration, which had no account yet.
LEMMA ReadsKeepInv ==
  ASSUME RegistrationInv, NEW n \in Arrivals, NEW x \in RegistrationRequest,
         registration[n].stage # "done",
         x.stage \in {"invite", "email", "commit"} => x.email \in Emails,
         registration' = [registration EXCEPT ![n] = x],
         UNCHANGED <<users, bootstrapLock, consumption, policy, invites>>
  PROVE  RegistrationInv'
<1>1. /\ registration' \in [Arrivals -> RegistrationRequest]
      /\ registration'[n] = x
      /\ \A m \in Arrivals : m # n => registration'[m] = registration[m]
  BY RegistrationGoesOn DEF RegistrationInv
<1>2. RegistrationTypeOK'
  BY <1>1 DEF RegistrationInv, RegistrationTypeOK
<1>3. AccountsAreDone' /\ RequestsGiveAnAddress'
  BY <1>1 DEF RegistrationInv, AccountsAreDone, RequestsGiveAnAddress
<1>4. UnusedAdmitNobody' /\ EachLockNamesItsOwn'
  BY DEF RegistrationInv, UnusedAdmitNobody, EachLockNamesItsOwn
<1>. QED  BY <1>2, <1>3, <1>4 DEF RegistrationInv

\* The invites may change in these ways without admitting anybody.
LEMMA InvitesKeepInv ==
  ASSUME RegistrationInv, invites' \in [Invites -> InviteRow],
         \A i \in Invites :
           /\ invites'[i].status = "unused" => invites[i].status = "unused"
           /\ invites[i].status # "unused" => invites'[i].email = invites[i].email
           /\ invites'[i].status = "used" =>
                invites[i].status = "used" /\ invites'[i].usedBy = invites[i].usedBy,
         UNCHANGED <<users, bootstrapLock, consumption, policy, registration>>
  PROVE  RegistrationInv'
<1>1. RegistrationTypeOK' /\ AccountsAreDone' /\ RequestsGiveAnAddress'
  BY DEF RegistrationInv, RegistrationTypeOK, AccountsAreDone, RequestsGiveAnAddress
<1>2. UnusedAdmitNobody' /\ EachLockNamesItsOwn'
  BY DEF RegistrationInv, UnusedAdmitNobody, EachLockNamesItsOwn
<1>. QED  BY <1>1, <1>2 DEF RegistrationInv

\* The commit gives the account, the bootstrap lock and the invite's lock their
\* owner together.
LEMMA RegisterKeepsInv ==
  ASSUME RegistrationInv, NEW n \in Arrivals, registerAccount(n)
  PROVE  RegistrationInv'
<1> DEFINE reg == registration[n]
           row == [email |-> reg.email, deleted |-> FALSE,
                   role |-> IF reg.isBootstrap THEN "admin" ELSE "user",
                   invite |-> reg.invite]
<1>. USE DEF RegistrationInv
<1>1. reg \in RegistrationRequest /\ reg.stage = "commit"
  BY DEF RegistrationTypeOK, registerAccount
<1>2. users[n] = Absent
  BY <1>1 DEF AccountsAreDone
<1>3. users' = [users EXCEPT ![n] = row]
  BY DEF registerAccount
<1>4. row \in UserRow
  BY <1>1 DEF RequestsGiveAnAddress, RegistrationRequest, UserRow
<1>5. /\ \A m \in Arrivals : m # n => users'[m] = users[m]
      /\ users'[n] = row /\ row # Absent
      /\ users' \in [Arrivals -> UserRow \cup {Absent}]
  BY <1>3, <1>4, AbsentIsNoOne DEF RegistrationTypeOK
<1>6. /\ registration' \in [Arrivals -> RegistrationRequest]
      /\ registration'[n].stage = "done"
      /\ \A m \in Arrivals : m # n => registration'[m] = registration[m]
  BY ConcludedIsARequest, RegistrationGoesOn DEF registerAccount, Concluded
<1>7. bootstrapLock' \in Arrivals \cup {Absent} /\ policy' \in Policy
  BY DEF RegistrationTypeOK, registerAccount
<1>8. \/ /\ reg.invite = Absent
         /\ consumption' = consumption /\ invites' = invites
      \/ /\ reg.invite \in Invites
         /\ invites[reg.invite].status = "active"
         /\ invites[reg.invite].email = reg.email
         /\ consumption[reg.invite] = Absent
         /\ consumption' = [consumption EXCEPT ![reg.invite] = n]
         /\ invites' = [invites EXCEPT ![reg.invite].status = "used",
                                       ![reg.invite].usedBy = n]
  BY <1>1, AbsentIsNoOne
     DEF registerAccount, BatchCommits, InsertsUser, TakesInvite, RegistrationRequest
<1>9. \A i \in Invites :
        IF i = reg.invite
          THEN /\ consumption'[i] = n /\ consumption[i] = Absent
               /\ invites'[i].status = "used" /\ invites'[i].usedBy = n
               /\ invites'[i].email = reg.email
               /\ invites'[i] \in InviteRow
          ELSE consumption'[i] = consumption[i] /\ invites'[i] = invites[i]
  <2>1. CASE reg.invite = Absent
    BY <2>1, <1>8, AbsentIsNoOne
  <2>2. CASE reg.invite \in Invites
    <3>1. invites' = [invites EXCEPT ![reg.invite] =
            [invites[reg.invite] EXCEPT !.status = "used", !.usedBy = n]]
      BY <2>2, <1>8, AbsentIsNoOne DEF RegistrationTypeOK
    <3>2. [invites[reg.invite] EXCEPT !.status = "used", !.usedBy = n] \in InviteRow
      BY <2>2 DEF RegistrationTypeOK, InviteRow
    <3>3. invites'[reg.invite] = [invites[reg.invite] EXCEPT !.status = "used", !.usedBy = n]
      BY <2>2, <3>1 DEF RegistrationTypeOK
    <3>4. /\ invites'[reg.invite].status = "used" /\ invites'[reg.invite].usedBy = n
          /\ invites'[reg.invite].email = invites[reg.invite].email
      BY <2>2, <3>3 DEF RegistrationTypeOK, InviteRow
    <3>. QED  BY <2>2, <3>1, <3>2, <3>3, <3>4, <1>8, AbsentIsNoOne DEF RegistrationTypeOK
  <2>. QED  BY <2>1, <2>2, <1>8
<1>10. RegistrationTypeOK'
  <2>1. consumption' \in [Invites -> Arrivals \cup {Absent}]
    BY <1>8 DEF RegistrationTypeOK
  <2>2. invites' \in [Invites -> InviteRow]
    BY <1>8, <1>9 DEF RegistrationTypeOK
  <2>. QED  BY <2>1, <2>2, <1>5, <1>6, <1>7 DEF RegistrationTypeOK
<1>11. AccountsAreDone' /\ RequestsGiveAnAddress'
  BY <1>5, <1>6 DEF AccountsAreDone, RequestsGiveAnAddress
<1>12. UnusedAdmitNobody'
  BY <1>9 DEF UnusedAdmitNobody
<1>13. EachLockNamesItsOwn'
  <2>1. \A m \in Arrivals :
          (users'[m] # Absent /\ users'[m].role = "admin") <=> m = bootstrapLock'
    <3>1. row.role = "admin" <=> reg.isBootstrap
      OBVIOUS
    <3>2. IF reg.isBootstrap THEN bootstrapLock' = n /\ bootstrapLock = Absent
          ELSE bootstrapLock' = bootstrapLock
      BY DEF registerAccount, BatchCommits, TakesBootstrap
    <3>. QED  BY <3>1, <3>2, <1>2, <1>5, AbsentIsNoOne DEF EachLockNamesItsOwn
  <2>2. \A i \in Invites, m \in Arrivals :
          (users'[m] # Absent /\ users'[m].invite = i) <=> m = consumption'[i]
    BY <1>2, <1>5, <1>9, AbsentIsNoOne DEF EachLockNamesItsOwn
  <2>3. \A i \in Invites :
          /\ consumption'[i] # Absent => users'[consumption'[i]].email = invites'[i].email
          /\ invites'[i].status = "used" =>
               consumption'[i] # Absent /\ invites'[i].usedBy = consumption'[i]
    BY <1>2, <1>5, <1>9, AbsentIsNoOne DEF EachLockNamesItsOwn, RegistrationTypeOK
  <2>. QED  BY <2>1, <2>2, <2>3 DEF EachLockNamesItsOwn
<1>. QED  BY <1>10, <1>11, <1>12, <1>13

LEMMA RegistrationInvStep ==
  RegistrationInv /\ [RegistrationNext]_registrationVars => RegistrationInv'
<1>. SUFFICES ASSUME RegistrationInv, [RegistrationNext]_registrationVars
     PROVE  RegistrationInv'
  OBVIOUS
<1>1. ASSUME NEW n \in Arrivals, loadRegistrationState(n) PROVE RegistrationInv'
  <2>. PICK e \in Emails, secret \in BOOLEAN, i \in {Absent} \cup Invites :
         registration' = [registration EXCEPT ![n] =
           [stage |-> "invite", email |-> e, invite |-> i,
            secret |-> secret /\ Registered = {}, isBootstrap |-> Registered = {},
            policy |-> policy, inTime |-> TRUE]]
    BY <1>1 DEF loadRegistrationState
  <2> DEFINE x == [stage |-> "invite", email |-> e, invite |-> i,
                   secret |-> secret /\ Registered = {}, isBootstrap |-> Registered = {},
                   policy |-> policy, inTime |-> TRUE]
  <2>1. x \in RegistrationRequest /\ x.stage = "invite" /\ x.email \in Emails
    BY DEF RegistrationInv, RegistrationTypeOK, RegistrationRequest
  <2>2. registration' = [registration EXCEPT ![n] = x]
    OBVIOUS
  <2>. HIDE DEF x
  <2>. QED  BY <1>1, <2>1, <2>2, ReadsKeepInv DEF loadRegistrationState
<1>2. ASSUME NEW n \in Arrivals,
             readInvite(n) \/ readAddress(n) \/ registrationAborted(n)
      PROVE  RegistrationInv'
  <2>1. registration[n].stage \in {"invite", "email", "commit"}
    BY <1>2 DEF readInvite, readAddress, registrationAborted
  <2>2. PICK x \in RegistrationRequest :
          /\ registration' = [registration EXCEPT ![n] = x]
          /\ x.stage \in {"invite", "email", "commit"} => x.email \in Emails
    <3>1. CASE registration' = Concluded(n, "refused")
      BY <3>1, ConcludedIsARequest DEF Concluded
    <3>2. CASE registration' = [registration EXCEPT ![n].stage = "email"]
      <4>1. registration' = [registration EXCEPT ![n] = [registration[n] EXCEPT !.stage = "email"]]
        BY <3>2 DEF RegistrationInv, RegistrationTypeOK
      <4>2. /\ [registration[n] EXCEPT !.stage = "email"] \in RegistrationRequest
            /\ [registration[n] EXCEPT !.stage = "email"].email = registration[n].email
        BY DEF RegistrationInv, RegistrationTypeOK, RegistrationRequest
      <4>. QED  BY <2>1, <4>1, <4>2 DEF RegistrationInv, RequestsGiveAnAddress
    <3>3. CASE \E b \in BOOLEAN :
                 registration' = [registration EXCEPT ![n].stage = "commit", ![n].inTime = b]
      <4>. PICK b \in BOOLEAN :
             registration' = [registration EXCEPT ![n].stage = "commit", ![n].inTime = b]
        BY <3>3
      <4> DEFINE y == [registration[n] EXCEPT !.stage = "commit", !.inTime = b]
      <4>1. registration' = [registration EXCEPT ![n] = y]
        BY DEF RegistrationInv, RegistrationTypeOK
      <4>2. y \in RegistrationRequest /\ y.email = registration[n].email
        BY DEF RegistrationInv, RegistrationTypeOK, RegistrationRequest
      <4>. HIDE DEF y
      <4>. QED  BY <2>1, <4>1, <4>2 DEF RegistrationInv, RequestsGiveAnAddress
    <3>. QED  BY <1>2, <3>1, <3>2, <3>3 DEF readInvite, readAddress, registrationAborted
  <2>3. UNCHANGED <<users, bootstrapLock, consumption, policy, invites>>
    BY <1>2 DEF readInvite, readAddress, registrationAborted
  <2>. QED  BY <2>1, <2>2, <2>3, ReadsKeepInv
<1>3. ASSUME NEW n \in Arrivals, registerAccount(n) PROVE RegistrationInv'
  BY <1>3, RegisterKeepsInv
<1>4. ASSUME NEW n \in Arrivals, deleteAccountData(n) PROVE RegistrationInv'
  <2>. USE DEF RegistrationInv
  <2>1. users[n] \in UserRow /\ users[n] # Absent
    BY <1>4 DEF deleteAccountData, Registered, RegistrationTypeOK
  <2> DEFINE row == [users[n] EXCEPT !.deleted = TRUE]
  <2>2. /\ row \in UserRow /\ row.email = users[n].email /\ row.role = users[n].role
        /\ row.invite = users[n].invite
    BY <2>1 DEF UserRow
  <2>3. users' = [users EXCEPT ![n] = row]
    BY <1>4 DEF deleteAccountData, RegistrationTypeOK
  <2>. HIDE DEF row
  <2>4. /\ users' \in [Arrivals -> UserRow \cup {Absent}]
        /\ \A m \in Arrivals : (users'[m] = Absent <=> users[m] = Absent)
        /\ \A m \in Arrivals : users[m] # Absent =>
             /\ users'[m].email = users[m].email /\ users'[m].role = users[m].role
             /\ users'[m].invite = users[m].invite
    BY <2>1, <2>2, <2>3, AbsentIsNoOne DEF RegistrationTypeOK
  <2>5. UNCHANGED <<bootstrapLock, consumption, policy, invites, registration>>
    BY <1>4 DEF deleteAccountData
  <2>6. RegistrationTypeOK'
    BY <2>4, <2>5 DEF RegistrationTypeOK
  <2>7. AccountsAreDone' /\ RequestsGiveAnAddress' /\ UnusedAdmitNobody'
    BY <2>4, <2>5 DEF AccountsAreDone, RequestsGiveAnAddress, UnusedAdmitNobody
  <2>8. EachLockNamesItsOwn'
    BY <2>4, <2>5, AbsentIsNoOne DEF EachLockNamesItsOwn, RegistrationTypeOK
  <2>. QED  BY <2>6, <2>7, <2>8
<1>5. ASSUME NEW i \in Invites, createAdminInvite(i) PROVE RegistrationInv'
  <2>. PICK e \in Emails : invites' = [invites EXCEPT ![i] =
         [status |-> "active", email |-> e, lapsed |-> FALSE, usedBy |-> Absent]]
    BY <1>5 DEF createAdminInvite
  <2>1. [status |-> "active", email |-> e, lapsed |-> FALSE, usedBy |-> Absent] \in InviteRow
    BY DEF InviteRow
  <2>2. invites[i].status = "unused"
    BY <1>5 DEF createAdminInvite
  <2>. QED  BY <1>5, <2>1, <2>2, InvitesKeepInv
            DEF createAdminInvite, RegistrationInv, RegistrationTypeOK
<1>6. ASSUME NEW some \in SUBSET Invites, DropInvites(some),
             \A i \in some : invites[i].status # "unused",
             UNCHANGED <<users, bootstrapLock, consumption, policy, registration>>
      PROVE  RegistrationInv'
  <2>1. \A i \in Invites : invites'[i] = IF i \in some
          THEN [invites[i] EXCEPT !.status = "deleted"] ELSE invites[i]
    BY <1>6 DEF DropInvites
  <2>2. \A i \in Invites :
          /\ [invites[i] EXCEPT !.status = "deleted"] \in InviteRow
          /\ [invites[i] EXCEPT !.status = "deleted"].email = invites[i].email
          /\ [invites[i] EXCEPT !.status = "deleted"].status = "deleted"
    BY DEF RegistrationInv, RegistrationTypeOK, InviteRow
  <2>3. invites' \in [Invites -> InviteRow]
    BY <1>6, <2>2 DEF DropInvites, RegistrationInv, RegistrationTypeOK
  <2>. QED  BY <1>6, <2>1, <2>2, <2>3, InvitesKeepInv
<1>7. ASSUME NEW i \in Invites, deleteAdminInvite(i) PROVE RegistrationInv'
  BY <1>7, <1>6 DEF deleteAdminInvite, InTable
<1>8. ASSUME deleteAdminInvites PROVE RegistrationInv'
  <2>. PICK invalidOnly \in BOOLEAN :
         DropInvites({i \in Invites : InTable(i) /\ (invalidOnly => ~Redeemable(i))})
    BY <1>8 DEF deleteAdminInvites
  <2>. QED  BY <1>8, <1>6 DEF deleteAdminInvites, InTable
<1>9. ASSUME updateAdminRegistrationPolicy PROVE RegistrationInv'
  BY <1>9 DEF updateAdminRegistrationPolicy, RegistrationInv, RegistrationTypeOK,
              AccountsAreDone, RequestsGiveAnAddress, UnusedAdmitNobody, EachLockNamesItsOwn
<1>10. ASSUME NEW i \in Invites, Lapse(i) PROVE RegistrationInv'
  <2>1. invites' = [invites EXCEPT ![i] = [invites[i] EXCEPT !.lapsed = TRUE]]
    BY <1>10 DEF Lapse, RegistrationInv, RegistrationTypeOK
  <2>2. /\ [invites[i] EXCEPT !.lapsed = TRUE] \in InviteRow
        /\ [invites[i] EXCEPT !.lapsed = TRUE].status = invites[i].status
        /\ [invites[i] EXCEPT !.lapsed = TRUE].email = invites[i].email
        /\ [invites[i] EXCEPT !.lapsed = TRUE].usedBy = invites[i].usedBy
    BY DEF RegistrationInv, RegistrationTypeOK, InviteRow
  <2>. QED  BY <1>10, <2>1, <2>2, InvitesKeepInv DEF Lapse, RegistrationInv, RegistrationTypeOK
<1>11. ASSUME expireInvites PROVE RegistrationInv'
  <2>1. \A i \in Invites :
          /\ [invites[i] EXCEPT !.status = "expired"] \in InviteRow
          /\ [invites[i] EXCEPT !.status = "expired"].email = invites[i].email
          /\ [invites[i] EXCEPT !.status = "expired"].status = "expired"
    BY DEF RegistrationInv, RegistrationTypeOK, InviteRow
  <2>2. \A i \in Invites : invites'[i] =
          IF invites[i].status = "active" /\ invites[i].lapsed
            THEN [invites[i] EXCEPT !.status = "expired"] ELSE invites[i]
    BY <1>11 DEF expireInvites
  <2>3. invites' \in [Invites -> InviteRow]
    BY <1>11, <2>1 DEF expireInvites, RegistrationInv, RegistrationTypeOK
  <2>. QED  BY <1>11, <2>1, <2>2, <2>3, InvitesKeepInv DEF expireInvites
<1>12. CASE UNCHANGED registrationVars
  BY <1>12 DEF registrationVars, RegistrationInv, RegistrationTypeOK,
               AccountsAreDone, RequestsGiveAnAddress, UnusedAdmitNobody, EachLockNamesItsOwn
<1>. QED  BY <1>1, <1>2, <1>3, <1>4, <1>5, <1>7, <1>8, <1>9, <1>10, <1>11, <1>12
          DEF RegistrationNext

\* The accounts, the locks, the invites and the requests keep their shapes.
THEOREM RegistrationTypes == RegistrationSpec => []RegistrationTypeOK
<1>1. RegistrationInv => RegistrationTypeOK
  BY DEF RegistrationInv
<1>. QED  BY <1>1, RegistrationInvInit, RegistrationInvStep, PTL DEF RegistrationSpec

\* However many registrations find the deployment empty or an invite good, the
\* bootstrap admits one administrator, and an invite one account, for its own
\* address (registerAccount).
THEOREM LocksAdmitOne == RegistrationSpec => []LocksNameTheAdmitted
<1>1. RegistrationInv => LocksNameTheAdmitted
  BY LocksFollow DEF RegistrationInv
<1>. QED  BY <1>1, RegistrationInvInit, RegistrationInvStep, PTL DEF RegistrationSpec

\* No account is made with an invite that was deleted, used or closed after it
\* was read (registerAccount's INSERT ... SELECT).
THEOREM InvitesAreReadAgain == RegistrationSpec => RevokedInvitesAdmitNobody
<1>1. RegistrationInv /\ [RegistrationNext]_registrationVars =>
        [\A n \in Arrivals :
           users[n] = Absent /\ users'[n] # Absent /\ users'[n].invite # Absent
             => invites[users'[n].invite].status = "active"]_registrationVars
  <2>. SUFFICES ASSUME RegistrationInv, [RegistrationNext]_registrationVars,
                       NEW m \in Arrivals,
                       users[m] = Absent, users'[m] # Absent, users'[m].invite # Absent
       PROVE  invites[users'[m].invite].status = "active"
    OBVIOUS
  <2>1. \E n \in Arrivals : registerAccount(n)
    <3>1. ~UNCHANGED users
      OBVIOUS
    <3>2. ASSUME NEW n \in Arrivals, deleteAccountData(n) PROVE FALSE
      BY <3>2 DEF deleteAccountData, Registered, RegistrationInv, RegistrationTypeOK
    <3>. QED  BY <3>1, <3>2 DEF RegistrationNext, registrationVars, loadRegistrationState,
         readInvite, readAddress, registrationAborted, createAdminInvite, deleteAdminInvite,
         deleteAdminInvites, updateAdminRegistrationPolicy, Lapse, expireInvites
  <2>2. PICK n \in Arrivals : registerAccount(n)
    BY <2>1
  <2>3. /\ m = n /\ users'[n].invite = registration[n].invite
        /\ registration[n].invite # Absent => TakesInvite(n)
    BY <2>2 DEF registerAccount, BatchCommits, InsertsUser, RegistrationInv, RegistrationTypeOK
  <2>. QED  BY <2>3 DEF TakesInvite
<1>. QED  BY <1>1, RegistrationInvInit, RegistrationInvStep, PTL
          DEF RegistrationSpec, RevokedInvitesAdmitNobody

-----------------------------------------------------------------------------
(* Sign-in with another device, and the lockout.  A sign-in counts at most  *)
(* one failure, since it is answered with it (FailuresAreOver), and no      *)
(* prompt is used before it is made (AdmittedWereMade).                     *)

AdmittedWereMade == \A a \in admitted : prompts[a.prompt].row # "unmade"

FailuresAreOver ==
  /\ IsFiniteSet(failures)
  /\ \A f \in failures : signIns[f.by].stage = "answered" /\ f.at <= clock
  /\ attempts # Void => attempts.windowStart <= clock

DeviceApprovalInv ==
  /\ DeviceApprovalTypeOK /\ AdmittedWereMade /\ ApprovalsLetInOnce
  /\ FailuresAreOver /\ FailuresAreCounted

LEMMA VoidIsNothing ==
  /\ \A n \in Int : n # Void
  /\ TRUE # Void /\ FALSE # Void
  /\ \A row \in LoginAttemptRow : row # Void
BY DeviceApprovalAssumption

LEMMA DeviceApprovalInvInit == DeviceApprovalInit => DeviceApprovalInv
<1>. SUFFICES ASSUME DeviceApprovalInit PROVE DeviceApprovalInv
  OBVIOUS
<1>1. /\ Unstarted \in SignIn
      /\ 0 \in Times
  BY DeviceApprovalAssumption DEF Unstarted, SignIn, Times
<1>2. Unasked \in AuthRequestRow
  BY <1>1 DEF Unasked, AuthRequestRow
<1>3. DeviceApprovalTypeOK
  BY <1>1, <1>2, DeviceApprovalAssumption DEF DeviceApprovalInit, DeviceApprovalTypeOK
<1>4. FailuresAreOver
  BY FS_EmptySet DEF DeviceApprovalInit, FailuresAreOver
<1>. QED  BY <1>3, <1>4
          DEF DeviceApprovalInit, DeviceApprovalInv, AdmittedWereMade, ApprovalsLetInOnce,
              FailuresAreCounted

\* The parts of the invariant that the prompts and their uses make up, and
\* those about failures, change separately.
LEMMA PromptsStay ==
  ASSUME AdmittedWereMade, ApprovalsLetInOnce, admitted \subseteq [prompt : PromptIds, by : SignInIds],
         admitted' = admitted,
         \A p \in PromptIds : prompts[p].row # "unmade" /\ prompts[p].approved = TRUE =>
           /\ prompts'[p].row # "unmade" /\ prompts'[p].approved = TRUE
           /\ prompts'[p].token = prompts[p].token /\ prompts'[p].type = prompts[p].type
  PROVE  AdmittedWereMade' /\ ApprovalsLetInOnce'
BY DEF AdmittedWereMade, ApprovalsLetInOnce

LEMMA FailuresStay ==
  ASSUME DeviceApprovalInv, UNCHANGED <<attempts, failures>>, clock' \in Times, clock' >= clock,
         \A n \in SignInIds : signIns[n].stage = "answered" => signIns'[n].stage = "answered"
  PROVE  FailuresAreOver' /\ FailuresAreCounted'
<1>1. FailuresAreCounted'
  BY DEF DeviceApprovalInv, FailuresAreCounted
<1>2. FailuresAreOver'
  <2>1. \A f \in failures : f.at \in Int /\ f.by \in SignInIds
    BY DEF DeviceApprovalInv, DeviceApprovalTypeOK, Times
  <2>2. attempts # Void => attempts.windowStart \in Int
    BY DEF DeviceApprovalInv, DeviceApprovalTypeOK, LoginAttemptRow, Times
  <2>. QED  BY <2>1, <2>2 DEF DeviceApprovalInv, FailuresAreOver, DeviceApprovalTypeOK, Times
<1>. QED  BY <1>1, <1>2

LEMMA ClearedFailures ==
  ASSUME ClearFailures
  PROVE  /\ FailuresAreOver' /\ FailuresAreCounted'
         /\ attempts' \in LoginAttemptRow \cup {Void}
         /\ failures' \subseteq [at : Times, by : SignInIds]
BY FS_EmptySet DEF ClearFailures, FailuresAreOver, FailuresAreCounted

\* How a sign-in goes on.
LEMMA SignInGoesOn ==
  ASSUME DeviceApprovalTypeOK, NEW n \in SignInIds, NEW x \in SignIn,
         signIns' = [signIns EXCEPT ![n] = x]
  PROVE  /\ signIns' \in [SignInIds -> SignIn]
         /\ signIns'[n] = x
         /\ \A m \in SignInIds : m # n => signIns'[m] = signIns[m]
BY DEF DeviceApprovalTypeOK

LEMMA AnsweredIsASignIn ==
  /\ Unstarted \in SignIn
  /\ [Unstarted EXCEPT !.stage = "answered"] \in SignIn
  /\ [Unstarted EXCEPT !.stage = "answered"].stage = "answered"
<1>1. Unstarted \in SignIn
  BY DeviceApprovalAssumption DEF Unstarted, SignIn
<1>2. [Unstarted EXCEPT !.stage = "answered"] \in SignIn
  BY <1>1 DEF SignIn
<1>. QED  BY <1>1, <1>2 DEF SignIn

\* The upsert adds one failure to the row's window, or begins a new one with it.
LEMMA FailureIsCounted ==
  ASSUME DeviceApprovalInv, NEW n \in SignInIds, recordLoginFailure(n)
  PROVE  DeviceApprovalInv'
<1>. USE DEF DeviceApprovalInv
<1> DEFINE f == [at |-> clock, by |-> n]
           old == {g \in failures : g.at >= attempts.windowStart}
           new == {g \in failures' : g.at >= attempts'.windowStart}
           count == IF Running THEN attempts.count + 1 ELSE 1
           start == IF Running THEN attempts.windowStart ELSE clock
           locked == IF count >= FailureLimit THEN clock + LockoutTime ELSE Void
<1>1. /\ clock \in Nat /\ clock \in Times
      /\ \A g \in failures : g.at \in Int /\ g.by \in SignInIds
      /\ attempts # Void => attempts \in LoginAttemptRow /\ attempts.windowStart \in Nat
                            /\ attempts.count \in Nat /\ attempts.windowStart \in Times
  BY DEF DeviceApprovalTypeOK, Times, LoginAttemptRow
<1>2. /\ LockoutTime \in Nat \ {0} /\ FailureWindow \in Nat \ {0} /\ FailureLimit \in Nat \ {0}
  BY DeviceApprovalAssumption
<1>3. /\ attempts' = [count |-> count, windowStart |-> start, lockedUntil |-> locked,
                      updated |-> clock]
      /\ failures' = failures \cup {f}
      /\ f \notin failures
  BY DEF recordLoginFailure, FailuresAreOver
<1>4. Running => attempts # Void /\ clock < attempts.windowStart + FailureWindow
  BY <1>1, <1>2 DEF Running
<1>5. attempts' \in LoginAttemptRow /\ attempts' # Void
  <2>1. count \in Nat /\ start \in Times /\ locked \in Nat \cup {Void}
    BY <1>1, <1>2, <1>4
  <2>2. attempts' \in LoginAttemptRow
    BY <1>1, <1>3, <2>1 DEF LoginAttemptRow
  <2>. QED  BY <2>2, VoidIsNothing
<1>6. /\ signIns' \in [SignInIds -> SignIn]
      /\ signIns'[n].stage = "answered"
      /\ \A m \in SignInIds : m # n => signIns'[m] = signIns[m]
  BY SignInGoesOn, AnsweredIsASignIn DEF recordLoginFailure, Answered
<1>7. DeviceApprovalTypeOK'
  BY <1>1, <1>3, <1>5, <1>6 DEF DeviceApprovalTypeOK, recordLoginFailure
<1>8. AdmittedWereMade' /\ ApprovalsLetInOnce'
  BY DEF recordLoginFailure, AdmittedWereMade, ApprovalsLetInOnce
<1>9. FailuresAreOver'
  <2>1. IsFiniteSet(failures')
    BY <1>3, FS_AddElement DEF FailuresAreOver
  <2>2. \A g \in failures' : signIns'[g.by].stage = "answered" /\ g.at <= clock
    BY <1>1, <1>3, <1>6 DEF FailuresAreOver
  <2>3. clock' = clock
    BY DEF recordLoginFailure
  <2>4. start <= clock
    BY <1>1, <1>4 DEF FailuresAreOver
  <2>. QED  BY <1>3, <2>1, <2>2, <2>3, <2>4 DEF FailuresAreOver
<1>10. /\ Cardinality(new) = count
       /\ \A g \in new : g.at <= clock /\ g.at < start + FailureWindow
  <2>1. attempts'.windowStart = start
    BY <1>3
  <2>2. IsFiniteSet(old)
    BY FS_Subset DEF FailuresAreOver
  <2>3. CASE Running
    <3>1. new = old \cup {f} /\ f \notin old
      BY <1>1, <1>3, <1>4, <2>1, <2>3 DEF FailuresAreOver
    <3>2. Cardinality(new) = Cardinality(old) + 1
      BY <2>2, <3>1, FS_AddElement
    <3>3. Cardinality(old) = attempts.count /\ \A g \in old : g.at < attempts.windowStart + FailureWindow
      BY <1>4, <2>3 DEF FailuresAreCounted
    <3>. QED  BY <1>1, <1>3, <1>4, <2>3, <3>1, <3>2, <3>3 DEF FailuresAreOver
  <2>4. CASE ~Running
    <3>1. \A g \in failures : g.at < clock
      <4>1. CASE attempts = Void
        BY <4>1 DEF FailuresAreCounted
      <4>2. CASE attempts # Void
        <5>1. clock >= attempts.windowStart + FailureWindow
          BY <1>1, <1>2, <2>4, <4>2 DEF Running
        <5>2. \A g \in failures : g.at >= attempts.windowStart
                => g.at < attempts.windowStart + FailureWindow
          BY <4>2 DEF FailuresAreCounted
        <5>. QED  BY <1>1, <1>2, <4>2, <5>1, <5>2
      <4>. QED  BY <4>1, <4>2
    <3>2. new = {f}
      BY <1>1, <1>3, <2>1, <2>4, <3>1
    <3>3. Cardinality(new) = 1
      BY <3>2, FS_Singleton
    <3>. QED  BY <1>1, <1>2, <2>4, <3>2, <3>3
  <2>. QED  BY <2>3, <2>4
<1>11. FailuresAreCounted'
  <2>1. /\ attempts'.count = count /\ attempts'.windowStart = start
        /\ attempts'.lockedUntil = locked
    BY <1>3
  <2>2. count >= FailureLimit => \A g \in new : locked >= g.at + LockoutTime
    BY <1>1, <1>2, <1>3, <1>10
  <2>. QED  BY <1>5, <1>10, <2>1, <2>2 DEF FailuresAreCounted
<1>. QED  BY <1>7, <1>8, <1>9, <1>11

LEMMA DeviceApprovalInvStep ==
  DeviceApprovalInv /\ [DeviceApprovalNext]_deviceApprovalVars => DeviceApprovalInv'
<1>. SUFFICES ASSUME DeviceApprovalInv, [DeviceApprovalNext]_deviceApprovalVars
     PROVE  DeviceApprovalInv'
  OBVIOUS
<1>. USE DEF DeviceApprovalInv
<1>0. /\ clock \in Times /\ clock \in Nat /\ clock >= clock
      /\ admitted \subseteq [prompt : PromptIds, by : SignInIds]
  BY DEF DeviceApprovalTypeOK, Times
\* A step that changes one prompt, and no use of it.
<1>1. ASSUME NEW p \in PromptIds, NEW row \in AuthRequestRow,
             prompts' = [prompts EXCEPT ![p] = row],
             ~(prompts[p].row # "unmade" /\ prompts[p].approved = TRUE),
             UNCHANGED <<clock, stamp, attempts, signIns, admitted, failures>>
      PROVE  DeviceApprovalInv'
  <2>1. /\ prompts' \in [PromptIds -> AuthRequestRow]
        /\ \A q \in PromptIds : q # p => prompts'[q] = prompts[q]
    BY <1>1 DEF DeviceApprovalTypeOK
  <2>2. DeviceApprovalTypeOK'
    BY <1>1, <2>1 DEF DeviceApprovalTypeOK
  <2>3. AdmittedWereMade' /\ ApprovalsLetInOnce'
    BY <1>0, <1>1, <2>1, PromptsStay
  <2>4. FailuresAreOver' /\ FailuresAreCounted'
    BY <1>0, <1>1, FailuresStay
  <2>. QED  BY <2>2, <2>3, <2>4
<1>2. ASSUME NEW p \in PromptIds, createAuthRequest(p) PROVE DeviceApprovalInv'
  <2>. PICK terminal \in Terminals, type \in {0, 1} :
         prompts' = [prompts EXCEPT ![p] =
           [Unasked EXCEPT !.row = "made", !.terminal = terminal, !.type = type,
                           !.created = clock]]
    BY <1>2 DEF createAuthRequest
  <2> DEFINE row == [Unasked EXCEPT !.row = "made", !.terminal = terminal, !.type = type,
                                    !.created = clock]
  <2>1. row \in AuthRequestRow
    BY <1>0 DEF Unasked, AuthRequestRow
  <2>. HIDE DEF row
  <2>2. prompts' = [prompts EXCEPT ![p] = row]
    BY DEF row
  <2>. QED  BY <1>1, <1>2, <2>1, <2>2 DEF createAuthRequest
<1>3. ASSUME NEW p \in PromptIds, NEW approved \in BOOLEAN, approveAuthRequest(p, approved)
      PROVE  DeviceApprovalInv'
  <2> DEFINE row == [prompts[p] EXCEPT !.approved = approved]
  <2>1. row \in AuthRequestRow
    BY DEF DeviceApprovalTypeOK, AuthRequestRow
  <2>2. prompts' = [prompts EXCEPT ![p] = row]
    BY <1>3 DEF approveAuthRequest, DeviceApprovalTypeOK
  <2>3. prompts[p].approved # TRUE
    BY <1>3, VoidIsNothing DEF approveAuthRequest, Undecided
  <2>. HIDE DEF row
  <2>. QED  BY <1>1, <1>3, <2>1, <2>2, <2>3 DEF approveAuthRequest
\* A step that changes one sign-in that is not over.
<1>4. ASSUME NEW n \in SignInIds, NEW x \in SignIn, signIns[n].stage # "answered",
             signIns' = [signIns EXCEPT ![n] = x],
             UNCHANGED <<clock, stamp, prompts, attempts, admitted, failures>>
      PROVE  DeviceApprovalInv'
  <2>1. /\ signIns' \in [SignInIds -> SignIn]
        /\ \A m \in SignInIds : m # n => signIns'[m] = signIns[m]
    BY <1>4, SignInGoesOn
  <2>2. DeviceApprovalTypeOK'
    BY <1>4, <2>1 DEF DeviceApprovalTypeOK
  <2>3. AdmittedWereMade' /\ ApprovalsLetInOnce'
    BY <1>0, <1>4, PromptsStay
  <2>4. FailuresAreOver' /\ FailuresAreCounted'
    BY <1>0, <1>4, <2>1, FailuresStay
  <2>. QED  BY <2>2, <2>3, <2>4
<1>5. ASSUME NEW n \in SignInIds, readLock(n) PROVE DeviceApprovalInv'
  <2>1. CASE signIns' = Answered(n)
    BY <1>4, <1>5, <2>1, AnsweredIsASignIn DEF Answered, readLock
  <2>2. CASE \E right \in BOOLEAN, p \in PromptIds \cup {Void} :
               signIns' = [signIns EXCEPT ![n] =
                 [Unstarted EXCEPT !.stage = "account", !.prompt = p, !.right = right]]
    <3>. PICK right \in BOOLEAN, p \in PromptIds \cup {Void} :
           signIns' = [signIns EXCEPT ![n] =
             [Unstarted EXCEPT !.stage = "account", !.prompt = p, !.right = right]]
      BY <2>2
    <3> DEFINE x == [Unstarted EXCEPT !.stage = "account", !.prompt = p, !.right = right]
    <3>1. x \in SignIn
      BY AnsweredIsASignIn DEF SignIn
    <3>. HIDE DEF x
    <3>2. signIns' = [signIns EXCEPT ![n] = x]
      BY DEF x
    <3>. QED  BY <1>4, <1>5, <3>1, <3>2 DEF readLock
  <2>. QED  BY <1>5, <2>1, <2>2 DEF readLock
<1>6. ASSUME NEW n \in SignInIds, readUser(n) PROVE DeviceApprovalInv'
  <2> DEFINE x == [signIns[n] EXCEPT !.stage = "proof", !.seen = stamp]
  <2>1. x \in SignIn
    BY DEF DeviceApprovalTypeOK, SignIn
  <2>2. signIns' = [signIns EXCEPT ![n] = x]
    BY <1>6 DEF readUser, DeviceApprovalTypeOK
  <2>. HIDE DEF x
  <2>. QED  BY <1>4, <1>6, <2>1, <2>2 DEF readUser
<1>7. ASSUME NEW n \in SignInIds, verifyProof(n) PROVE DeviceApprovalInv'
  <2>. PICK stage \in {"session", "failed"} : signIns' = Moves(n, stage)
    BY <1>7 DEF verifyProof
  <2> DEFINE x == [signIns[n] EXCEPT !.stage = stage]
  <2>1. x \in SignIn
    BY DEF DeviceApprovalTypeOK, SignIn
  <2>2. signIns' = [signIns EXCEPT ![n] = x]
    BY DEF Moves, DeviceApprovalTypeOK
  <2>. HIDE DEF x
  <2>. QED  BY <1>4, <1>7, <2>1, <2>2 DEF verifyProof
<1>8. ASSUME NEW n \in SignInIds, recordLoginFailure(n) PROVE DeviceApprovalInv'
  BY <1>8, FailureIsCounted
<1>9. ASSUME NEW n \in SignInIds, issueSession(n) PROVE DeviceApprovalInv'
  <2> DEFINE p == signIns[n].prompt
  <2>1. /\ signIns' \in [SignInIds -> SignIn]
        /\ signIns'[n].stage = "answered"
        /\ \A m \in SignInIds : m # n => signIns'[m] = signIns[m]
    BY <1>9, SignInGoesOn, AnsweredIsASignIn DEF issueSession, Answered
  <2>2. UNCHANGED <<clock, stamp>>
    BY <1>9 DEF issueSession
  <2>3. /\ FailuresAreOver' /\ FailuresAreCounted'
        /\ attempts' \in LoginAttemptRow \cup {Void}
        /\ failures' \subseteq [at : Times, by : SignInIds]
    <3>1. CASE ClearFailures
      BY <3>1, ClearedFailures
    <3>2. CASE UNCHANGED <<attempts, failures>>
      BY <1>0, <2>1, <2>2, <3>2, FailuresStay DEF DeviceApprovalTypeOK
    <3>. QED  BY <1>9, <3>1, <3>2 DEF issueSession
  <2>4. /\ prompts' \in [PromptIds -> AuthRequestRow]
        /\ admitted' \subseteq [prompt : PromptIds, by : SignInIds]
        /\ AdmittedWereMade' /\ ApprovalsLetInOnce'
    <3>1. CASE UNCHANGED <<prompts, admitted>>
      BY <1>0, <3>1, PromptsStay DEF DeviceApprovalTypeOK
    <3>2. CASE /\ p # Void /\ Claimable(p)
               /\ prompts' = [prompts EXCEPT ![p].token = n]
               /\ admitted' = admitted \cup {[prompt |-> p, by |-> n]}
      <4>1. p \in PromptIds
        BY <3>2 DEF DeviceApprovalTypeOK, SignIn
      <4> DEFINE row == [prompts[p] EXCEPT !.token = n]
      <4>2. prompts' = [prompts EXCEPT ![p] = row]
        BY <3>2, <4>1 DEF DeviceApprovalTypeOK
      <4>3. /\ row \in AuthRequestRow /\ row.token = n /\ row.row = prompts[p].row
            /\ row.type = prompts[p].type /\ row.approved = prompts[p].approved
        BY <4>1 DEF DeviceApprovalTypeOK, AuthRequestRow
      <4>. HIDE DEF row
      <4>4. /\ prompts' \in [PromptIds -> AuthRequestRow]
            /\ prompts'[p] = row
            /\ \A q \in PromptIds : q # p => prompts'[q] = prompts[q]
        BY <4>1, <4>2, <4>3 DEF DeviceApprovalTypeOK
      <4>5. /\ prompts[p].row = "made" /\ prompts[p].type = 0 /\ prompts[p].approved = TRUE
            /\ prompts[p].token = Void
        BY <3>2 DEF Claimable, Approved
      <4>6. \A a \in admitted : a.prompt # p
        <5>1. \A a \in admitted : a.by \in SignInIds /\ prompts[a.prompt].token = a.by
          BY <1>0 DEF ApprovalsLetInOnce
        <5>. QED  BY <4>5, <5>1, VoidIsNothing DEF SignInIds
      <4>7. \A a \in admitted' : a = [prompt |-> p, by |-> n] \/ a \in admitted
        BY <3>2
      <4>8. admitted' \subseteq [prompt : PromptIds, by : SignInIds]
        BY <1>0, <3>2, <4>1
      <4>9. AdmittedWereMade'
        BY <1>0, <4>3, <4>4, <4>5, <4>6, <4>7 DEF AdmittedWereMade
      <4>10. ApprovalsLetInOnce'
        BY <1>0, <4>3, <4>4, <4>5, <4>6, <4>7 DEF ApprovalsLetInOnce
      <4>. QED  BY <4>4, <4>8, <4>9, <4>10
    <3>. QED  BY <1>9, <3>1, <3>2 DEF issueSession
  <2>5. DeviceApprovalTypeOK'
    BY <2>1, <2>2, <2>3, <2>4 DEF DeviceApprovalTypeOK
  <2>. QED  BY <2>3, <2>4, <2>5
<1>10. ASSUME RenewStamp \/ Tick PROVE DeviceApprovalInv'
  <2>1. /\ UNCHANGED <<prompts, attempts, signIns, admitted, failures>>
        /\ clock' \in Times /\ clock' >= clock /\ stamp' \in 0..MaxStamps
    BY <1>10, DeviceApprovalAssumption DEF RenewStamp, Tick, DeviceApprovalTypeOK, Times
  <2>2. DeviceApprovalTypeOK'
    BY <2>1 DEF DeviceApprovalTypeOK
  <2>3. AdmittedWereMade' /\ ApprovalsLetInOnce'
    BY <1>0, <2>1, PromptsStay
  <2>4. FailuresAreOver' /\ FailuresAreCounted'
    BY <2>1, FailuresStay
  <2>. QED  BY <2>2, <2>3, <2>4
<1>11. ASSUME cleanUp PROVE DeviceApprovalInv'
  <2>1. UNCHANGED <<clock, stamp, signIns, admitted>>
    BY <1>11 DEF cleanUp
  <2>2. \A p \in PromptIds :
          /\ [prompts[p] EXCEPT !.row = "deleted"] \in AuthRequestRow
          /\ [prompts[p] EXCEPT !.row = "deleted"].row = "deleted"
          /\ [prompts[p] EXCEPT !.row = "deleted"].approved = prompts[p].approved
          /\ [prompts[p] EXCEPT !.row = "deleted"].token = prompts[p].token
          /\ [prompts[p] EXCEPT !.row = "deleted"].type = prompts[p].type
    BY DEF DeviceApprovalTypeOK, AuthRequestRow
  <2>3. \A p \in PromptIds : prompts'[p] =
          IF prompts[p].row = "made" /\ ~InTime(p)
            THEN [prompts[p] EXCEPT !.row = "deleted"] ELSE prompts[p]
    BY <1>11 DEF cleanUp
  <2>4. prompts' \in [PromptIds -> AuthRequestRow]
    BY <1>11, <2>2 DEF cleanUp, DeviceApprovalTypeOK
  <2>5. AdmittedWereMade' /\ ApprovalsLetInOnce'
    BY <1>0, <2>1, <2>2, <2>3, PromptsStay
  <2>6. /\ FailuresAreOver' /\ FailuresAreCounted'
        /\ attempts' \in LoginAttemptRow \cup {Void}
        /\ failures' \subseteq [at : Times, by : SignInIds]
    <3>1. CASE ClearFailures
      BY <3>1, ClearedFailures
    <3>2. CASE UNCHANGED <<attempts, failures>>
      BY <1>0, <2>1, <3>2, FailuresStay DEF DeviceApprovalTypeOK
    <3>. QED  BY <1>11, <3>1, <3>2 DEF cleanUp
  <2>7. DeviceApprovalTypeOK'
    BY <2>1, <2>4, <2>6 DEF DeviceApprovalTypeOK
  <2>. QED  BY <2>5, <2>6, <2>7
<1>12. CASE UNCHANGED deviceApprovalVars
  BY <1>12 DEF deviceApprovalVars, DeviceApprovalTypeOK, AdmittedWereMade, ApprovalsLetInOnce,
               FailuresAreOver, FailuresAreCounted
<1>. QED  BY <1>2, <1>3, <1>5, <1>6, <1>7, <1>8, <1>9, <1>10, <1>11, <1>12
          DEF DeviceApprovalNext

\* The prompts, the failures' row and the sign-ins keep their shapes.
THEOREM DeviceApprovalTypes == DeviceApprovalSpec => []DeviceApprovalTypeOK
<1>1. DeviceApprovalInv => DeviceApprovalTypeOK
  BY DEF DeviceApprovalInv
<1>. QED  BY <1>1, DeviceApprovalInvInit, DeviceApprovalInvStep, PTL DEF DeviceApprovalSpec

\* A prompt lets at most one sign-in in, one made to sign in and approved
\* (authRequestConsumptionClaimQuery).
THEOREM OnePromptOneSession == DeviceApprovalSpec => []ApprovalsLetInOnce
<1>1. DeviceApprovalInv => ApprovalsLetInOnce
  BY DEF DeviceApprovalInv
<1>. QED  BY <1>1, DeviceApprovalInvInit, DeviceApprovalInvStep, PTL DEF DeviceApprovalSpec

\* Whatever the limit and the window are, the account's row counts every failure
\* of its window and none else, and the lock lasts the full time after the
\* failure that reached the limit (recordLoginFailure).
THEOREM EveryFailureCounts == DeviceApprovalSpec => []FailuresAreCounted
<1>1. DeviceApprovalInv => FailuresAreCounted
  BY DEF DeviceApprovalInv
<1>. QED  BY <1>1, DeviceApprovalInvInit, DeviceApprovalInvStep, PTL DEF DeviceApprovalSpec

-----------------------------------------------------------------------------
(* The second factors.  Every change of them renews the stamp with a number *)
(* nobody has seen (NumbersAreFresh), so that a request that has read the   *)
(* stamp there is has read the account there is (Known), and a sign-in's    *)
(* proof, checked since, still stands when its session is inserted under    *)
(* that stamp.                                                              *)

\* A session that stands on this proof may be kept.
Stands(proof) ==
  \/ proof \in SecondFactors
  \/ proof \in {"passkey"} \X KeysFor("login")
  \/ proof = <<"none">> /\ SecondFactors = {}
  \/ proof = <<"recovery">>

\* What a request has read and shown, and what it may still rely on.
Known(x) ==
  /\ x.provider = "passkey" \/ x.kind = "passkey" =>
       x.key \in Keys /\ x.challenge \in Challenges
  /\ x.stage \in {"credential", "owner", "claim"} =>
       x.provider = "passkey" \/ x.kind = "passkey"
  /\ x.kind \in {"createPasskey", "deletePasskey"} => x.key \in Keys
  /\ x.kind = "createPasskey" => x.challenge \in Challenges
  /\ x.stage \in {"owner", "claim"} => x.counter >= x.found
  /\ \/ x.seen # Nil
     \/ x.stage \in {"waiting", "answered"}
     \/ x.kind = "passkey" /\ x.stage \in {"credential", "owner"}

Current(x) ==
  x.seen # Nil /\ x.seen.stamp = account.stamp =>
    /\ x.seen = account
    /\ x.stage = "session" => Stands(x.proof)
    /\ x.stage = "commit" /\ x.kind = "deletePasskey" /\ x.purpose = "twoFactor" =>
         \E k \in KeysFor("twoFactor") : k # x.key

\* A request that may still commit.
Pending(x) == x.stage \notin {"reread", "session", "answered"}

NumbersAreFresh ==
  \A n \in Exchanges : Pending(exchange[n]) =>
    /\ account.stamp # n /\ account.recovery # n
    /\ \A m \in Exchanges : exchange[m].seen # Nil => exchange[m].seen.stamp # n
    /\ \A s \in spent : s.what = "recovery" => s.id # n

SpentForGood ==
  \A s \in spent :
    /\ s.what = "challenge" => s.id \in Challenges /\ challenges[s.id].state = "closed"
    /\ s.what = "recovery" => s.id # account.recovery

TwoFactorInv ==
  /\ TwoFactorTypeOK
  /\ \A n \in Exchanges : Known(exchange[n]) /\ Current(exchange[n])
  /\ NumbersAreFresh /\ SpentForGood
  /\ SessionsProveAFactor /\ ProofsAreSpentOnce

LEMMA NilIsNothing ==
  /\ \A n \in Nat : n # Nil
  /\ \A k \in Keys : k # Nil
  /\ \A row \in AccountRow : row # Nil
  /\ \A row \in PasskeyRow : row # Nil
BY TwoFactorAssumption

LEMMA ExchangesAreNumbers ==
  /\ Exchanges \subseteq Stamps /\ Stamps \subseteq Nat
  /\ 0 \in Stamps /\ 0 \notin Exchanges
BY TwoFactorAssumption DEF Exchanges, Stamps

LEMMA WaitingIsAnExchange ==
  /\ Waiting \in ExchangeRow
  /\ [Waiting EXCEPT !.stage = "answered"] \in ExchangeRow
  /\ Waiting.stage = "waiting" /\ Waiting.seen = Nil
BY TwoFactorAssumption DEF Waiting, ExchangeRow, Purposes, Proofs

LEMMA TwoFactorInvInit == TwoFactorInit => TwoFactorInv
<1>. SUFFICES ASSUME TwoFactorInit PROVE TwoFactorInv
  OBVIOUS
<1>1. TwoFactorTypeOK
  <2>1. account \in AccountRow
    BY ExchangesAreNumbers DEF TwoFactorInit, AccountRow
  <2>2. passkeys \in [Keys -> PasskeyRow \cup {Nil}]
    BY ExchangesAreNumbers, TwoFactorAssumption DEF TwoFactorInit, PasskeyRow
  <2>3. challenges \in [Challenges -> ChallengeRow]
    BY DEF TwoFactorInit, ChallengeRow, Purposes
  <2>. QED  BY <2>1, <2>2, <2>3, ExchangesAreNumbers, WaitingIsAnExchange
            DEF TwoFactorInit, TwoFactorTypeOK
<1>2. \A n \in Exchanges : Known(exchange[n]) /\ Current(exchange[n])
  BY DEF TwoFactorInit, Known, Current, Waiting
<1>3. NumbersAreFresh
  <2>1. account.stamp = 0 /\ account.recovery \in {0, Nil}
    BY DEF TwoFactorInit
  <2>2. \A n \in Exchanges : n # 0 /\ n # Nil
    BY ExchangesAreNumbers, NilIsNothing
  <2>. QED  BY <2>1, <2>2, WaitingIsAnExchange DEF TwoFactorInit, NumbersAreFresh
<1>4. SpentForGood /\ SessionsProveAFactor /\ ProofsAreSpentOnce
  BY DEF TwoFactorInit, SpentForGood, SessionsProveAFactor, ProofsAreSpentOnce
<1>. QED  BY <1>1, <1>2, <1>3, <1>4 DEF TwoFactorInv

LEMMA ExchangeGoesOn ==
  ASSUME TwoFactorTypeOK, NEW n \in Exchanges, NEW x \in ExchangeRow,
         exchange' = Ask(n, x)
  PROVE  /\ exchange' \in [Exchanges -> ExchangeRow] /\ exchange'[n] = x
         /\ \A m \in Exchanges : m # n => exchange'[m] = exchange[m]
BY DEF TwoFactorTypeOK, Ask

\* While the factors stay, what a request relies on does.
LEMMA FactorsStay ==
  ASSUME UNCHANGED account, NEW x,
         \A k \in Keys : /\ passkeys'[k] = Nil <=> passkeys[k] = Nil
                         /\ passkeys[k] # Nil => passkeys'[k].purpose = passkeys[k].purpose
  PROVE  /\ \A purpose : KeysFor(purpose)' = KeysFor(purpose)
         /\ SecondFactors' = SecondFactors
         /\ \A proof : Stands(proof)' <=> Stands(proof)
         /\ Current(x)' <=> Current(x)
<1>1. \A purpose : KeysFor(purpose)' = KeysFor(purpose)
  BY DEF KeysFor
<1>2. SecondFactors' = SecondFactors
  BY <1>1 DEF SecondFactors
<1>3. \A proof : Stands(proof)' <=> Stands(proof)
  BY <1>1, <1>2 DEF Stands
<1>4. Current(x)' <=> Current(x)
  BY <1>1, <1>3 DEF Current
<1>. QED  BY <1>1, <1>2, <1>3, <1>4

\* A step of a request that changes no row.
LEMMA RequestKeepsInv ==
  ASSUME TwoFactorInv, NEW n \in Exchanges, NEW x \in ExchangeRow, exchange' = Ask(n, x),
         UNCHANGED <<account, passkeys, challenges, sessions, issued, spent>>,
         Known(x), Current(x), Pending(x) => Pending(exchange[n]),
         x.seen \in {exchange[n].seen, account, Nil}
  PROVE  TwoFactorInv'
<1>. USE DEF TwoFactorInv
<1>1. /\ exchange' \in [Exchanges -> ExchangeRow] /\ exchange'[n] = x
      /\ \A m \in Exchanges : m # n => exchange'[m] = exchange[m]
  BY ExchangeGoesOn
<1>2. TwoFactorTypeOK'
  BY <1>1 DEF TwoFactorTypeOK
<1>3. /\ \A y : Current(y)' <=> Current(y)
      /\ \A proof : Stands(proof)' <=> Stands(proof)
  BY FactorsStay
<1>4. ASSUME NEW m \in Exchanges PROVE (Known(exchange[m]) /\ Current(exchange[m]))'
  <2>. PICK y : y = exchange'[m]
    OBVIOUS
  <2>1. Known(y) /\ Current(y)
    BY <1>1
  <2>2. Current(y)'
    BY <1>3, <2>1
  <2>. QED  BY <2>1, <2>2 DEF Known, Current, Stands
<1>5. NumbersAreFresh'
  BY <1>1 DEF NumbersAreFresh, Pending
<1>6. SpentForGood' /\ ProofsAreSpentOnce'
  BY DEF SpentForGood, ProofsAreSpentOnce
<1>7. SessionsProveAFactor'
  BY <1>3 DEF SessionsProveAFactor, Stands
<1>. QED  BY <1>2, <1>4, <1>5, <1>6, <1>7

\* A challenge is made, or lapses.
LEMMA ChallengesKeepInv ==
  ASSUME TwoFactorInv, NEW h \in Challenges,
         saveAccountPasskeyChallenge(h) \/ LapseChallenge(h)
  PROVE  TwoFactorInv'
<1>. USE DEF TwoFactorInv
<1>1. UNCHANGED <<account, passkeys, sessions, issued, exchange, spent>>
  BY DEF saveAccountPasskeyChallenge, LapseChallenge
<1>2. /\ challenges' \in [Challenges -> ChallengeRow]
      /\ \A g \in Challenges : challenges[g].state = "closed" => challenges'[g].state = "closed"
  BY DEF saveAccountPasskeyChallenge, LapseChallenge, TwoFactorTypeOK, ChallengeRow, Purposes
<1>3. TwoFactorTypeOK'
  BY <1>1, <1>2 DEF TwoFactorTypeOK
<1>4. (\A n \in Exchanges : Known(exchange[n]) /\ Current(exchange[n]))'
  BY <1>1 DEF Known, Current, Stands, SecondFactors, KeysFor
<1>5. NumbersAreFresh'
  BY <1>1 DEF NumbersAreFresh, Pending
<1>6. SpentForGood'
  BY <1>1, <1>2 DEF SpentForGood
<1>7. SessionsProveAFactor' /\ ProofsAreSpentOnce'
  BY <1>1 DEF SessionsProveAFactor, ProofsAreSpentOnce, SecondFactors, KeysFor
<1>. QED  BY <1>3, <1>4, <1>5, <1>6, <1>7

LEMMA EndsKeepsInv ==
  ASSUME TwoFactorInv, NEW n \in Exchanges, Ends(n)
  PROVE  TwoFactorInv'
<1> DEFINE x == [Waiting EXCEPT !.stage = "answered"]
<1>1. x \in ExchangeRow /\ x.stage = "answered" /\ x.seen = Nil /\ x.kind = "none"
      /\ x.provider = "none"
  BY WaitingIsAnExchange DEF Waiting
<1>2. exchange' = Ask(n, x)
  BY DEF Ends, Answer, Ask
<1>. HIDE DEF x
<1>3. Known(x) /\ Current(x) /\ ~Pending(x)
  BY <1>1 DEF Known, Current, Pending
<1>. QED  BY <1>1, <1>2, <1>3, RequestKeepsInv DEF Ends

LEMMA ClaimKeepsInv ==
  ASSUME TwoFactorInv, NEW n \in Exchanges, claimVerifiedPasskeyAssertion(n)
  PROVE  TwoFactorInv'
<1>. USE DEF TwoFactorInv
<1> DEFINE x == exchange[n]
           k == exchange[n].key
           h == exchange[n].challenge
           y == [exchange[n] EXCEPT !.stage = "session", !.proof = <<"passkey", k>>]
<1>1. CASE Ends(n)
  BY <1>1, EndsKeepsInv
<1>2. CASE ~Ends(n)
  <2>1. /\ x \in ExchangeRow /\ Known(x) /\ Current(x) /\ x.stage = "claim"
    BY DEF TwoFactorTypeOK, claimVerifiedPasskeyAssertion
  <2>2. k \in Keys /\ h \in Challenges /\ x.seen # Nil
    BY <2>1 DEF Known
  <2>3. /\ passkeys[k] # Nil /\ challenges[h].state = "open"
        /\ passkeys' = [passkeys EXCEPT ![k].counter = x.counter, ![k].token = n]
        /\ challenges' = [challenges EXCEPT ![h].state = "closed"]
        /\ spent' = spent \cup {[what |-> "challenge", id |-> h, by |-> n]}
        /\ exchange' = Ask(n, y)
        /\ UNCHANGED <<account, sessions, issued>>
    BY <1>2 DEF claimVerifiedPasskeyAssertion, ChallengeHolds, CounterHolds, Open
  <2>4. <<"passkey", k>> \in Proofs
    BY <2>2 DEF Proofs
  <2>5. /\ y \in ExchangeRow /\ y.stage = "session" /\ y.proof = <<"passkey", k>>
        /\ y.seen = x.seen /\ y.provider = x.provider /\ y.kind = x.kind /\ y.key = x.key
        /\ y.challenge = x.challenge
    BY <2>1, <2>4 DEF ExchangeRow
  <2>. HIDE DEF y
  <2>6. /\ exchange' \in [Exchanges -> ExchangeRow] /\ exchange'[n] = y
        /\ \A m \in Exchanges : m # n => exchange'[m] = exchange[m]
    BY <2>3, <2>5, ExchangeGoesOn
  <2>7. /\ passkeys' \in [Keys -> PasskeyRow \cup {Nil}]
        /\ \A j \in Keys : /\ passkeys'[j] = Nil <=> passkeys[j] = Nil
                           /\ passkeys[j] # Nil => passkeys'[j].purpose = passkeys[j].purpose
    <3> DEFINE row == [passkeys[k] EXCEPT !.counter = x.counter, !.token = n]
    <3>1. passkeys[k] \in PasskeyRow /\ x.counter \in 0..MaxCounter /\ n \in Stamps
      BY <2>1, <2>2, <2>3, ExchangesAreNumbers DEF TwoFactorTypeOK, ExchangeRow
    <3>2. row \in PasskeyRow /\ row.purpose = passkeys[k].purpose
      BY <3>1 DEF PasskeyRow
    <3>3. passkeys' = [passkeys EXCEPT ![k] = row]
      BY <2>2, <2>3 DEF TwoFactorTypeOK
    <3>. HIDE DEF row
    <3>4. row # Nil
      BY <3>2, NilIsNothing
    <3>. QED  BY <2>2, <2>3, <3>2, <3>3, <3>4 DEF TwoFactorTypeOK
  <2>8. /\ challenges' \in [Challenges -> ChallengeRow] /\ challenges'[h].state = "closed"
        /\ \A g \in Challenges : g # h => challenges'[g] = challenges[g]
    BY <2>2, <2>3 DEF TwoFactorTypeOK, ChallengeRow
  <2>9. TwoFactorTypeOK'
    BY <2>2, <2>3, <2>6, <2>7, <2>8 DEF TwoFactorTypeOK
  <2>10. /\ \A z : Current(z)' <=> Current(z)
         /\ \A proof : Stands(proof)' <=> Stands(proof)
    BY <2>3, <2>7, FactorsStay
  <2>11. k \in KeysFor("login") \/ k \in KeysFor("twoFactor")
    BY <2>2, <2>3 DEF KeysFor, TwoFactorTypeOK, PasskeyRow, Purposes
  <2>12. Stands(<<"passkey", k>>)
    BY <2>11 DEF Stands, SecondFactors
  <2>13. Known(y) /\ Current(y)
    BY <2>1, <2>5, <2>12 DEF Known, Current
  <2>14. ASSUME NEW m \in Exchanges PROVE (Known(exchange[m]) /\ Current(exchange[m]))'
    <3>. PICK z : z = exchange'[m]
      OBVIOUS
    <3>1. Known(z) /\ Current(z)
      BY <2>6, <2>13
    <3>2. Current(z)'
      BY <2>10, <3>1
    <3>. QED  BY <3>1, <3>2 DEF Known, Current, Stands
  <2>15. NumbersAreFresh'
    BY <2>3, <2>5, <2>6 DEF NumbersAreFresh, Pending
  <2>16. SpentForGood'
    BY <2>2, <2>3, <2>8 DEF SpentForGood
  <2>17. ProofsAreSpentOnce'
    BY <2>3 DEF SpentForGood, ProofsAreSpentOnce
  <2>18. SessionsProveAFactor'
    BY <2>3, <2>10 DEF SessionsProveAFactor, Stands
  <2>. QED  BY <2>9, <2>14, <2>15, <2>16, <2>17, <2>18
<1>. QED  BY <1>1, <1>2

LEMMA SessionKeepsInv ==
  ASSUME TwoFactorInv, NEW n \in Exchanges, issueIdentitySession(n)
  PROVE  TwoFactorInv'
<1>. USE DEF TwoFactorInv
<1>1. CASE Ends(n)
  BY <1>1, EndsKeepsInv
<1>2. CASE ~Ends(n)
  <2> DEFINE x == [Waiting EXCEPT !.stage = "answered"]
             new == [by |-> n, proof |-> exchange[n].proof]
  <2>1. /\ exchange[n].stage = "session" /\ account.stamp = exchange[n].seen.stamp
        /\ sessions' = sessions \cup {new}
        /\ issued' = issued \cup {exchange[n].seen.stamp}
        /\ exchange' = Ask(n, x)
        /\ UNCHANGED <<account, passkeys, challenges, spent>>
    BY <1>2 DEF issueIdentitySession, StampHolds, Answer, Ask
  <2>2. /\ x \in ExchangeRow /\ x.stage = "answered" /\ x.seen = Nil /\ x.kind = "none"
        /\ x.provider = "none"
    BY WaitingIsAnExchange DEF Waiting
  <2>. HIDE DEF x
  <2>3. /\ exchange' \in [Exchanges -> ExchangeRow] /\ exchange'[n] = x
        /\ \A m \in Exchanges : m # n => exchange'[m] = exchange[m]
    BY <2>1, <2>2, ExchangeGoesOn
  <2>4. Stands(exchange[n].proof) /\ exchange[n].proof \in Proofs /\ account.stamp \in Stamps
    BY <2>1 DEF Known, Current, TwoFactorTypeOK, ExchangeRow, AccountRow
  <2>5. TwoFactorTypeOK'
    BY <2>1, <2>3, <2>4 DEF TwoFactorTypeOK
  <2>6. Known(x) /\ Current(x)
    BY <2>2 DEF Known, Current
  <2>7. (\A m \in Exchanges : Known(exchange[m]) /\ Current(exchange[m]))'
    BY <2>1, <2>3, <2>6 DEF Known, Current, Stands, SecondFactors, KeysFor
  <2>8. NumbersAreFresh'
    BY <2>1, <2>2, <2>3 DEF NumbersAreFresh, Pending
  <2>9. SpentForGood' /\ ProofsAreSpentOnce'
    BY <2>1 DEF SpentForGood, ProofsAreSpentOnce
  <2>10. SecondFactors' = SecondFactors /\ KeysFor("login")' = KeysFor("login")
    BY <2>1 DEF SecondFactors, KeysFor
  <2>11. SessionsProveAFactor'
    BY <2>1, <2>4, <2>10 DEF SessionsProveAFactor, Stands
  <2>. QED  BY <2>5, <2>7, <2>8, <2>9, <2>11
<1>. QED  BY <1>1, <1>2

\* A change of the factors, with the stamp it renews.
LEMMA CommitKeepsInv ==
  ASSUME TwoFactorInv, NEW n \in Exchanges, Pending(exchange[n]),
         NEW row \in AccountRow, NEW keys \in [Keys -> PasskeyRow \cup {Nil}],
         NEW x \in ExchangeRow, Commit(n, row, keys, Ask(n, x)),
         row.recovery \in {Nil, account.recovery, n},
         ~Pending(x), Known(x), x.seen \in {exchange[n].seen, Nil},
         challenges' \in [Challenges -> ChallengeRow],
         \A g \in Challenges : challenges[g].state = "closed" => challenges'[g].state = "closed",
         \/ UNCHANGED spent
         \/ \E h \in Challenges :
              /\ challenges[h].state # "closed" /\ challenges'[h].state = "closed"
              /\ spent' = spent \cup {[what |-> "challenge", id |-> h, by |-> n]}
         \/ /\ account.recovery # Nil /\ row.recovery = Nil
            /\ spent' = spent \cup {[what |-> "recovery", id |-> account.recovery, by |-> n]}
  PROVE  TwoFactorInv'
<1>. USE DEF TwoFactorInv
<1> DEFINE now == [row EXCEPT !.stamp = n]
<1>1. now \in AccountRow /\ now.stamp = n /\ now.recovery = row.recovery
  BY ExchangesAreNumbers DEF AccountRow
<1>2. account' = now /\ passkeys' = keys /\ sessions' = {} /\ UNCHANGED issued
  BY DEF Commit
<1>. HIDE DEF now
<1>3. /\ exchange' \in [Exchanges -> ExchangeRow] /\ exchange'[n] = x
      /\ \A m \in Exchanges : m # n => exchange'[m] = exchange[m]
  BY ExchangeGoesOn DEF Commit
<1>4. account.recovery \in Stamps \cup {Nil}
  BY DEF TwoFactorTypeOK, AccountRow
<1>5. spent' \subseteq [what : {"challenge", "recovery"}, id : Challenges \cup Stamps, by : Exchanges]
  BY <1>4 DEF TwoFactorTypeOK
<1>6. TwoFactorTypeOK'
  BY <1>1, <1>2, <1>3, <1>5 DEF TwoFactorTypeOK
<1>7. \A m \in Exchanges : exchange'[m].seen # Nil => exchange'[m].seen.stamp # n
  BY <1>3 DEF NumbersAreFresh
<1>8. ASSUME NEW m \in Exchanges PROVE (Known(exchange[m]) /\ Current(exchange[m]))'
  <2>1. Known(exchange'[m])
    BY <1>3
  <2>. QED  BY <1>1, <1>2, <1>7, <2>1 DEF Known, Current
<1>9. \A m \in Exchanges : Pending(exchange'[m]) => m # n /\ Pending(exchange[m])
  BY <1>3
<1>10. \A s \in spent' : s.what = "recovery" => s \in spent \/ s.id = account.recovery
  OBVIOUS
<1>11. NumbersAreFresh'
  <2>1. ASSUME NEW p \in Exchanges, Pending(exchange'[p])
        PROVE  /\ account'.stamp # p /\ account'.recovery # p
               /\ \A m \in Exchanges : exchange'[m].seen # Nil => exchange'[m].seen.stamp # p
               /\ \A s \in spent' : s.what = "recovery" => s.id # p
    <3>1. p # n /\ Pending(exchange[p]) /\ p # Nil
      BY <1>9, <2>1, ExchangesAreNumbers, NilIsNothing
    <3>2. account'.stamp # p /\ account'.recovery # p
      BY <1>1, <1>2, <3>1 DEF NumbersAreFresh
    <3>3. \A m \in Exchanges : exchange'[m].seen # Nil => exchange'[m].seen.stamp # p
      BY <1>3, <3>1 DEF NumbersAreFresh
    <3>4. \A s \in spent' : s.what = "recovery" => s.id # p
      BY <1>10, <3>1 DEF NumbersAreFresh
    <3>. QED  BY <3>2, <3>3, <3>4
  <2>. QED  BY <2>1 DEF NumbersAreFresh, Pending
<1>12. \A s \in spent : s.id # Nil
  BY ExchangesAreNumbers, NilIsNothing DEF TwoFactorTypeOK, Challenges
<1>13. SpentForGood'
  <2>1. ASSUME NEW s \in spent', s.what = "challenge"
        PROVE  s.id \in Challenges /\ challenges'[s.id].state = "closed"
    BY <2>1 DEF SpentForGood
  <2>2. ASSUME NEW s \in spent', s.what = "recovery"
        PROVE  s.id # row.recovery
    BY <1>12, <2>2 DEF SpentForGood, NumbersAreFresh
  <2>. QED  BY <1>1, <1>2, <2>1, <2>2 DEF SpentForGood
<1>14. ProofsAreSpentOnce'
  <2>1. CASE UNCHANGED spent
    BY <2>1 DEF ProofsAreSpentOnce
  <2>2. CASE \E h \in Challenges :
               /\ challenges[h].state # "closed" /\ challenges'[h].state = "closed"
               /\ spent' = spent \cup {[what |-> "challenge", id |-> h, by |-> n]}
    BY <2>2 DEF ProofsAreSpentOnce, SpentForGood
  <2>3. CASE spent' = spent \cup {[what |-> "recovery", id |-> account.recovery, by |-> n]}
    BY <2>3 DEF ProofsAreSpentOnce, SpentForGood
  <2>. QED  BY <2>1, <2>2, <2>3
<1>15. SessionsProveAFactor'
  BY <1>2 DEF SessionsProveAFactor
<1>. QED  BY <1>6, <1>8, <1>11, <1>13, <1>14, <1>15

\* How a change's request ends.
LEMMA AnsweredIsKnown ==
  /\ [Waiting EXCEPT !.stage = "answered"] \in ExchangeRow
  /\ [Waiting EXCEPT !.stage = "answered"].seen = Nil
  /\ [Waiting EXCEPT !.stage = "answered"].stage = "answered"
  /\ Known([Waiting EXCEPT !.stage = "answered"])
  /\ ~Pending([Waiting EXCEPT !.stage = "answered"])
BY WaitingIsAnExchange DEF Waiting, Known, Pending

LEMMA ChangeKeepsInv ==
  ASSUME TwoFactorInv, NEW n \in Exchanges, NEW kind, NEW test,
         NEW row \in AccountRow, NEW keys \in [Keys -> PasskeyRow \cup {Nil}],
         Changes(n, kind, test, row, keys),
         test => row.recovery \in {Nil, account.recovery, n}
  PROVE  TwoFactorInv'
<1>1. CASE Ends(n)
  BY <1>1, EndsKeepsInv
<1>2. CASE ~Ends(n)
  <2> DEFINE x == [Waiting EXCEPT !.stage = "answered"]
  <2>1. /\ exchange[n].stage = "commit" /\ test
        /\ Commit(n, row, keys, Ask(n, x)) /\ UNCHANGED <<challenges, spent>>
    BY <1>2 DEF Changes, Commits, Answer, Ask
  <2>2. row.recovery \in {Nil, account.recovery, n}
    BY <2>1
  <2>3. Pending(exchange[n]) /\ challenges' \in [Challenges -> ChallengeRow]
    BY <2>1 DEF Pending, TwoFactorInv, TwoFactorTypeOK
  <2>4. x \in ExchangeRow /\ x.seen = Nil /\ ~Pending(x) /\ Known(x)
    BY AnsweredIsKnown
  <2>. HIDE DEF x
  <2>5. UNCHANGED challenges /\ UNCHANGED spent
    BY <2>1
  <2>. QED  BY <2>1, <2>2, <2>3, <2>4, <2>5, CommitKeepsInv
<1>. QED  BY <1>1, <1>2

LEMMA FactorsGone ==
  ASSUME TwoFactorTypeOK
  PROVE  /\ WithoutSecondFactors \in AccountRow /\ WithoutSecondFactors.recovery = Nil
         /\ LoginPasskeys \in [Keys -> PasskeyRow \cup {Nil}]
<1>1. account \in AccountRow
  BY DEF TwoFactorTypeOK
<1>. QED  BY <1>1 DEF TwoFactorTypeOK, AccountRow, WithoutSecondFactors, LoginPasskeys

\* Under the stamp that was read, the code kept is the one there is, or a new one.
LEMMA RecoveryIsKept ==
  ASSUME TwoFactorInv, NEW n \in Exchanges, exchange[n].stage = "commit", StampHolds(n)
  PROVE  RecoveryKept(n) \in {account.recovery, n} \cap Stamps
<1> DEFINE P(code) == /\ code # Nil
                      /\ account.recovery # Nil => code = account.recovery
                      /\ account.recovery = Nil /\ exchange[n].seen.recovery # Nil
                           => code = exchange[n].seen.recovery
           S == {account.recovery, exchange[n].seen.recovery, n}
<1>1. exchange[n].seen = account
  BY DEF TwoFactorInv, StampHolds, Known, Current
<1>2. n \in Stamps /\ n # Nil /\ account.recovery \in Stamps \cup {Nil}
  BY ExchangesAreNumbers, NilIsNothing DEF TwoFactorInv, TwoFactorTypeOK, AccountRow
<1>3. \E code \in S : P(code)
  BY <1>1, <1>2
<1>4. RecoveryKept(n) \in S /\ P(RecoveryKept(n))
  BY <1>3 DEF RecoveryKept
<1>. QED  BY <1>1, <1>2, <1>4

LEMMA SpendKeepsInv ==
  ASSUME TwoFactorInv, NEW n \in Exchanges, consumeRecoveryCode(n) \/ recoverTwoFactor(n)
  PROVE  TwoFactorInv'
<1>. USE DEF TwoFactorInv
<1>1. CASE Ends(n)
  BY <1>1, EndsKeepsInv
<1>2. CASE ~Ends(n)
  <2>1. ASSUME NEW x \in ExchangeRow, SpendRecovery(n, Ask(n, x)), RecoveryHolds(n),
               Pending(exchange[n]), ~Pending(x), Known(x), x.seen \in {exchange[n].seen, Nil}
        PROVE  TwoFactorInv'
    <3>1. /\ Commit(n, WithoutSecondFactors, LoginPasskeys, Ask(n, x))
          /\ spent' = spent \cup {[what |-> "recovery", id |-> account.recovery, by |-> n]}
          /\ account.recovery # Nil /\ UNCHANGED challenges
      BY <2>1 DEF SpendRecovery, RecoveryHolds
    <3>2. challenges' \in [Challenges -> ChallengeRow]
      BY <3>1 DEF TwoFactorTypeOK
    <3>. QED  BY <2>1, <3>1, <3>2, FactorsGone, CommitKeepsInv
  <2>2. CASE consumeRecoveryCode(n)
    <3> DEFINE x == [exchange[n] EXCEPT !.stage = "reread"]
    <3>1. /\ exchange[n].stage = "recovery" /\ RecoveryHolds(n) /\ SpendRecovery(n, Ask(n, x))
          /\ exchange[n] \in ExchangeRow /\ Known(exchange[n])
      BY <1>2, <2>2 DEF consumeRecoveryCode, TwoFactorTypeOK
    <3>2. /\ x \in ExchangeRow /\ x.stage = "reread" /\ x.seen = exchange[n].seen
          /\ x.kind = exchange[n].kind /\ x.provider = exchange[n].provider
          /\ x.key = exchange[n].key /\ x.challenge = exchange[n].challenge
      BY <3>1 DEF ExchangeRow
    <3>. HIDE DEF x
    <3>3. Known(x) /\ ~Pending(x) /\ Pending(exchange[n])
      BY <3>1, <3>2 DEF Known, Pending
    <3>. QED  BY <2>1, <3>1, <3>2, <3>3
  <2>3. CASE recoverTwoFactor(n)
    <3>1. /\ exchange[n].stage = "commit" /\ RecoveryHolds(n)
          /\ SpendRecovery(n, Ask(n, [Waiting EXCEPT !.stage = "answered"]))
      BY <1>2, <2>3 DEF recoverTwoFactor, Commits, Answer, Ask
    <3>2. Pending(exchange[n])
      BY <3>1 DEF Pending
    <3>. QED  BY <2>1, <3>1, <3>2, AnsweredIsKnown
  <2>. QED  BY <2>2, <2>3
<1>. QED  BY <1>1, <1>2

LEMMA RegisteringKeepsInv ==
  ASSUME TwoFactorInv, NEW n \in Exchanges, createPasskey(n)
  PROVE  TwoFactorInv'
<1>. USE DEF TwoFactorInv
<1>1. CASE Ends(n)
  BY <1>1, EndsKeepsInv
<1>2. CASE ~Ends(n)
  <2> DEFINE x == exchange[n]
             row == IF x.purpose = "login" THEN account
                    ELSE [account EXCEPT !.recovery = RecoveryKept(n)]
             new == [purpose |-> x.purpose, counter |-> 0, token |-> n]
             keys == [passkeys EXCEPT ![x.key] = new]
  <2>1. /\ x.stage = "commit" /\ x.kind = "createPasskey" /\ StampHolds(n)
        /\ Open(x.challenge, "register")
        /\ Commit(n, row, keys, Ask(n, [Waiting EXCEPT !.stage = "answered"]))
        /\ challenges' = [challenges EXCEPT ![x.challenge].state = "closed"]
        /\ spent' = spent \cup {[what |-> "challenge", id |-> x.challenge, by |-> n]}
    BY <1>2 DEF createPasskey, Commits, Answer, Ask
  <2>2. x \in ExchangeRow /\ x.challenge \in Challenges /\ x.key \in Keys
    BY <2>1 DEF TwoFactorTypeOK, Known
  <2>3. row \in AccountRow /\ row.recovery \in {Nil, account.recovery, n}
    <3>1. account \in AccountRow /\ RecoveryKept(n) \in {account.recovery, n} \cap Stamps
      BY <2>1, RecoveryIsKept DEF TwoFactorTypeOK
    <3>. QED  BY <3>1 DEF AccountRow
  <2>4. keys \in [Keys -> PasskeyRow \cup {Nil}]
    <3>1. new \in PasskeyRow
      BY <2>2, ExchangesAreNumbers, TwoFactorAssumption DEF PasskeyRow, ExchangeRow
    <3>. HIDE DEF new
    <3>. QED  BY <2>2, <3>1 DEF TwoFactorTypeOK
  <2>5. /\ challenges' \in [Challenges -> ChallengeRow]
        /\ challenges[x.challenge].state # "closed" /\ challenges'[x.challenge].state = "closed"
        /\ \A g \in Challenges : challenges[g].state = "closed" => challenges'[g].state = "closed"
    BY <2>1, <2>2 DEF Open, TwoFactorTypeOK, ChallengeRow
  <2>6. Pending(x)
    BY <2>1 DEF Pending
  <2>. HIDE DEF row, keys
  <2>. QED  BY <2>1, <2>2, <2>3, <2>4, <2>5, <2>6, AnsweredIsKnown, CommitKeepsInv
<1>. QED  BY <1>1, <1>2

\* The changes that only write the account's row and the passkeys.
LEMMA ChangesKeepInv ==
  ASSUME TwoFactorInv, NEW n \in Exchanges,
         \/ enableAuthenticator(n) \/ disableAuthenticator(n) \/ disableTwoFactor(n)
         \/ saveYubikeys(n) \/ disableYubikeys(n) \/ deleteAllTwoFactorPasskeys(n)
         \/ deletePasskey(n)
  PROVE  TwoFactorInv'
<1>. USE DEF TwoFactorInv
<1>1. /\ account \in AccountRow /\ passkeys \in [Keys -> PasskeyRow \cup {Nil}]
      /\ exchange[n] \in ExchangeRow /\ n \in Stamps
  BY ExchangesAreNumbers DEF TwoFactorTypeOK
<1>2. CASE enableAuthenticator(n)
  <2>1. [account EXCEPT !.totp = n, !.recovery = n] \in AccountRow
    BY <1>1 DEF AccountRow
  <2>2. [account EXCEPT !.totp = n, !.recovery = n].recovery = n
    BY <1>1 DEF AccountRow
  <2>. QED  BY <1>1, <1>2, <2>1, <2>2, ChangeKeepsInv DEF enableAuthenticator
<1>3. CASE disableAuthenticator(n)
  <2>1. [account EXCEPT !.totp = Nil, !.recovery = Nil] \in AccountRow
    BY <1>1 DEF AccountRow
  <2>2. [account EXCEPT !.totp = Nil, !.recovery = Nil].recovery = Nil
    BY <1>1 DEF AccountRow
  <2>. QED  BY <1>1, <1>3, <2>1, <2>2, ChangeKeepsInv DEF disableAuthenticator
<1>4. CASE disableTwoFactor(n)
  BY <1>4, FactorsGone, ChangeKeepsInv DEF disableTwoFactor
<1>5. CASE saveYubikeys(n)
  <2> DEFINE row == [account EXCEPT !.yubikeys = exchange[n].yubikeys, !.recovery = RecoveryKept(n)]
             test == StampHolds(n) /\ account.yubikeys = exchange[n].seen.yubikeys
  <2>1. CASE test
    <3>1. RecoveryKept(n) \in {account.recovery, n} \cap Stamps
      BY <1>5, <2>1, RecoveryIsKept DEF saveYubikeys, Changes, Commits
    <3>2. row \in AccountRow /\ row.recovery \in {Nil, account.recovery, n}
      BY <1>1, <3>1 DEF AccountRow, ExchangeRow
    <3>. HIDE DEF row
    <3>3. Changes(n, "saveYubikeys", test, row, passkeys)
      BY <1>5 DEF saveYubikeys, row
    <3>. QED  BY <1>1, <3>2, <3>3, ChangeKeepsInv
  <2>2. CASE ~test
    BY <1>5, <2>2, EndsKeepsInv DEF saveYubikeys, Changes
  <2>. QED  BY <2>1, <2>2
<1>6. CASE disableYubikeys(n)
  <2>1. [account EXCEPT !.yubikeys = {}] \in AccountRow
    BY <1>1 DEF AccountRow
  <2>2. [account EXCEPT !.yubikeys = {}].recovery = account.recovery
    BY <1>1 DEF AccountRow
  <2>. QED  BY <1>1, <1>6, <2>1, <2>2, ChangeKeepsInv DEF disableYubikeys
<1>7. CASE deleteAllTwoFactorPasskeys(n)
  BY <1>1, <1>7, FactorsGone, ChangeKeepsInv DEF deleteAllTwoFactorPasskeys
<1>8. CASE deletePasskey(n)
  <2>1. [passkeys EXCEPT ![exchange[n].key] = Nil] \in [Keys -> PasskeyRow \cup {Nil}]
    BY <1>1
  <2>. QED  BY <1>1, <1>8, <2>1, ChangeKeepsInv DEF deletePasskey
<1>. QED  BY <1>2, <1>3, <1>4, <1>5, <1>6, <1>7, <1>8

\* A request arrives: it has not been answered, so it may still commit.
LEMMA ArrivalKeepsInv ==
  ASSUME TwoFactorInv, NEW n \in Exchanges, Arrives(n), NEW x \in ExchangeRow,
         Arrived(n, x), Known(x), x.seen \in {account, Nil}, x.stage # "session",
         x.stage = "commit" => x.kind # "deletePasskey"
  PROVE  TwoFactorInv'
<1>1. Current(x)
  BY DEF Current
<1>2. Pending(exchange[n])
  BY DEF Arrives, Pending
<1>3. /\ exchange' = Ask(n, x)
      /\ UNCHANGED <<account, passkeys, challenges, sessions, issued, spent>>
  BY DEF Arrived
<1>. QED  BY <1>1, <1>2, <1>3, RequestKeepsInv

LEMMA SignInArrivalsKeepInv ==
  ASSUME TwoFactorInv, NEW n \in Exchanges, arriveWithPassword(n) \/ arriveWithPasskey(n)
  PROVE  TwoFactorInv'
<1>. USE DEF TwoFactorInv
<1>1. account \in AccountRow /\ account # Nil
  BY NilIsNothing DEF TwoFactorTypeOK
<1>2. \A scope, purpose : \A a \in Assertions(scope, purpose) :
        a.challenge \in Challenges /\ a.key \in Keys /\ a.counter \in 0..MaxCounter
  BY DEF Assertions, Made
<1>3. CASE arriveWithPassword(n)
  <2> DEFINE asked == [Waiting EXCEPT !.stage = "user", !.kind = "password", !.seen = account]
  <2>1. /\ asked \in ExchangeRow /\ asked.stage = "user" /\ asked.kind = "password"
        /\ asked.seen = account
    BY <1>1, WaitingIsAnExchange DEF ExchangeRow, SignIns
  <2>2. Arrives(n)
    BY <1>3 DEF arriveWithPassword
  <2>. HIDE DEF asked
  <2>3. ASSUME NEW provider \in {"none", "totp", "recovery"},
               Arrived(n, [asked EXCEPT !.provider = provider])
        PROVE  TwoFactorInv'
    <3> DEFINE x == [asked EXCEPT !.provider = provider]
    <3>1. /\ x \in ExchangeRow /\ x.stage = "user" /\ x.kind = "password" /\ x.seen = account
          /\ x.provider = provider
      BY <2>1 DEF ExchangeRow
    <3>. HIDE DEF x
    <3>2. Known(x)
      BY <1>1, <3>1 DEF Known
    <3>. QED  BY <2>2, <2>3, <3>1, <3>2, ArrivalKeepsInv DEF x
  <2>4. ASSUME NEW y \in YubiKeys,
               Arrived(n, [asked EXCEPT !.provider = "yubikey", !.yubikeys = {y}])
        PROVE  TwoFactorInv'
    <3> DEFINE x == [asked EXCEPT !.provider = "yubikey", !.yubikeys = {y}]
    <3>1. /\ x \in ExchangeRow /\ x.stage = "user" /\ x.kind = "password" /\ x.seen = account
          /\ x.provider = "yubikey"
      BY <2>1 DEF ExchangeRow
    <3>. HIDE DEF x
    <3>2. Known(x)
      BY <1>1, <3>1 DEF Known
    <3>. QED  BY <2>2, <2>4, <3>1, <3>2, ArrivalKeepsInv DEF x
  <2>5. ASSUME NEW a \in Assertions("action", "twoFactor"),
               Arrived(n, [asked EXCEPT !.provider = "passkey", !.key = a.key,
                             !.challenge = a.challenge, !.counter = a.counter])
        PROVE  TwoFactorInv'
    <3> DEFINE x == [asked EXCEPT !.provider = "passkey", !.key = a.key,
                       !.challenge = a.challenge, !.counter = a.counter]
    <3>1. /\ x \in ExchangeRow /\ x.stage = "user" /\ x.kind = "password" /\ x.seen = account
          /\ x.key \in Keys /\ x.challenge \in Challenges
      BY <1>2, <2>1 DEF ExchangeRow
    <3>. HIDE DEF x
    <3>2. Known(x)
      BY <1>1, <3>1 DEF Known
    <3>. QED  BY <2>2, <2>5, <3>1, <3>2, ArrivalKeepsInv DEF x
  <2>. QED  BY <1>3, <2>3, <2>4, <2>5 DEF arriveWithPassword, asked
<1>4. CASE arriveWithPasskey(n)
  <2>1. PICK a \in Assertions("login", "login") :
               Arrived(n, [Waiting EXCEPT !.stage = "credential", !.kind = "passkey",
                     !.purpose = "login", !.key = a.key,
                     !.challenge = a.challenge, !.counter = a.counter])
    BY <1>4 DEF arriveWithPasskey
  <2> DEFINE x == [Waiting EXCEPT !.stage = "credential", !.kind = "passkey",
                     !.purpose = "login", !.key = a.key,
                     !.challenge = a.challenge, !.counter = a.counter]
  <2>2. /\ x \in ExchangeRow /\ x.stage = "credential" /\ x.kind = "passkey" /\ x.seen = Nil
        /\ x.key \in Keys /\ x.challenge \in Challenges
    BY <1>2, WaitingIsAnExchange DEF ExchangeRow, SignIns, Purposes
  <2>. HIDE DEF x
  <2>3. Known(x)
    BY <2>2 DEF Known
  <2>. QED  BY <1>4, <2>1, <2>2, <2>3, ArrivalKeepsInv DEF x, arriveWithPasskey
<1>. QED  BY <1>3, <1>4

LEMMA ChangeArrivalsKeepInv ==
  ASSUME TwoFactorInv, NEW n \in Exchanges, arriveToChange(n)
  PROVE  TwoFactorInv'
<1>. USE DEF TwoFactorInv
<1> DEFINE asked(kind, stage) == [Waiting EXCEPT !.stage = stage, !.kind = kind, !.seen = account]
<1>1. account \in AccountRow /\ account # Nil /\ Arrives(n)
  BY NilIsNothing DEF TwoFactorTypeOK, arriveToChange
<1>2. ASSUME NEW kind \in Removals \cup Additions, NEW stage \in {"commit", "unique", "count"}
      PROVE  /\ asked(kind, stage) \in ExchangeRow /\ asked(kind, stage).stage = stage
             /\ asked(kind, stage).kind = kind /\ asked(kind, stage).seen = account
             /\ asked(kind, stage).provider = "none"
  <2>1. Waiting.provider = "none" /\ Waiting \in ExchangeRow
    BY WaitingIsAnExchange DEF Waiting
  <2>2. kind \in SignIns \cup Removals \cup Additions \cup {"none"}
    OBVIOUS
  <2>. HIDE DEF Waiting
  <2>. QED  BY <1>1, <2>1, <2>2 DEF ExchangeRow
<1>. HIDE DEF asked
<1>3. ASSUME NEW kind \in {"recover", "enableTotp", "disableTotp", "disableAll",
                           "disableYubikeys", "deleteAllPasskeys"},
             Arrived(n, asked(kind, "commit"))
      PROVE  TwoFactorInv'
  <2>1. kind \in Removals \cup Additions
    BY DEF Removals, Additions
  <2> DEFINE x == asked(kind, "commit")
  <2>2. /\ x \in ExchangeRow /\ x.stage = "commit" /\ x.kind = kind /\ x.seen = account
        /\ x.provider = "none"
    BY <1>2, <2>1
  <2>. HIDE DEF x
  <2>3. Known(x) /\ x.kind # "deletePasskey"
    BY <1>1, <2>2 DEF Known
  <2>. QED  BY <1>1, <1>3, <2>2, <2>3, ArrivalKeepsInv DEF x
<1>4. ASSUME NEW some \in SUBSET YubiKeys,
             Arrived(n, [asked("saveYubikeys", "commit") EXCEPT !.yubikeys = some])
      PROVE  TwoFactorInv'
  <2> DEFINE x == [asked("saveYubikeys", "commit") EXCEPT !.yubikeys = some]
  <2>1. "saveYubikeys" \in Removals \cup Additions
    BY DEF Removals, Additions
  <2>2. /\ x \in ExchangeRow /\ x.stage = "commit" /\ x.kind = "saveYubikeys" /\ x.seen = account
        /\ x.provider = "none"
    BY <1>2, <2>1 DEF ExchangeRow
  <2>. HIDE DEF x
  <2>3. Known(x)
    BY <1>1, <2>2 DEF Known
  <2>. QED  BY <1>1, <1>4, <2>2, <2>3, ArrivalKeepsInv DEF x
<1>5. ASSUME NEW k \in Keys, NEW purpose \in Purposes,
             Arrived(n, [asked("deletePasskey", "unique") EXCEPT !.key = k, !.purpose = purpose])
      PROVE  TwoFactorInv'
  <2> DEFINE b == asked("deletePasskey", "unique")
             x == [b EXCEPT !.key = k, !.purpose = purpose]
  <2>1. "deletePasskey" \in Removals \cup Additions
    BY DEF Removals, Additions
  <2>4. /\ b \in ExchangeRow /\ b.stage = "unique" /\ b.kind = "deletePasskey"
        /\ b.seen = account /\ b.provider = "none"
    BY <1>2, <2>1
  <2>. HIDE DEF b
  <2>2. /\ x \in ExchangeRow /\ x.stage = "unique" /\ x.kind = "deletePasskey" /\ x.seen = account
        /\ x.provider = "none" /\ x.key \in Keys
    BY <2>4 DEF ExchangeRow
  <2>. HIDE DEF x
  <2>3. Known(x)
    BY <1>1, <2>2 DEF Known
  <2>. QED  BY <1>1, <1>5, <2>2, <2>3, ArrivalKeepsInv DEF x, b
<1>6. ASSUME NEW k \in Keys, NEW purpose \in Purposes, NEW h \in Made("register", purpose),
             Arrived(n, [asked("createPasskey", "count") EXCEPT
                           !.key = k, !.purpose = purpose, !.challenge = h])
      PROVE  TwoFactorInv'
  <2> DEFINE b == asked("createPasskey", "count")
             x == [b EXCEPT
                     !.key = k, !.purpose = purpose, !.challenge = h]
  <2>1. "createPasskey" \in Removals \cup Additions /\ h \in Challenges
    BY DEF Removals, Additions, Made
  <2>4. /\ b \in ExchangeRow /\ b.stage = "count" /\ b.kind = "createPasskey"
        /\ b.seen = account /\ b.provider = "none"
    BY <1>2, <2>1
  <2>. HIDE DEF b
  <2>2. /\ x \in ExchangeRow /\ x.stage = "count" /\ x.kind = "createPasskey" /\ x.seen = account
        /\ x.provider = "none" /\ x.key \in Keys /\ x.challenge \in Challenges
    BY <2>1, <2>4 DEF ExchangeRow
  <2>. HIDE DEF x
  <2>3. Known(x)
    BY <1>1, <2>2 DEF Known
  <2>. QED  BY <1>1, <1>6, <2>2, <2>3, ArrivalKeepsInv DEF x, b
<1>. QED  BY <1>3, <1>4, <1>5, <1>6 DEF arriveToChange, asked

\* A request goes on under what it has read, to another stage than the one in
\* which a sign-in asks for its session.
LEMMA GoesOnKeepsInv ==
  ASSUME TwoFactorInv, NEW n \in Exchanges, NEW x \in ExchangeRow, Proceeds(n, x),
         Known(x), Pending(exchange[n]), x.seen = exchange[n].seen, x.stage # "session",
         x.stage = "commit" /\ x.kind = "deletePasskey" /\ x.purpose = "twoFactor" =>
           \E k \in KeysFor("twoFactor") : k # x.key
  PROVE  TwoFactorInv'
<1>1. Current(x)
  BY DEF TwoFactorInv, Current
<1>. QED  BY <1>1, RequestKeepsInv DEF Proceeds

LEMMA FactorsReadKeepsInv ==
  ASSUME TwoFactorInv, NEW n \in Exchanges, countSecondFactors(n)
  PROVE  TwoFactorInv'
<1>. USE DEF TwoFactorInv
<1> DEFINE x == exchange[n]
<1>1. /\ x \in ExchangeRow /\ Known(x) /\ Current(x) /\ x.stage = "user"
  BY DEF TwoFactorTypeOK, countSecondFactors
<1>2. x.seen \in AccountRow /\ x.seen # Nil /\ Pending(x)
  BY <1>1 DEF Known, ExchangeRow, Pending
<1>3. CASE Ends(n)
  BY <1>3, EndsKeepsInv
<1>4. ASSUME NEW proof \in Proofs, Proceeds(n, [x EXCEPT !.stage = "session", !.proof = proof]),
             x.seen = account => Stands(proof)
      PROVE  TwoFactorInv'
  <2> DEFINE y == [x EXCEPT !.stage = "session", !.proof = proof]
  <2>1. /\ y \in ExchangeRow /\ y.stage = "session" /\ y.proof = proof /\ y.seen = x.seen
        /\ y.kind = x.kind /\ y.provider = x.provider /\ y.key = x.key
        /\ y.challenge = x.challenge
    BY <1>1 DEF ExchangeRow
  <2>. HIDE DEF y
  <2>2. Known(y) /\ Current(y) /\ ~Pending(y)
    BY <1>1, <1>2, <1>4, <2>1 DEF Known, Current, Pending
  <2>. QED  BY <1>4, <2>1, <2>2, RequestKeepsInv DEF y, Proceeds
<1>5. ASSUME NEW stage \in {"credential", "recovery"}, Proceeds(n, [x EXCEPT !.stage = stage]),
             stage = "credential" => x.provider = "passkey"
      PROVE  TwoFactorInv'
  <2> DEFINE y == [x EXCEPT !.stage = stage]
  <2>1. /\ y \in ExchangeRow /\ y.stage = stage /\ y.seen = x.seen /\ y.kind = x.kind
        /\ y.provider = x.provider /\ y.key = x.key /\ y.challenge = x.challenge
    BY <1>1 DEF ExchangeRow
  <2>. HIDE DEF y
  <2>2. Known(y)
    BY <1>1, <1>2, <1>5, <2>1 DEF Known
  <2>. QED  BY <1>2, <1>5, <2>1, <2>2, GoesOnKeepsInv DEF y
<1> DEFINE on == \/ x.seen.totp # Nil \/ x.seen.yubikeys # {} \/ KeysFor("twoFactor") # {}
<1>6. CASE ~on /\ Proceeds(n, [x EXCEPT !.stage = "session", !.proof = <<"none">>])
  <2>1. <<"none">> \in Proofs
    BY DEF Proofs
  <2>2. x.seen = account => Stands(<<"none">>)
    BY <1>6 DEF Stands, SecondFactors
  <2>. QED  BY <1>4, <1>6, <2>1, <2>2
<1>7. CASE /\ x.seen.totp # Nil
           /\ Proceeds(n, [x EXCEPT !.stage = "session", !.proof = <<"totp", x.seen.totp>>])
  <2>1. <<"totp", x.seen.totp>> \in Proofs
    BY <1>2, <1>7 DEF Proofs, AccountRow
  <2>2. x.seen = account => Stands(<<"totp", x.seen.totp>>)
    BY <1>7 DEF Stands, SecondFactors
  <2>. QED  BY <1>4, <1>7, <2>1, <2>2
<1>8. ASSUME NEW y \in x.yubikeys, x.yubikeys \subseteq x.seen.yubikeys,
             Proceeds(n, [x EXCEPT !.stage = "session", !.proof = <<"yubikey", y>>])
      PROVE  TwoFactorInv'
  <2>1. <<"yubikey", y>> \in Proofs
    BY <1>1 DEF Proofs, ExchangeRow
  <2>2. x.seen = account => Stands(<<"yubikey", y>>)
    BY <1>8 DEF Stands, SecondFactors
  <2>. QED  BY <1>4, <1>8, <2>1, <2>2
<1>. QED  BY <1>3, <1>5, <1>6, <1>7, <1>8 DEF countSecondFactors

LEMMA SignInReadsKeepInv ==
  ASSUME TwoFactorInv, NEW n \in Exchanges,
         readCredential(n) \/ readOwner(n) \/ rereadAccount(n)
  PROVE  TwoFactorInv'
<1>. USE DEF TwoFactorInv
<1> DEFINE x == exchange[n]
<1>1. /\ x \in ExchangeRow /\ Known(x) /\ account \in AccountRow /\ account # Nil
  BY NilIsNothing DEF TwoFactorTypeOK
<1>2. CASE readCredential(n)
  <2>1. CASE Ends(n)
    BY <2>1, EndsKeepsInv
  <2>2. CASE ~Ends(n)
    <3> DEFINE stage == IF x.kind = "passkey" THEN "owner" ELSE "claim"
               row == passkeys[x.key]
               y == [x EXCEPT !.found = row.counter, !.stage = stage]
    <3>1. /\ x.stage = "credential" /\ row # Nil /\ Proceeds(n, y)
          /\ x.counter > row.counter \/ {x.counter, row.counter} = {0}
      BY <1>2, <2>2 DEF readCredential
    <3>2. x.key \in Keys /\ row \in PasskeyRow
      BY <1>1, <3>1 DEF Known, TwoFactorTypeOK
    <3>3. row.counter \in 0..MaxCounter /\ x.counter \in 0..MaxCounter /\ x.counter >= row.counter
      <4>1. row.counter \in 0..MaxCounter /\ x.counter \in 0..MaxCounter
        BY <1>1, <3>2 DEF PasskeyRow, ExchangeRow
      <4>2. CASE x.counter > row.counter
        BY <4>1, <4>2
      <4>3. CASE {x.counter, row.counter} = {0}
        <5>1. x.counter = 0 /\ row.counter = 0
          BY <4>3
        <5>. QED  BY <4>1, <5>1
      <4>. QED  BY <3>1, <4>1, <4>2, <4>3
    <3>6. stage \in {"owner", "claim"} /\ (stage = "owner" <=> x.kind = "passkey")
      OBVIOUS
    <3>. HIDE DEF row, stage
    <3>4. /\ y \in ExchangeRow /\ y.stage = stage /\ y.seen = x.seen /\ y.kind = x.kind
          /\ y.provider = x.provider /\ y.key = x.key /\ y.challenge = x.challenge
          /\ y.counter = x.counter /\ y.found = row.counter
      BY <1>1, <3>3, <3>6 DEF ExchangeRow
    <3>. HIDE DEF y
    <3>5. Known(y) /\ Pending(x)
      BY <1>1, <3>1, <3>3, <3>4, <3>6 DEF Known, Pending
    <3>. QED  BY <3>1, <3>4, <3>5, <3>6, GoesOnKeepsInv
  <2>. QED  BY <2>1, <2>2
<1>3. ASSUME NEW y \in ExchangeRow, Proceeds(n, y), Known(y), y.seen = account,
             Pending(y) => Pending(x), y.stage \in {"claim", "session"},
             y.stage = "session" => y.proof = <<"recovery">>
      PROVE  TwoFactorInv'
  <2>1. Current(y)
    BY <1>3 DEF Current, Stands
  <2>. QED  BY <1>3, <2>1, RequestKeepsInv DEF Proceeds
<1>4. CASE readOwner(n)
  <2> DEFINE y == [x EXCEPT !.stage = "claim", !.seen = account]
  <2>1. x.stage = "owner" /\ Proceeds(n, y)
    BY <1>4 DEF readOwner
  <2>2. /\ y \in ExchangeRow /\ y.stage = "claim" /\ y.seen = account /\ y.kind = x.kind
        /\ y.provider = x.provider /\ y.key = x.key /\ y.challenge = x.challenge
        /\ y.counter = x.counter /\ y.found = x.found
    BY <1>1 DEF ExchangeRow
  <2>. HIDE DEF y
  <2>3. Known(y) /\ (Pending(y) => Pending(x))
    BY <1>1, <2>1, <2>2 DEF Known, Pending
  <2>. QED  BY <1>3, <2>1, <2>2, <2>3
<1>5. CASE rereadAccount(n)
  <2> DEFINE y == [x EXCEPT !.stage = "session", !.seen = account, !.proof = <<"recovery">>]
  <2>1. Proceeds(n, y) /\ <<"recovery">> \in Proofs
    BY <1>5 DEF rereadAccount, Proofs
  <2>2. /\ y \in ExchangeRow /\ y.stage = "session" /\ y.seen = account /\ y.kind = x.kind
        /\ y.provider = x.provider /\ y.key = x.key /\ y.challenge = x.challenge
        /\ y.proof = <<"recovery">>
    BY <1>1, <2>1 DEF ExchangeRow
  <2>. HIDE DEF y
  <2>3. Known(y) /\ (Pending(y) => Pending(x))
    BY <1>1, <2>2 DEF Known, Pending
  <2>. QED  BY <1>3, <2>1, <2>2, <2>3
<1>. QED  BY <1>2, <1>4, <1>5

LEMMA ChangeReadsKeepInv ==
  ASSUME TwoFactorInv, NEW n \in Exchanges,
         \/ countPasskeys(n) \/ lookUpCredential(n)
         \/ readPasskeyToDelete(n) \/ countBeforeDelete(n)
  PROVE  TwoFactorInv'
<1>. USE DEF TwoFactorInv
<1> DEFINE x == exchange[n]
<1>1. x \in ExchangeRow /\ Known(x)
  BY DEF TwoFactorTypeOK
<1>2. CASE Ends(n)
  BY <1>2, EndsKeepsInv
<1>3. ASSUME NEW stage \in {"unique", "last", "commit"}, Proceeds(n, [x EXCEPT !.stage = stage]),
             x.stage \in {"count", "unique", "last"},
             stage = "commit" /\ x.kind = "deletePasskey" /\ x.purpose = "twoFactor" =>
               \E k \in KeysFor("twoFactor") : k # x.key
      PROVE  TwoFactorInv'
  <2> DEFINE y == [x EXCEPT !.stage = stage]
  <2>1. /\ y \in ExchangeRow /\ y.stage = stage /\ y.seen = x.seen /\ y.kind = x.kind
        /\ y.provider = x.provider /\ y.key = x.key /\ y.challenge = x.challenge
        /\ y.purpose = x.purpose
    BY <1>1 DEF ExchangeRow
  <2>. HIDE DEF y
  <2>2. Known(y) /\ Pending(x)
    BY <1>1, <1>3, <2>1 DEF Known, Pending
  <2>. QED  BY <1>3, <2>1, <2>2, GoesOnKeepsInv DEF y
<1>4. CASE countPasskeys(n) /\ ~Ends(n)
  BY <1>3, <1>4 DEF countPasskeys
<1>5. CASE lookUpCredential(n) /\ ~Ends(n)
  BY <1>3, <1>5 DEF lookUpCredential
<1>6. CASE readPasskeyToDelete(n) /\ ~Ends(n)
  BY <1>3, <1>6 DEF readPasskeyToDelete
<1>7. CASE countBeforeDelete(n) /\ ~Ends(n)
  <2>1. /\ x.stage = "last" /\ Proceeds(n, [x EXCEPT !.stage = "commit"])
        /\ ~(Cardinality(KeysFor("twoFactor")) <= 1)
    BY <1>7 DEF countBeforeDelete
  <2>2. \E k \in KeysFor("twoFactor") : k # x.key
    <3>1. SUFFICES ASSUME KeysFor("twoFactor") \subseteq {x.key} PROVE FALSE
      OBVIOUS
    <3>2. IsFiniteSet({x.key}) /\ Cardinality({x.key}) = 1
      BY FS_Singleton
    <3>3. Cardinality(KeysFor("twoFactor")) <= 1
      BY <3>1, <3>2, FS_Subset
    <3>. QED  BY <2>1, <3>3
  <2>. QED  BY <1>3, <2>1, <2>2
<1>. QED  BY <1>2, <1>4, <1>5, <1>6, <1>7

LEMMA TwoFactorInvStep ==
  TwoFactorInv /\ [TwoFactorNext]_twoFactorVars => TwoFactorInv'
<1>. SUFFICES ASSUME TwoFactorInv, [TwoFactorNext]_twoFactorVars PROVE TwoFactorInv'
  OBVIOUS
<1>1. ASSUME NEW h \in Challenges, saveAccountPasskeyChallenge(h) \/ LapseChallenge(h)
      PROVE  TwoFactorInv'
  BY <1>1, ChallengesKeepInv
<1>2. ASSUME NEW n \in Exchanges,
             arriveWithPassword(n) \/ arriveWithPasskey(n) \/ arriveToChange(n)
      PROVE  TwoFactorInv'
  BY <1>2, SignInArrivalsKeepInv, ChangeArrivalsKeepInv
<1>3. ASSUME NEW n \in Exchanges,
             countSecondFactors(n) \/ readCredential(n) \/ readOwner(n) \/ rereadAccount(n)
      PROVE  TwoFactorInv'
  BY <1>3, FactorsReadKeepsInv, SignInReadsKeepInv
<1>4. ASSUME NEW n \in Exchanges,
             \/ claimVerifiedPasskeyAssertion(n) \/ issueIdentitySession(n)
             \/ consumeRecoveryCode(n) \/ recoverTwoFactor(n)
      PROVE  TwoFactorInv'
  BY <1>4, ClaimKeepsInv, SessionKeepsInv, SpendKeepsInv
<1>5. ASSUME NEW n \in Exchanges,
             \/ enableAuthenticator(n) \/ disableAuthenticator(n) \/ disableTwoFactor(n)
             \/ saveYubikeys(n) \/ disableYubikeys(n) \/ deleteAllTwoFactorPasskeys(n)
             \/ deletePasskey(n) \/ createPasskey(n)
      PROVE  TwoFactorInv'
  BY <1>5, ChangesKeepInv, RegisteringKeepsInv
<1>6. ASSUME NEW n \in Exchanges,
             \/ countPasskeys(n) \/ lookUpCredential(n)
             \/ readPasskeyToDelete(n) \/ countBeforeDelete(n)
      PROVE  TwoFactorInv'
  BY <1>6, ChangeReadsKeepInv
<1>7. CASE UNCHANGED twoFactorVars
  <2>1. UNCHANGED <<account, passkeys, challenges, sessions, issued, exchange, spent>>
    BY <1>7 DEF twoFactorVars
  <2>2. TwoFactorTypeOK'
    BY <2>1 DEF TwoFactorInv, TwoFactorTypeOK
  <2>3. (\A n \in Exchanges : Known(exchange[n]) /\ Current(exchange[n]))'
    BY <2>1 DEF TwoFactorInv, Known, Current, Stands, SecondFactors, KeysFor
  <2>4. NumbersAreFresh' /\ SpentForGood'
    BY <2>1 DEF TwoFactorInv, NumbersAreFresh, Pending, SpentForGood
  <2>5. SessionsProveAFactor' /\ ProofsAreSpentOnce'
    BY <2>1 DEF TwoFactorInv, SessionsProveAFactor, ProofsAreSpentOnce, SecondFactors, KeysFor
  <2>. QED  BY <2>2, <2>3, <2>4, <2>5 DEF TwoFactorInv
<1>. QED  BY <1>1, <1>2, <1>3, <1>4, <1>5, <1>6, <1>7 DEF TwoFactorNext

LEMMA SpecTwoFactorInv == TwoFactorSpec => []TwoFactorInv
BY TwoFactorInvInit, TwoFactorInvStep, PTL DEF TwoFactorSpec

\* The factors, the challenges, the sessions and the requests keep their shapes.
THEOREM TwoFactorTypes == TwoFactorSpec => []TwoFactorTypeOK
<1>1. TwoFactorInv => TwoFactorTypeOK
  BY DEF TwoFactorInv
<1>. QED  BY <1>1, SpecTwoFactorInv, PTL

\* However many sign-ins and changes of the factors interleave, a session stands
\* on a factor that is on: the session is inserted under the stamp the sign-in
\* read, and every change renews it (issueIdentitySession).
THEOREM EverySessionProved == TwoFactorSpec => []SessionsProveAFactor
<1>1. TwoFactorInv => SessionsProveAFactor
  BY DEF TwoFactorInv
<1>. QED  BY <1>1, SpecTwoFactorInv, PTL

\* A challenge answers one request, and so does a recovery code
\* (claimVerifiedPasskeyAssertion, consumeRecoveryCode).
THEOREM NoProofTwice == TwoFactorSpec => []ProofsAreSpentOnce
<1>1. TwoFactorInv => ProofsAreSpentOnce
  BY DEF TwoFactorInv
<1>. QED  BY <1>1, SpecTwoFactorInv, PTL

\* A step leaves the passkeys alone, advances one counter, adds one, or deletes.
LEMMA CountersGoOn ==
  ASSUME TwoFactorInv, [TwoFactorNext]_twoFactorVars,
         NEW k \in Keys, passkeys[k] # Nil, passkeys'[k] # Nil
  PROVE  passkeys'[k].counter >= passkeys[k].counter
<1>. USE DEF TwoFactorInv
<1>1. passkeys[k] \in PasskeyRow /\ passkeys \in [Keys -> PasskeyRow \cup {Nil}]
  BY DEF TwoFactorTypeOK
<1>2. passkeys[k].counter \in Nat
  BY <1>1, TwoFactorAssumption DEF PasskeyRow
<1>3. ASSUME passkeys'[k] = passkeys[k] PROVE passkeys'[k].counter >= passkeys[k].counter
  BY <1>2, <1>3
<1>4. ASSUME NEW n \in Exchanges, Ends(n) PROVE passkeys'[k] = passkeys[k]
  BY <1>4 DEF Ends
<1>5. ASSUME NEW n \in Exchanges, NEW row, NEW answer,
             NEW keys \in {passkeys, LoginPasskeys}, Commit(n, row, keys, answer)
      PROVE  passkeys'[k] = passkeys[k]
  BY <1>5 DEF Commit, LoginPasskeys
<1>6. ASSUME NEW n \in Exchanges, claimVerifiedPasskeyAssertion(n), ~Ends(n)
      PROVE  passkeys'[k].counter >= passkeys[k].counter
  <2> DEFINE x == exchange[n]
  <2>1. /\ x.stage = "claim" /\ passkeys[x.key].counter = x.found
        /\ passkeys' = [passkeys EXCEPT ![x.key].counter = x.counter, ![x.key].token = n]
    BY <1>6 DEF claimVerifiedPasskeyAssertion, CounterHolds
  <2>2. x.key \in Keys /\ x.counter >= x.found
    BY <2>1 DEF Known
  <2>3. CASE k = x.key
    BY <1>1, <2>1, <2>2, <2>3 DEF PasskeyRow
  <2>4. CASE k # x.key
    BY <1>1, <1>3, <2>1, <2>4
  <2>. QED  BY <2>3, <2>4
<1>7. ASSUME NEW n \in Exchanges, createPasskey(n), ~Ends(n)
      PROVE  passkeys'[k] = passkeys[k]
  BY <1>1, <1>7 DEF createPasskey, Commit
<1>8. ASSUME NEW n \in Exchanges, deletePasskey(n), ~Ends(n)
      PROVE  passkeys'[k] = passkeys[k]
  BY <1>1, <1>8 DEF deletePasskey, Changes, Commit
<1>9. ASSUME NEW n \in Exchanges,
             \/ enableAuthenticator(n) \/ disableAuthenticator(n) \/ disableTwoFactor(n)
             \/ saveYubikeys(n) \/ disableYubikeys(n) \/ deleteAllTwoFactorPasskeys(n)
             \/ consumeRecoveryCode(n) \/ recoverTwoFactor(n)
      PROVE  passkeys'[k] = passkeys[k]
  BY <1>4, <1>5, <1>9
     DEF enableAuthenticator, disableAuthenticator, disableTwoFactor, saveYubikeys,
         disableYubikeys, deleteAllTwoFactorPasskeys, consumeRecoveryCode, recoverTwoFactor,
         Changes, SpendRecovery
<1>10. ASSUME NEW n \in Exchanges,
              \/ arriveWithPassword(n) \/ arriveWithPasskey(n) \/ arriveToChange(n)
       PROVE  passkeys'[k] = passkeys[k]
  BY <1>10 DEF arriveWithPassword, arriveWithPasskey, arriveToChange, Arrived
<1>11. ASSUME NEW n \in Exchanges,
              \/ countSecondFactors(n) \/ readCredential(n) \/ readOwner(n)
              \/ rereadAccount(n) \/ issueIdentitySession(n)
       PROVE  passkeys'[k] = passkeys[k]
  BY <1>11 DEF countSecondFactors, readCredential, readOwner, rereadAccount,
               issueIdentitySession, Proceeds, Ends
<1>12. ASSUME NEW n \in Exchanges,
              \/ countPasskeys(n) \/ lookUpCredential(n)
              \/ readPasskeyToDelete(n) \/ countBeforeDelete(n)
       PROVE  passkeys'[k] = passkeys[k]
  BY <1>12 DEF countPasskeys, lookUpCredential, readPasskeyToDelete, countBeforeDelete,
               Proceeds, Ends
<1>13. ASSUME \/ UNCHANGED twoFactorVars
              \/ \E h \in Challenges : saveAccountPasskeyChallenge(h) \/ LapseChallenge(h)
       PROVE  passkeys'[k] = passkeys[k]
  BY <1>13 DEF twoFactorVars, saveAccountPasskeyChallenge, LapseChallenge
<1>. QED  BY <1>3, <1>4, <1>6, <1>7, <1>8, <1>9, <1>10, <1>11, <1>12, <1>13 DEF TwoFactorNext

\* The deletion of one passkey commits where another second factor remains.
LEMMA OneRemains ==
  ASSUME TwoFactorInv, NEW n \in Exchanges, deletePasskey(n), KeysFor("twoFactor") # {}
  PROVE  KeysFor("twoFactor")' # {}
<1>. USE DEF TwoFactorInv
<1> DEFINE x == exchange[n]
<1>1. CASE Ends(n)
  BY <1>1 DEF Ends, KeysFor
<1>2. CASE ~Ends(n)
  <2>1. /\ x.stage = "commit" /\ x.kind = "deletePasskey" /\ StampHolds(n)
        /\ x.key \in KeysFor(x.purpose) /\ passkeys' = [passkeys EXCEPT ![x.key] = Nil]
    BY <1>2 DEF deletePasskey, Changes, Commits, Commit
  <2>2. \A k \in Keys : k # x.key => passkeys'[k] = passkeys[k]
    BY <2>1 DEF TwoFactorTypeOK
  <2>3. \E k \in KeysFor("twoFactor") : k # x.key
    <3>1. CASE x.purpose = "twoFactor"
      BY <2>1, <3>1 DEF Known, Current, StampHolds
    <3>2. CASE x.purpose # "twoFactor"
      BY <2>1, <3>2 DEF KeysFor
    <3>. QED  BY <3>1, <3>2
  <2>. QED  BY <2>2, <2>3 DEF KeysFor
<1>. QED  BY <1>1, <1>2

\* A request that leaves the stage in which it deletes a passkey deletes it.
LEMMA DeletionsAreDeletions ==
  ASSUME TwoFactorInv, [TwoFactorNext]_twoFactorVars, NEW n \in Exchanges,
         Commits(n, "deletePasskey"), exchange'[n].stage = "answered"
  PROVE  deletePasskey(n)
<1>. USE DEF TwoFactorInv
<1>1. exchange[n].stage = "commit" /\ exchange[n].kind = "deletePasskey"
  BY DEF Commits
<1>2. ASSUME NEW m \in Exchanges, NEW y, exchange' = Ask(m, y) PROVE m = n
  BY <1>1, <1>2 DEF Ask, TwoFactorTypeOK
<1>3. ASSUME NEW m \in Exchanges, Ends(m) PROVE m = n
  BY <1>2, <1>3 DEF Ends, Answer, Ask
<1>4. ASSUME NEW m \in Exchanges,
             \/ arriveWithPassword(m) \/ arriveWithPasskey(m) \/ arriveToChange(m)
      PROVE  FALSE
  <2>1. exchange[m].stage = "waiting"
    BY <1>4 DEF arriveWithPassword, arriveWithPasskey, arriveToChange, Arrives
  <2>2. \E y : exchange' = Ask(m, y)
    BY <1>4 DEF arriveWithPassword, arriveWithPasskey, arriveToChange, Arrived
  <2>. QED  BY <1>1, <1>2, <2>1, <2>2
<1>5. ASSUME NEW m \in Exchanges,
             \/ countSecondFactors(m) \/ readCredential(m) \/ readOwner(m)
             \/ rereadAccount(m) \/ issueIdentitySession(m)
             \/ claimVerifiedPasskeyAssertion(m) \/ consumeRecoveryCode(m)
             \/ countPasskeys(m) \/ lookUpCredential(m)
             \/ readPasskeyToDelete(m) \/ countBeforeDelete(m)
      PROVE  FALSE
  <2>1. exchange[m].stage # "commit"
    BY <1>5 DEF countSecondFactors, readCredential, readOwner, rereadAccount,
         issueIdentitySession, claimVerifiedPasskeyAssertion, consumeRecoveryCode,
         countPasskeys, lookUpCredential, readPasskeyToDelete, countBeforeDelete
  <2>2. \E y : exchange' = Ask(m, y)
    BY <1>5 DEF countSecondFactors, readCredential, readOwner, rereadAccount,
         issueIdentitySession, claimVerifiedPasskeyAssertion, consumeRecoveryCode,
         countPasskeys, lookUpCredential, readPasskeyToDelete, countBeforeDelete,
         Proceeds, Ends, Answer, Ask, SpendRecovery, Commit
  <2>. QED  BY <1>1, <1>2, <2>1, <2>2
<1>6. ASSUME NEW m \in Exchanges,
             \/ enableAuthenticator(m) \/ disableAuthenticator(m) \/ disableTwoFactor(m)
             \/ saveYubikeys(m) \/ disableYubikeys(m) \/ deleteAllTwoFactorPasskeys(m)
             \/ recoverTwoFactor(m) \/ createPasskey(m)
      PROVE  FALSE
  <2>1. exchange[m].kind # "deletePasskey"
    BY <1>6 DEF enableAuthenticator, disableAuthenticator, disableTwoFactor, saveYubikeys,
         disableYubikeys, deleteAllTwoFactorPasskeys, recoverTwoFactor, createPasskey,
         Changes, Commits
  <2>2. \E y : exchange' = Ask(m, y)
    BY <1>6 DEF enableAuthenticator, disableAuthenticator, disableTwoFactor, saveYubikeys,
         disableYubikeys, deleteAllTwoFactorPasskeys, recoverTwoFactor, createPasskey,
         Changes, Commit, SpendRecovery, Ends, Answer, Ask
  <2>. QED  BY <1>1, <1>2, <2>1, <2>2
<1>7. ASSUME NEW m \in Exchanges, deletePasskey(m) PROVE m = n
  <2>1. \E y : exchange' = Ask(m, y)
    BY <1>7 DEF deletePasskey, Changes, Commit, Ends, Answer, Ask
  <2>. QED  BY <1>2, <2>1
<1>8. ASSUME \/ UNCHANGED twoFactorVars
             \/ \E h \in Challenges : saveAccountPasskeyChallenge(h) \/ LapseChallenge(h)
      PROVE  FALSE
  BY <1>1, <1>8 DEF twoFactorVars, saveAccountPasskeyChallenge, LapseChallenge
<1>. QED  BY <1>4, <1>5, <1>6, <1>7, <1>8 DEF TwoFactorNext

\* A passkey's counter never goes back, and deleting passkeys one by one stops
\* at the last second factor among them: what was counted before the deletion
\* still holds under the stamp it commits under.
THEOREM PasskeysGoForward == TwoFactorSpec => PasskeysAdvanceAndStay
<1>1. TwoFactorInv /\ [TwoFactorNext]_twoFactorVars =>
        [/\ \A k \in Keys : passkeys[k] # Nil /\ passkeys'[k] # Nil
              => passkeys'[k].counter >= passkeys[k].counter
         /\ \A n \in Exchanges :
              Commits(n, "deletePasskey") /\ exchange'[n].stage = "answered"
                /\ KeysFor("twoFactor") # {}
                => KeysFor("twoFactor")' # {}]_twoFactorVars
  BY CountersGoOn, OneRemains, DeletionsAreDeletions
<1>. QED  BY <1>1, SpecTwoFactorInv, PTL DEF TwoFactorSpec, PasskeysAdvanceAndStay

-----------------------------------------------------------------------------

\* What is driven alone runs as it would by itself, and the others rest: so
\* what is proved of each component holds of their composition.
THEOREM EachRunsAsItself ==
  Spec => RegistrationSpec /\ TwoFactorSpec /\ DeviceApprovalSpec
<1>1. Init => RegistrationInit /\ TwoFactorInit /\ DeviceApprovalInit
  BY DEF Init, QuietRegistration, QuietTwoFactor
<1>2. [Next]_vars => /\ [RegistrationNext]_registrationVars
                     /\ [TwoFactorNext]_twoFactorVars
                     /\ [DeviceApprovalNext]_deviceApprovalVars
  BY DEF Next, vars
<1>. QED  BY <1>1, <1>2, PTL DEF Spec, RegistrationSpec, TwoFactorSpec, DeviceApprovalSpec

\* So the composition keeps the shapes its components do.
THEOREM IdentityTypes == Spec => []TypeOK
<1>1. Init => active \in Components
  BY DEF Init
<1>2. active \in Components /\ [Next]_vars => (active \in Components)'
  BY DEF Next, vars
<1>3. Spec => [](active \in Components)
  BY <1>1, <1>2, PTL DEF Spec
<1>4. active \in Components /\ RegistrationTypeOK /\ TwoFactorTypeOK /\ DeviceApprovalTypeOK
        => TypeOK
  BY DEF TypeOK
<1>. QED
  BY <1>3, <1>4, EachRunsAsItself, RegistrationTypes, TwoFactorTypes, DeviceApprovalTypes, PTL
=============================================================================
