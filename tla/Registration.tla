---------------------------- MODULE Registration ----------------------------
(***************************************************************************)
(* How accounts come to be: the first one with the deployment's bootstrap  *)
(* secret, later ones by open sign-up or with an administrator's invite.   *)
(* A registration reads in three steps and commits one D1 batch, which     *)
(* primary keys, a unique address and a foreign key abort as a whole.      *)
(* Registrations are numbered in the order they arrive, and an account has *)
(* the number of the registration that made it.                            *)
(***************************************************************************)
EXTENDS Naturals, FiniteSets

CONSTANTS MaxArrivals, \* bound: registrations in one behaviour
          Emails,      \* login addresses
          Invites,     \* the codes invites may be given, each at most once
          Absent       \* no invite, no account, no address

VARIABLES
  users,          \* each registration's account
  bootstrapLock,  \* config: the account that completed the bootstrap
  consumption,    \* config: registration.invite.used:<code>
  policy,         \* config: what registrations are allowed
  invites,        \* the invites table
  registration    \* the registrations in flight

registrationVars ==
  <<users, bootstrapLock, consumption, policy, invites, registration>>

Arrivals == 1..MaxArrivals
Policy == [signupsAllowed : BOOLEAN, invitationsAllowed : BOOLEAN]

AwaitedRegistration ==
  [stage |-> "awaited", email |-> Absent, invite |-> Absent, secret |-> FALSE,
   isBootstrap |-> FALSE, policy |-> [signupsAllowed |-> FALSE,
                                      invitationsAllowed |-> FALSE],
   inTime |-> TRUE]

UserRow == [email : Emails, deleted : BOOLEAN, role : {"admin", "user"},
            invite : Invites \cup {Absent}]

ASSUME RegistrationAssumption ==
  /\ MaxArrivals \in Nat
  /\ Absent \notin Emails \cup Invites \cup Arrivals \cup UserRow

InviteRow == [status : {"unused", "active", "used", "expired", "deleted"},
              email : Emails \cup {Absent}, lapsed : BOOLEAN,
              usedBy : Arrivals \cup {Absent}]
RegistrationRequest ==
  [stage : {"awaited", "invite", "email", "commit", "done", "refused"},
   email : Emails \cup {Absent}, invite : Invites \cup {Absent},
   secret : BOOLEAN, isBootstrap : BOOLEAN, policy : Policy, inTime : BOOLEAN]

\* Invariant: the tables and the requests have the shapes the schema and the
\* handlers give them.
RegistrationTypeOK ==
  /\ users \in [Arrivals -> UserRow \cup {Absent}]
  /\ bootstrapLock \in Arrivals \cup {Absent}
  /\ consumption \in [Invites -> Arrivals \cup {Absent}]
  /\ policy \in Policy
  /\ invites \in [Invites -> InviteRow]
  /\ registration \in [Arrivals -> RegistrationRequest]

\* A deployment nobody has registered at, with the policy of its variables.
RegistrationInit ==
  /\ users = [n \in Arrivals |-> Absent]
  /\ bootstrapLock = Absent
  /\ consumption = [i \in Invites |-> Absent]
  /\ policy \in Policy
  /\ invites = [i \in Invites |-> [status |-> "unused", email |-> Absent,
                                   lapsed |-> FALSE, usedBy |-> Absent]]
  /\ registration = [n \in Arrivals |-> AwaitedRegistration]

-----------------------------------------------------------------------------
(* The rows registrations look up. *)

\* A deleted account keeps its row and gives up its address.
Registered == {n \in Arrivals : users[n] # Absent}
EmailTaken(e) == \E n \in Registered : users[n].email = e /\ ~users[n].deleted

Administrators ==
  {n \in Registered : users[n].role = "admin" /\ ~users[n].deleted}

Redeemable(i) == invites[i].status = "active" /\ ~invites[i].lapsed

\* What is left of a registration that has been answered.
Concluded(n, stage) ==
  [registration EXCEPT ![n] = [AwaitedRegistration EXCEPT !.stage = stage]]

-----------------------------------------------------------------------------
(* registerAccount, one read after the other. *)

\* One query reads the number of accounts, the bootstrap lock and the policy.
\* (With the lock and no account every registration is refused for good.)
loadRegistrationState(n) ==
  /\ registration[n].stage = "awaited"
  /\ n > 1 => registration[n - 1].stage # "awaited"
  /\ Registered = {} => bootstrapLock = Absent
  /\ \E e \in Emails, secret \in BOOLEAN,
        i \in {Absent} \cup {j \in Invites : invites[j].status # "unused"} :
       registration' = [registration EXCEPT ![n] =
         [stage |-> "invite", email |-> e, invite |-> i,
          secret |-> secret /\ Registered = {}, isBootstrap |-> Registered = {},
          policy |-> policy, inTime |-> TRUE]]
  /\ UNCHANGED <<users, bootstrapLock, consumption, policy, invites>>

\* May the registration go on, with the invite as it is now?
Admissible(n) ==
  LET reg == registration[n]
      invited == reg.invite # Absent
  IN  /\ invited => /\ reg.policy.invitationsAllowed
                    /\ Redeemable(reg.invite)
                    /\ invites[reg.invite].email = reg.email
      /\ IF reg.isBootstrap THEN reg.secret
         ELSE reg.policy.signupsAllowed \/ invited

readInvite(n) ==
  /\ registration[n].stage = "invite"
  /\ registration' = IF Admissible(n)
                       THEN [registration EXCEPT ![n].stage = "email"]
                       ELSE Concluded(n, "refused")
  /\ UNCHANGED <<users, bootstrapLock, consumption, policy, invites>>

\* The address is looked up, and the time the batch will use is taken.
readAddress(n) ==
  LET reg == registration[n]
  IN  /\ reg.stage = "email"
      /\ registration' =
           IF EmailTaken(reg.email) THEN Concluded(n, "refused")
           ELSE [registration EXCEPT
                   ![n].stage = "commit",
                   ![n].inTime = reg.invite # Absent => ~invites[reg.invite].lapsed]
      /\ UNCHANGED <<users, bootstrapLock, consumption, policy, invites>>

\* The invite's consumption lock is taken from a row still good for it.
TakesInvite(n) ==
  LET reg == registration[n]
  IN  /\ reg.invite # Absent
      /\ invites[reg.invite].status = "active"
      /\ reg.inTime
      /\ invites[reg.invite].email = reg.email

\* Deviation: the account's row is inserted whatever became of the invite.
InsertsUserAnyway(n) == TRUE

\* An invited account is selected from the lock's row, so without it there is
\* no account, and the revision's foreign key aborts the batch.
InsertsUser(n) == registration[n].invite # Absent => TakesInvite(n)

\* Deviation: the first account is made without taking the lock.
TakesNoLock(n) == TRUE

\* The bootstrap lock's primary key is free.
TakesBootstrap(n) == registration[n].isBootstrap => bootstrapLock = Absent

BatchCommits(n) ==
  /\ TakesBootstrap(n)
  /\ TakesInvite(n) => consumption[registration[n].invite] = Absent
  /\ InsertsUser(n)
  /\ ~EmailTaken(registration[n].email)

registerAccount(n) ==
  LET reg == registration[n]
  IN  /\ reg.stage = "commit"
      /\ BatchCommits(n)
      /\ users' = [users EXCEPT ![n] =
           [email |-> reg.email, deleted |-> FALSE,
            role |-> IF reg.isBootstrap THEN "admin" ELSE "user",
            invite |-> reg.invite]]
      /\ bootstrapLock' = IF reg.isBootstrap THEN n ELSE bootstrapLock
      /\ IF TakesInvite(n)
           THEN /\ consumption' = [consumption EXCEPT ![reg.invite] = n]
                /\ invites' = [invites EXCEPT ![reg.invite].status = "used",
                                              ![reg.invite].usedBy = n]
           ELSE UNCHANGED <<consumption, invites>>
      /\ registration' = Concluded(n, "done")
      /\ UNCHANGED policy

registrationAborted(n) ==
  /\ registration[n].stage = "commit"
  /\ ~BatchCommits(n)
  /\ registration' = Concluded(n, "refused")
  /\ UNCHANGED <<users, bootstrapLock, consumption, policy, invites>>

-----------------------------------------------------------------------------
(* What an administrator, an account's owner and the clock do meanwhile. *)

createAdminInvite(i) ==
  /\ Administrators # {}
  /\ invites[i].status = "unused"
  /\ \E e \in Emails :
       invites' = [invites EXCEPT ![i] =
         [status |-> "active", email |-> e, lapsed |-> FALSE, usedBy |-> Absent]]
  /\ UNCHANGED <<users, bootstrapLock, consumption, policy, registration>>

InTable(i) == invites[i].status \notin {"unused", "deleted"}

DropInvites(some) ==
  invites' = [i \in Invites |->
    IF i \in some THEN [invites[i] EXCEPT !.status = "deleted"] ELSE invites[i]]

deleteAdminInvite(i) ==
  /\ Administrators # {}
  /\ InTable(i)
  /\ DropInvites({i})
  /\ UNCHANGED <<users, bootstrapLock, consumption, policy, registration>>

\* All of them, or those nobody can redeem.
deleteAdminInvites ==
  /\ Administrators # {}
  /\ \E invalidOnly \in BOOLEAN :
       DropInvites({i \in Invites : InTable(i) /\ (invalidOnly => ~Redeemable(i))})
  /\ UNCHANGED <<users, bootstrapLock, consumption, policy, registration>>

updateAdminRegistrationPolicy ==
  /\ Administrators # {}
  /\ policy' \in Policy
  /\ UNCHANGED <<users, bootstrapLock, consumption, invites, registration>>

deleteAccountData(n) ==
  /\ n \in Registered
  /\ users' = [users EXCEPT ![n].deleted = TRUE]
  /\ UNCHANGED <<bootstrapLock, consumption, policy, invites, registration>>

\* The invite's hours pass.
Lapse(i) ==
  /\ InTable(i)
  /\ invites' = [invites EXCEPT ![i].lapsed = TRUE]
  /\ UNCHANGED <<users, bootstrapLock, consumption, policy, registration>>

expireInvites ==
  /\ invites' = [i \in Invites |->
       IF invites[i].status = "active" /\ invites[i].lapsed
         THEN [invites[i] EXCEPT !.status = "expired"] ELSE invites[i]]
  /\ UNCHANGED <<users, bootstrapLock, consumption, policy, registration>>

RegistrationNext ==
  \/ \E n \in Arrivals : \/ loadRegistrationState(n) \/ readInvite(n)
                         \/ readAddress(n) \/ registerAccount(n)
                         \/ registrationAborted(n) \/ deleteAccountData(n)
  \/ \E i \in Invites : createAdminInvite(i) \/ deleteAdminInvite(i) \/ Lapse(i)
  \/ deleteAdminInvites
  \/ updateAdminRegistrationPolicy
  \/ expireInvites

RegistrationSpec == RegistrationInit /\ [][RegistrationNext]_registrationVars

-----------------------------------------------------------------------------
(* Properties. *)

\* Invariant: each lock names exactly whom it admitted.  However many
\* registrations found the deployment empty, the bootstrap made one account
\* an administrator; however many found an invite good, it made one account,
\* for its own address (registerAccount, BOOTSTRAP_LOCK_KEY,
\* inviteConsumptionLockKey).
LocksNameTheAdmitted ==
  /\ {n \in Registered : users[n].role = "admin"} =
       (IF bootstrapLock = Absent THEN {} ELSE {bootstrapLock})
  /\ \A i \in Invites :
       LET by == consumption[i]
       IN  /\ {n \in Registered : users[n].invite = i} =
                (IF by = Absent THEN {} ELSE {by})
           /\ by # Absent => users[by].email = invites[i].email
           /\ invites[i].status = "used" => by # Absent /\ invites[i].usedBy = by

\* Action property: no account is made with an invite that was deleted, used
\* or closed in the meantime, although it was good when it was read.
RevokedInvitesAdmitNobody ==
  [][\A n \in Arrivals :
       users[n] = Absent /\ users'[n] # Absent /\ users'[n].invite # Absent
         => invites[users'[n].invite].status = "active"]_registrationVars
=============================================================================
