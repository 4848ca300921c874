--------------------------- MODULE Organizations ---------------------------
(***************************************************************************)
(* One organization: its members and their roles, its collections, who may *)
(* use them, the shared items filed in them, and the accounts all of this  *)
(* hangs on.  A request reads in its middleware and its handler, each read *)
(* of its own, and then commits one D1 batch, whose statements test again  *)
(* what the handler read: rows carry the token of the request that wrote   *)
(* them last, and a request's own name stands for every fresh token and id *)
(* it makes.                                                               *)
(***************************************************************************)
EXTENDS Naturals, FiniteSets

CONSTANTS Users, Collections, Items, Requests,
          Owner,   \* the user who created the organization
          First,   \* the collection it was created with
          Kinds,   \* the kinds of request this instance has
          Offers,  \* the roles and grants its requests give
          None     \* SQL NULL, or no row

VARIABLES
  accounts,    \* users: "active", "banned" or "deleted"
  founded,     \* the users who own a further organization
  org,         \* the organizations row
  members,     \* org_members: each user's row
  collections, \* collections: each one's row; ids are used once
  access,      \* collection_members: what a user's row may do with each one
  links,       \* cipher_collections: where each shared item is filed
  fences,      \* ciphers: each shared item's mutation token
  request,     \* the requests in flight
  told,        \* the users whose revision the last step advanced
  emptied      \* history: items some request asked to take out of every
               \* collection

vars == <<accounts, founded, org, members, collections, access, links, fences,
          request, told, emptied>>

Tokens == Requests \cup {None}
Roles == {"owner", "admin", "manager", "member"}
Grant == {"none", "read", "write"}
NoGrants == [c \in Collections |-> "none"]
Unfiled == [i \in Items |-> {}]

MemberRow == [id : Tokens, role : Roles, all : BOOLEAN, token : Tokens]

ASSUME OrganizationAssumption ==
  /\ Owner \in Users
  /\ First \in Collections
  /\ None \notin Users \cup Collections \cup Requests \cup MemberRow
  /\ Offers \subseteq [role : {"admin", "manager", "member"}, all : BOOLEAN,
                      grants : [Collections -> {"none", "read", "write"}]]

\* "unused" is an id no row has had yet.
CollectionRow == [state : {"unused", "live", "deleted"}, token : Tokens]

RequestRow ==
  [stage : {"idle", "member", "read", "filed", "done", "refused"},
   kind : Kinds \cup {"none"}, user : Users \cup {None},
   actor : MemberRow \cup {None}, target : Users \cup Collections \cup {None},
   seen : Tokens, role : Roles, all : BOOLEAN, grants : [Collections -> Grant],
   items : SUBSET Items, chosen : SUBSET Collections,
   fences : [Items -> Tokens], filed : [Items -> SUBSET Collections]]

MemberKinds == {"invite", "update", "remove"}
CollectionKinds == {"addCollection", "renameCollection", "deleteCollection"}
OwnerKinds == {"rename", "dissolve"}
LinkKinds == {"setLinks", "addLinks", "removeLinks"}

Blank == [stage |-> "idle", kind |-> "none", user |-> None, actor |-> None,
          target |-> None, seen |-> None, role |-> "member", all |-> TRUE,
          grants |-> NoGrants, items |-> {}, chosen |-> {},
          fences |-> [i \in Items |-> None], filed |-> Unfiled]

\* Invariant: the rows and the requests have the shapes the schema and the
\* handlers give them.
TypeOK ==
  /\ accounts \in [Users -> {"active", "banned", "deleted"}]
  /\ founded \subseteq Users
  /\ org \in [live : BOOLEAN, token : Tokens]
  /\ members \in [Users -> MemberRow \cup {None}]
  /\ collections \in [Collections -> CollectionRow]
  /\ access \in [Users -> [Collections -> Grant]]
  /\ links \in [Items -> SUBSET Collections]
  /\ fences \in [Items -> Tokens]
  /\ request \in [Requests -> RequestRow]
  /\ told \subseteq Users
  /\ emptied \subseteq Items

-----------------------------------------------------------------------------
(* What the statements test. *)

ROLE_LEVEL == [member |-> 0, manager |-> 1, admin |-> 2, owner |-> 3]
canManageRole(actor, role) == ROLE_LEVEL[actor] > ROLE_LEVEL[role]
canManageOrganizationMembers(role) == role \in {"owner", "admin"}
canManageOrganizationCollections(m) ==
  canManageOrganizationMembers(m.role) \/ (m.role = "manager" /\ m.all)

Live == {c \in Collections : collections[c].state = "live"}
Granted(grants) == {c \in Collections : grants[c] # "none"}
ConfirmedMembers == {u \in Users : members[u] # None}

\* Deviation: the statement trusts the actor's row as the middleware read it.
ActorTrusted(r) == TRUE

\* The actor's row is still the one the middleware read.
ActorHolds(r) ==
  LET now == members[request[r].user]
  IN  /\ now # None
      /\ now.id = request[r].actor.id
      /\ now.role = request[r].actor.role
      /\ now.token = request[r].actor.token

\* A restricted member needs a collection, and every one must exist.
validateCollectionAccess(all, grants) ==
  IF all THEN grants = NoGrants
  ELSE Granted(grants) # {} /\ Granted(grants) \subseteq Live

\* The organization as it was created, with members added in whatever way,
\* and with items in its first collection.
Init ==
  /\ accounts = [u \in Users |-> "active"]
  /\ founded = {}
  /\ org = [live |-> TRUE, token |-> None]
  /\ collections = [c \in Collections |->
       [state |-> IF c = First THEN "live" ELSE "unused", token |-> None]]
  /\ \E offer \in [Users \ {Owner} -> Offers \cup {None}] :
       /\ \A u \in Users \ {Owner} :
            offer[u] # None => Granted(offer[u].grants) \subseteq {First}
       /\ members = [u \in Users |->
            IF u = Owner
              THEN [id |-> None, role |-> "owner", all |-> TRUE, token |-> None]
            ELSE IF offer[u] = None THEN None
            ELSE [id |-> None, role |-> offer[u].role, all |-> offer[u].all,
                  token |-> None]]
       /\ access = [u \in Users |->
            IF u = Owner THEN NoGrants
            ELSE IF offer[u] = None THEN NoGrants ELSE offer[u].grants]
  /\ links = [i \in Items |-> {First}]
  /\ fences = [i \in Items |-> None]
  /\ request = [r \in Requests |-> Blank]
  /\ told = {}
  /\ emptied = {}

-----------------------------------------------------------------------------
(* How a request begins: the authentication and resource middleware. *)

Begin(r, u, kind, stage) ==
  [Blank EXCEPT !.stage = stage, !.kind = kind, !.user = u,
                !.actor = members[u]]

Rows == <<accounts, founded, org, members, collections, access, links, fences>>
Reads == UNCHANGED <<Rows, emptied>> /\ told' = {}

\* What a finished request granted is remembered, for the properties.
Done(r) == [request EXCEPT ![r] =
              [Blank EXCEPT !.stage = "done", !.grants = request[r].grants]]

Refused(r) == [request EXCEPT ![r] = [Blank EXCEPT !.stage = "refused"]]
Refuse(r) == request' = Refused(r) /\ Reads

requireOrgMember(r, u, kind) ==
  /\ request[r].stage = "idle"
  /\ kind \in Kinds \cap (MemberKinds \cup CollectionKinds \cup OwnerKinds)
  /\ accounts[u] = "active" /\ members[u] # None /\ org.live
  /\ kind \in MemberKinds => canManageOrganizationMembers(members[u].role)
  /\ kind \in CollectionKinds => canManageOrganizationCollections(members[u])
  /\ kind \in OwnerKinds => members[u].role = "owner"
  /\ request' = [request EXCEPT ![r] = Begin(r, u, kind, "member")]
  /\ Reads

-----------------------------------------------------------------------------
(* Members. *)

\* What an invitation reads: the roles, the collections, the invitee.
readInvitee(r, t, role, all, grants) ==
  /\ request[r].stage = "member" /\ request[r].kind = "invite"
  /\ canManageRole(request[r].actor.role, role)
  /\ validateCollectionAccess(all, grants)
  /\ accounts[t] = "active"
  /\ request' = [request EXCEPT
       ![r].stage = "read", ![r].target = t, ![r].role = role,
       ![r].all = all, ![r].grants = grants]
  /\ Reads

\* Deviation: the statement does not test the invitee's account.
InvitableBlind(r) ==
  /\ ActorHolds(r)
  /\ members[request[r].target] = None
  /\ Granted(request[r].grants) \subseteq Live

Invitable(r) ==
  /\ accounts[request[r].target] = "active"
  /\ ActorHolds(r)
  /\ members[request[r].target] = None
  /\ Granted(request[r].grants) \subseteq Live

inviteOrganizationMember(r) ==
  LET t == request[r].target
  IN  /\ request[r].stage = "read" /\ request[r].kind = "invite"
      /\ \/ ~Invitable(r) /\ Refuse(r)
         \/ /\ Invitable(r)
            /\ members' = [members EXCEPT ![t] =
                 [id |-> r, role |-> request[r].role, all |-> request[r].all,
                  token |-> r]]
            /\ access' = [access EXCEPT ![t] = request[r].grants]
            /\ told' = {t, request[r].user}
            /\ request' = Done(r)
            /\ UNCHANGED <<accounts, founded, org, collections, links, fences,
                           emptied>>

\* What a change of a member reads: the member's row, the collections.
readMember(r, t, role, all, grants) ==
  /\ request[r].stage = "member" /\ request[r].kind = "update"
  /\ members[t] # None
  /\ canManageRole(request[r].actor.role, members[t].role)
  /\ canManageRole(request[r].actor.role, role)
  /\ validateCollectionAccess(all, grants)
  /\ request' = [request EXCEPT
       ![r].stage = "read", ![r].target = t, ![r].seen = members[t].token,
       ![r].role = role, ![r].all = all, ![r].grants = grants]
  /\ Reads

\* The member's row is still the one the handler read.
TargetHolds(r) ==
  /\ members[request[r].target] # None
  /\ members[request[r].target].token = request[r].seen

Updatable(r) ==
  TargetHolds(r) /\ ActorHolds(r) /\ Granted(request[r].grants) \subseteq Live

\* Deviation: the member's collections are replaced even if the update of the
\* row did not go through.
updateOrganizationMemberUnfenced(r) ==
  LET t == request[r].target
  IN  /\ request[r].stage = "read" /\ request[r].kind = "update"
      /\ IF Updatable(r)
           THEN members' = [members EXCEPT ![t].role = request[r].role,
                                           ![t].all = request[r].all,
                                           ![t].token = r]
           ELSE UNCHANGED members
      /\ access' = [access EXCEPT ![t] = request[r].grants]
      /\ told' = {t}
      /\ request' = Done(r)
      /\ UNCHANGED <<accounts, founded, org, collections, links, fences,
                     emptied>>

updateOrganizationMember(r) ==
  LET t == request[r].target
  IN  /\ request[r].stage = "read" /\ request[r].kind = "update"
      /\ \/ ~Updatable(r) /\ Refuse(r)
         \/ /\ Updatable(r)
            /\ members' = [members EXCEPT ![t].role = request[r].role,
                                          ![t].all = request[r].all,
                                          ![t].token = r]
            /\ access' = [access EXCEPT ![t] = request[r].grants]
            /\ told' = {t}
            /\ request' = Done(r)
            /\ UNCHANGED <<accounts, founded, org, collections, links, fences,
                           emptied>>

readLeaver(r, t) ==
  /\ request[r].stage = "member" /\ request[r].kind = "remove"
  /\ members[t] # None
  /\ canManageRole(request[r].actor.role, members[t].role)
  /\ request' = [request EXCEPT
       ![r].stage = "read", ![r].target = t, ![r].seen = members[t].token]
  /\ Reads

\* Deviation: the revision is advanced after the row is gone, for nobody.
removeOrganizationMemberUntold(r) ==
  LET t == request[r].target
  IN  /\ request[r].stage = "read" /\ request[r].kind = "remove"
      /\ TargetHolds(r) /\ ActorHolds(r)
      /\ members' = [members EXCEPT ![t] = None]
      /\ access' = [access EXCEPT ![t] = NoGrants]
      /\ told' = {}
      /\ request' = Done(r)
      /\ UNCHANGED <<accounts, founded, org, collections, links, fences,
                     emptied>>

\* The member is told while the row still names it; the row's deletion takes
\* its access with it.
removeOrganizationMember(r) ==
  LET t == request[r].target
  IN  /\ request[r].stage = "read" /\ request[r].kind = "remove"
      /\ \/ ~(TargetHolds(r) /\ ActorHolds(r)) /\ Refuse(r)
         \/ /\ TargetHolds(r) /\ ActorHolds(r)
            /\ members' = [members EXCEPT ![t] = None]
            /\ access' = [access EXCEPT ![t] = NoGrants]
            /\ told' = {t}
            /\ request' = Done(r)
            /\ UNCHANGED <<accounts, founded, org, collections, links, fences,
                           emptied>>

-----------------------------------------------------------------------------
(* Collections and the organization itself. *)

createCollection(r, c) ==
  /\ request[r].stage = "member" /\ request[r].kind = "addCollection"
  /\ collections[c].state = "unused"
  /\ collections' = [collections EXCEPT ![c].state = "live"]
  /\ told' = ConfirmedMembers
  /\ request' = Done(r)
  /\ UNCHANGED <<accounts, founded, org, members, access, links, fences,
                 emptied>>

requireCollection(r, c) ==
  /\ request[r].stage = "member"
  /\ request[r].kind \in {"renameCollection", "deleteCollection"}
  /\ c \in Live
  /\ request' = [request EXCEPT ![r].stage = "read", ![r].target = c,
                                ![r].seen = collections[c].token]
  /\ Reads

CollectionHolds(r) ==
  /\ request[r].target \in Live
  /\ collections[request[r].target].token = request[r].seen

updateCollection(r) ==
  /\ request[r].stage = "read" /\ request[r].kind = "renameCollection"
  /\ \/ ~CollectionHolds(r) /\ Refuse(r)
     \/ /\ CollectionHolds(r)
        /\ collections' = [collections EXCEPT ![request[r].target].token = r]
        /\ told' = ConfirmedMembers
        /\ request' = Done(r)
        /\ UNCHANGED <<accounts, founded, org, members, access, links, fences,
                       emptied>>

\* Deviation: items filed nowhere else do not keep a collection.
CollectionDeletableAlways(r) == CollectionHolds(r)

\* No item is filed in this collection alone.
CollectionDeletable(r) ==
  CollectionHolds(r) /\ \A i \in Items : links[i] # {request[r].target}

\* The deletion takes the links and the members' access with it.
deleteCollection(r) ==
  LET c == request[r].target
  IN  /\ request[r].stage = "read" /\ request[r].kind = "deleteCollection"
      /\ \/ ~CollectionDeletable(r) /\ Refuse(r)
         \/ /\ CollectionDeletable(r)
            /\ collections' = [collections EXCEPT ![c].state = "deleted"]
            /\ links' = [i \in Items |-> links[i] \ {c}]
            /\ access' = [u \in Users |-> [access[u] EXCEPT ![c] = "none"]]
            /\ told' = ConfirmedMembers
            /\ request' = Done(r)
            /\ UNCHANGED <<accounts, founded, org, members, fences, emptied>>

readOrganization(r) ==
  /\ request[r].stage = "member" /\ request[r].kind \in OwnerKinds
  /\ org.live
  /\ request' = [request EXCEPT ![r].stage = "read", ![r].seen = org.token]
  /\ Reads

OrganizationHolds(r) ==
  org.live /\ org.token = request[r].seen /\ ActorHolds(r)

updateOrganization(r) ==
  /\ request[r].stage = "read" /\ request[r].kind = "rename"
  /\ \/ ~OrganizationHolds(r) /\ Refuse(r)
     \/ /\ OrganizationHolds(r)
        /\ org' = [org EXCEPT !.token = r]
        /\ told' = ConfirmedMembers
        /\ request' = Done(r)
        /\ UNCHANGED <<accounts, founded, members, collections, access, links,
                       fences, emptied>>

\* The tombstone: the items go with it, under the deletion's token.
deleteOrganization(r) ==
  /\ request[r].stage = "read" /\ request[r].kind = "dissolve"
  /\ \/ ~OrganizationHolds(r) /\ Refuse(r)
     \/ /\ OrganizationHolds(r)
        /\ org' = [live |-> FALSE, token |-> r]
        /\ fences' = [i \in Items |-> r]
        /\ told' = ConfirmedMembers
        /\ request' = Done(r)
        /\ UNCHANGED <<accounts, founded, members, collections, access, links,
                       emptied>>

-----------------------------------------------------------------------------
(* Where the shared items are filed. *)

\* Rows of this member: a member invited again has another id.
AccessOf(u, m) ==
  IF members[u] # None /\ members[u].id = m.id THEN access[u] ELSE NoGrants

Writable(u, m) == {c \in Collections : AccessOf(u, m)[c] = "write"}

\* One item is opened and found writable.
requireCipherWrite(r, u, i, chosen) ==
  /\ request[r].stage = "idle" /\ "setLinks" \in Kinds
  /\ accounts[u] = "active" /\ members[u] # None /\ org.live
  /\ members[u].all \/ links[i] \cap Writable(u, members[u]) # {}
  /\ request' = [request EXCEPT ![r] =
       [Begin(r, u, "setLinks", "member") EXCEPT
          !.items = {i}, !.chosen = chosen, !.fences[i] = fences[i]]]
  /\ Reads

\* Several are named together with collections the member may write to.
validateOrganizationCollections(r, u, kind, items, chosen) ==
  /\ request[r].stage = "idle" /\ kind \in Kinds \cap {"addLinks", "removeLinks"}
  /\ accounts[u] = "active" /\ members[u] # None /\ org.live
  /\ items # {} /\ chosen # {} /\ chosen \subseteq Live
  /\ members[u].all \/ chosen \subseteq Writable(u, members[u])
  /\ request' = [request EXCEPT ![r] =
       [Begin(r, u, kind, "member") EXCEPT
          !.items = items, !.chosen = chosen,
          !.fences = [i \in Items |-> IF i \in items THEN fences[i] ELSE None]]]
  /\ Reads

readLinks(r) ==
  /\ request[r].stage = "member" /\ request[r].kind \in LinkKinds
  /\ request' = [request EXCEPT ![r].stage = "read",
       ![r].filed = [i \in Items |->
                       IF i \in request[r].items THEN links[i] ELSE {}]]
  /\ Reads

Wanted(r, i) ==
  CASE request[r].kind = "setLinks" -> request[r].chosen
    [] request[r].kind = "addLinks" -> request[r].filed[i] \cup request[r].chosen
    [] request[r].kind = "removeLinks" -> request[r].filed[i] \ request[r].chosen

\* The member may only change assignments it can write; the others stay.
ResolvableFor(r, i) ==
  LET writable == Writable(request[r].user, request[r].actor)
      filed == request[r].filed[i]
  IN  /\ Wanted(r, i) \subseteq Live
      /\ request[r].actor.all \/ /\ filed \cap writable # {}
                                 /\ Wanted(r, i) \ filed \subseteq writable

ResolvedFor(r, i) ==
  LET writable == Writable(request[r].user, request[r].actor)
  IN  IF request[r].actor.all THEN Wanted(r, i)
      ELSE (request[r].filed[i] \ writable) \cup (Wanted(r, i) \cap writable)

resolveOrganizationCipherCollectionsForUpdate(r) ==
  /\ request[r].stage = "read" /\ request[r].kind \in LinkKinds
  /\ \/ /\ \E i \in request[r].items : ~ResolvableFor(r, i)
        /\ Refuse(r)
     \/ /\ \A i \in request[r].items : ResolvableFor(r, i)
        /\ request' = [request EXCEPT ![r].stage = "filed",
             ![r].filed = [i \in Items |->
               IF i \in request[r].items THEN ResolvedFor(r, i) ELSE {}]]
        /\ Reads

\* Every item is still as it was read, and every collection still exists: a
\* link to a deleted one breaks a foreign key and the batch with it.
Refilable(r) ==
  \A i \in request[r].items :
    /\ fences[i] = request[r].fences[i]
    /\ request[r].filed[i] \subseteq Live

updateCollections(r) ==
  LET moved == request[r].items
  IN  /\ request[r].stage = "filed"
      /\ \/ ~Refilable(r) /\ Refuse(r)
         \/ /\ Refilable(r)
            /\ links' = [i \in Items |->
                 IF i \in moved THEN request[r].filed[i] ELSE links[i]]
            /\ fences' = [i \in Items |-> IF i \in moved THEN r ELSE fences[i]]
            /\ emptied' = (emptied \ moved)
                 \cup {i \in moved : request[r].filed[i] = {}}
            /\ told' = ConfirmedMembers
            /\ request' = Done(r)
            /\ UNCHANGED <<accounts, founded, org, members, collections,
                           access>>

-----------------------------------------------------------------------------
(* Accounts. *)

authenticateFounder(r, u) ==
  /\ request[r].stage = "idle" /\ "found" \in Kinds
  /\ accounts[u] = "active"
  /\ request' = [request EXCEPT ![r] = [Blank EXCEPT
                   !.stage = "member", !.kind = "found", !.user = u]]
  /\ Reads

\* Nothing in the batch tests the account again.
createOrganization(r) ==
  /\ request[r].stage = "member" /\ request[r].kind = "found"
  /\ founded' = founded \cup {request[r].user}
  /\ told' = {request[r].user}
  /\ request' = Done(r)
  /\ UNCHANGED <<accounts, org, members, collections, access, links, fences,
                 emptied>>

\* Deviation: a status the schema does not have.
OtherStatusDisabled(status) == IF status = "active" THEN "disabled" ELSE "active"

OtherStatus(status) == IF status = "active" THEN "banned" ELSE "active"

setAdminUserStatus(u) ==
  /\ accounts[u] # "deleted"
  /\ accounts' = [accounts EXCEPT ![u] = OtherStatus(@)]
  /\ told' = {}
  /\ UNCHANGED <<founded, org, members, collections, access, links, fences,
                 request, emptied>>

Owns(u) == u \in founded \/ (members[u] # None /\ members[u].role = "owner")

deleteAccountData(u) ==
  /\ accounts[u] # "deleted" /\ ~Owns(u)
  /\ accounts' = [accounts EXCEPT ![u] = "deleted"]
  /\ members' = [members EXCEPT ![u] = None]
  /\ access' = [access EXCEPT ![u] = NoGrants]
  /\ told' = {}
  /\ UNCHANGED <<founded, org, collections, links, fences, request, emptied>>

-----------------------------------------------------------------------------
Next ==
  \/ \E r \in Requests, u \in Users, kind \in Kinds :
       requireOrgMember(r, u, kind)
  \/ \E r \in Requests, t \in Users, offer \in Offers :
       \/ readInvitee(r, t, offer.role, offer.all, offer.grants)
       \/ readMember(r, t, offer.role, offer.all, offer.grants)
  \/ \E r \in Requests, t \in Users : readLeaver(r, t)
  \/ \E r \in Requests, c \in Collections :
       createCollection(r, c) \/ requireCollection(r, c)
  \/ \E r \in Requests, u \in Users, i \in Items, chosen \in SUBSET Collections :
       requireCipherWrite(r, u, i, chosen)
  \/ \E r \in Requests, u \in Users, kind \in LinkKinds,
        items \in SUBSET Items, chosen \in SUBSET Collections :
       validateOrganizationCollections(r, u, kind, items, chosen)
  \/ \E r \in Requests :
       \/ inviteOrganizationMember(r)
       \/ updateOrganizationMember(r)
       \/ removeOrganizationMember(r)
       \/ updateCollection(r)
       \/ deleteCollection(r)
       \/ readOrganization(r)
       \/ updateOrganization(r)
       \/ deleteOrganization(r)
       \/ readLinks(r)
       \/ resolveOrganizationCipherCollectionsForUpdate(r)
       \/ updateCollections(r)
       \/ createOrganization(r)
  \/ \E r \in Requests, u \in Users : authenticateFounder(r, u)
  \/ \E u \in Users : setAdminUserStatus(u)
  \/ \E u \in Users : deleteAccountData(u)

Spec == Init /\ [][Next]_vars

-----------------------------------------------------------------------------
(* Properties. *)

\* What a synchronization answers a user about organizations.
Visible(u) ==
  IF members[u].all THEN Live ELSE Granted(access[u])

View(u) ==
  [founded |-> u \in founded,
   shared |->
     IF members[u] = None \/ ~org.live THEN None
     ELSE [name |-> org.token, role |-> members[u].role,
           collections |-> [c \in Visible(u) |->
             <<collections[c].token, access[u][c]>>],
           items |-> [i \in {j \in Items : members[u].all
                                             \/ links[j] \cap Visible(u) # {}}
                        |-> links[i] \cap Visible(u)]]]

\* Whatever changes what a live account's next synchronization would answer
\* also advances that account's revision, in the same batch: a member removed
\* or cut off is told while the rows that say whom to tell still exist.
ChangesAreTold ==
  [][\A u \in Users :
       View(u)' # View(u) /\ accounts'[u] # "deleted" => u \in told']_vars

\* A member's row is changed only by someone who, at that very moment, is a
\* member ranking above what the row was and what it becomes; otherwise it
\* only goes with its account.
OnlyHigherRolesManage ==
  [][\A u \in Users : members'[u] # members[u] =>
       \/ accounts'[u] = "deleted"
       \/ \E r \in Requests :
            LET a == request[r].user
            IN  /\ request'[r].stage = "done" /\ request[r].stage # "done"
                /\ a # None /\ members[a] # None
                /\ \A m \in {members[u], members'[u]} \ {None} :
                     canManageRole(members[a].role, m.role)]_vars

\* A member's access is what the last request that changed the member
\* granted, as far as the collections still exist: never a mixture of two.
GrantsAreWhole ==
  \A u \in Users, r \in Requests :
    members[u] # None /\ members[u].token = r =>
      \A c \in Collections :
        access[u][c] = IF c \in Live THEN request[r].grants[c] ELSE "none"

\* A deleted account is nobody's member. (It may still own an organization of
\* its own, created by a request under way when it was deleted.)
DeletedAccountsBelongNowhere ==
  \A u \in Users : accounts[u] = "deleted" => members[u] = None

\* An item is filed nowhere only because a member asked for just that: no
\* deletion of a collection, at any point of the requests that file items,
\* takes an item's last collection away.
LinkedItemsStayLinked ==
  \A i \in Items : i \notin emptied => links[i] # {}
=============================================================================
