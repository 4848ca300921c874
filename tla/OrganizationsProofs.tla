------------------------ MODULE OrganizationsProofs ------------------------
(***************************************************************************)
(* What is proved of Organizations, for any number of users, collections,  *)
(* items and requests: its types, that grants are whole, that deleted      *)
(* accounts belong nowhere, that items stay linked, that only those        *)
(* ranking higher manage members, and that whose view changes is told.     *)
(*                                                                         *)
(* The argument is about tokens.  A request writes its own into the rows   *)
(* it changes, and is over with that (Settled).  So a row that has the     *)
(* token it was read with is the row that was read, and what its handler   *)
(* found out about its role still holds (RequestsKnow); and a row that has *)
(* a request's token has that request's grants (GrantsAreWhole), on        *)
(* collections that existed (GrantsExist).                                 *)
(***************************************************************************)
EXTENDS Organizations, TLAPS

Settled ==
  \A u \in Users : members[u] # None /\ members[u].token # None =>
    request[members[u].token].stage = "done"

\* What a request on members has found out, of itself and of the member.
Knows(x) ==
  /\ x.stage = "member" /\ x.kind = "found" => x.user \in Users
  /\ x.stage = "member" /\ x.kind \in MemberKinds => x.user \in Users /\ x.actor \in MemberRow
  /\ x.stage = "read" /\ x.kind \in MemberKinds =>
       /\ x.user \in Users /\ x.actor \in MemberRow /\ x.target \in Users
       /\ x.kind # "remove" => canManageRole(x.actor.role, x.role)
       /\ x.kind # "invite" =>
            /\ x.seen # None => request[x.seen].stage = "done"
            /\ members[x.target] # None /\ members[x.target].token = x.seen =>
                 canManageRole(x.actor.role, members[x.target].role)

RequestsKnow == \A r \in Requests : Knows(request[r])

GrantsExist ==
  \A u \in Users, r \in Requests :
    members[u] # None /\ members[u].token = r =>
      \A c \in Granted(request[r].grants) : collections[c].state # "unused"

OrgInv ==
  /\ TypeOK /\ Settled /\ RequestsKnow /\ GrantsAreWhole /\ GrantsExist
  /\ DeletedAccountsBelongNowhere /\ LinkedItemsStayLinked

-----------------------------------------------------------------------------

LEMMA NoneIsNothing ==
  /\ \A r \in Requests : r # None
  /\ \A u \in Users : u # None
  /\ \A m \in MemberRow : m # None
BY OrganizationAssumption

LEMMA BlankIsARequest ==
  /\ Blank \in RequestRow
  /\ Blank.stage = "idle"
  /\ NoGrants \in [Collections -> Grant]
BY DEF Blank, RequestRow, Tokens, Roles, NoGrants, Grant, Unfiled

LEMMA OrgInvInit == Init => OrgInv
<1>. SUFFICES ASSUME Init PROVE OrgInv
  OBVIOUS
<1>. PICK offer \in [Users \ {Owner} -> Offers \cup {None}] :
       /\ members = [u \in Users |->
            IF u = Owner
              THEN [id |-> None, role |-> "owner", all |-> TRUE, token |-> None]
            ELSE IF offer[u] = None THEN None
            ELSE [id |-> None, role |-> offer[u].role, all |-> offer[u].all,
                  token |-> None]]
       /\ access = [u \in Users |->
            IF u = Owner THEN NoGrants
            ELSE IF offer[u] = None THEN NoGrants ELSE offer[u].grants]
  BY DEF Init
<1>1. \A u \in Users : members[u] # None => members[u] \in MemberRow /\ members[u].token = None
  <2>. TAKE u \in Users
  <2>1. CASE u = Owner
    BY <2>1 DEF MemberRow, Tokens, Roles
  <2>2. CASE u # Owner /\ offer[u] # None
    <3>1. offer[u] \in Offers
      BY <2>2
    <3>2. offer[u].role \in Roles /\ offer[u].all \in BOOLEAN
      BY <3>1, OrganizationAssumption DEF Roles
    <3>3. members[u] = [id |-> None, role |-> offer[u].role, all |-> offer[u].all,
                        token |-> None]
      BY <2>2
    <3>. QED  BY <3>2, <3>3 DEF MemberRow, Tokens
  <2>. QED  BY <2>1, <2>2
<1>2. members \in [Users -> MemberRow \cup {None}]
  BY <1>1
<1>3. access \in [Users -> [Collections -> Grant]]
  <2>1. \A u \in Users \ {Owner} : offer[u] # None => offer[u].grants \in [Collections -> Grant]
    BY OrganizationAssumption DEF Grant
  <2>. QED  BY <2>1, BlankIsARequest
<1>4. TypeOK
  BY <1>2, <1>3, BlankIsARequest, OrganizationAssumption
     DEF Init, TypeOK, CollectionRow, Tokens
<1>5. Settled /\ GrantsAreWhole /\ GrantsExist
  BY <1>1, NoneIsNothing DEF Settled, GrantsAreWhole, GrantsExist
<1>6. RequestsKnow
  BY BlankIsARequest DEF Init, RequestsKnow, Knows
<1>7. DeletedAccountsBelongNowhere /\ LinkedItemsStayLinked
  BY DEF Init, DeletedAccountsBelongNowhere, LinkedItemsStayLinked
<1>. QED  BY <1>4, <1>5, <1>6, <1>7 DEF OrgInv

-----------------------------------------------------------------------------
(* How a request goes on and ends. *)

LEMMA RequestMoves ==
  ASSUME TypeOK, NEW r \in Requests, NEW x \in RequestRow,
         request' = [request EXCEPT ![r] = x]
  PROVE  /\ request' \in [Requests -> RequestRow]
         /\ request'[r] = x
         /\ \A q \in Requests : q # r => request'[q] = request[q]
BY DEF TypeOK

LEMMA DoneMoves ==
  ASSUME TypeOK, NEW r \in Requests, request' = Done(r)
  PROVE  /\ request' \in [Requests -> RequestRow]
         /\ request'[r].stage = "done" /\ request'[r].grants = request[r].grants
         /\ \A q \in Requests : q # r => request'[q] = request[q]
<1> DEFINE x == [Blank EXCEPT !.stage = "done", !.grants = request[r].grants]
<1>1. request[r].grants \in [Collections -> Grant]
  BY DEF TypeOK, RequestRow
<1>2. x \in RequestRow /\ x.stage = "done" /\ x.grants = request[r].grants
  BY <1>1, BlankIsARequest DEF RequestRow
<1>. HIDE DEF x
<1>3. request' = [request EXCEPT ![r] = x]
  BY DEF Done, x
<1>. QED  BY <1>2, <1>3, RequestMoves

\* A read: nothing but the request changes.
LEMMA ReadKeepsInv ==
  ASSUME OrgInv, NEW r \in Requests, NEW x \in RequestRow,
         request' = [request EXCEPT ![r] = x], Reads,
         request[r].stage # "done", x.stage # "done", Knows(x)
  PROVE  OrgInv'
<1>. USE DEF OrgInv
<1>1. /\ request' \in [Requests -> RequestRow]
      /\ request'[r] = x
      /\ \A q \in Requests : q # r => request'[q] = request[q]
  BY RequestMoves
<1>2. \A q \in Requests : request[q].stage = "done" =>
        request'[q].stage = "done" /\ request'[q].grants = request[q].grants
  BY <1>1
<1>3. TypeOK'
  BY <1>1 DEF TypeOK, Reads, Rows
<1>4. Settled'
  BY <1>2 DEF Settled, Reads, Rows, TypeOK, MemberRow, Tokens
<1>5. RequestsKnow'
  <2>1. ASSUME NEW y \in RequestRow, Knows(y)
        PROVE  /\ y.stage = "member" /\ y.kind = "found" => y.user \in Users
               /\ y.stage = "member" /\ y.kind \in MemberKinds =>
                    y.user \in Users /\ y.actor \in MemberRow
               /\ y.stage = "read" /\ y.kind \in MemberKinds =>
                 /\ y.user \in Users /\ y.actor \in MemberRow /\ y.target \in Users
                 /\ y.kind # "remove" => canManageRole(y.actor.role, y.role)
                 /\ y.kind # "invite" =>
                      /\ y.seen # None => request'[y.seen].stage = "done"
                      /\ members'[y.target] # None /\ members'[y.target].token = y.seen =>
                           canManageRole(y.actor.role, members'[y.target].role)
    <3>1. y.seen # None => y.seen \in Requests
      BY DEF RequestRow, Tokens
    <3>. QED  BY <1>2, <2>1, <3>1 DEF Knows, Reads, Rows
  <2>2. \A q \in Requests : request'[q] \in RequestRow /\ Knows(request'[q])
    BY <1>1 DEF RequestsKnow
  <2>. QED  BY <2>1, <2>2 DEF RequestsKnow, Knows
<1>6. GrantsAreWhole' /\ GrantsExist'
  <2>1. \A u \in Users, q \in Requests : members[u] # None /\ members[u].token = q =>
          request'[q].grants = request[q].grants
    BY <1>2, NoneIsNothing DEF Settled
  <2>. QED  BY <2>1 DEF GrantsAreWhole, GrantsExist, Granted, Live, Reads, Rows
<1>7. DeletedAccountsBelongNowhere' /\ LinkedItemsStayLinked'
  BY DEF DeletedAccountsBelongNowhere, LinkedItemsStayLinked, Reads, Rows
<1>. QED  BY <1>3, <1>4, <1>5, <1>6, <1>7

LEMMA RefuseKeepsInv ==
  ASSUME OrgInv, NEW r \in Requests, Refuse(r), request[r].stage # "done"
  PROVE  OrgInv'
<1> DEFINE x == [Blank EXCEPT !.stage = "refused"]
<1>1. x \in RequestRow /\ x.stage = "refused"
  BY BlankIsARequest DEF RequestRow
<1>. HIDE DEF x
<1>2. request' = [request EXCEPT ![r] = x] /\ Reads
  BY DEF Refuse, Refused, x
<1>3. Knows(x)
  BY <1>1 DEF Knows
<1>. QED  BY <1>1, <1>2, <1>3, ReadKeepsInv

-----------------------------------------------------------------------------
(* Batches. *)

\* A batch that leaves its token in the members' rows it changes.
LEMMA KnowledgeLasts ==
  ASSUME OrgInv, NEW r \in Requests, request[r].stage # "done", request' = Done(r),
         \A u \in Users : \/ members'[u] = members[u] \/ members'[u] = None
                          \/ members'[u].token = r
  PROVE  Settled' /\ RequestsKnow'
<1>. USE DEF OrgInv
<1>1. /\ request' \in [Requests -> RequestRow]
      /\ request'[r].stage = "done"
      /\ \A q \in Requests : q # r => request'[q] = request[q]
  BY DoneMoves
<1>2. Settled'
  BY <1>1, NoneIsNothing DEF Settled, TypeOK, MemberRow, Tokens
<1>3. ASSUME NEW q \in Requests PROVE Knows(request[q])'
  <2>1. CASE q = r
    BY <1>1, <2>1 DEF Knows
  <2>2. CASE q # r
    <3> DEFINE y == request[q]
    <3>1. y \in RequestRow /\ Knows(y) /\ request'[q] = y
      BY <1>1, <2>2 DEF RequestsKnow, TypeOK
    <3>2. y.seen # None => y.seen \in Requests
      BY <3>1 DEF RequestRow, Tokens
    <3>. HIDE DEF y
    <3>3. y.stage = "read" /\ y.kind \in MemberKinds /\ y.kind # "invite" =>
            /\ y.seen # None => y.seen # r /\ request'[y.seen].stage = "done"
            /\ members'[y.target] # None /\ members'[y.target].token = y.seen =>
                 canManageRole(y.actor.role, members'[y.target].role)
      BY <1>1, <3>1, <3>2, NoneIsNothing DEF Knows
    <3>. QED  BY <3>1, <3>3 DEF Knows
  <2>. QED  BY <2>1, <2>2
<1>. QED  BY <1>2, <1>3 DEF RequestsKnow

\* The rest of a batch that changes no member, no grant and no collection's
\* state.
LEMMA ElsewhereKeepsInv ==
  ASSUME OrgInv, NEW r \in Requests, request[r].stage # "done", request' = Done(r),
         TypeOK', UNCHANGED <<accounts, members, access>>,
         \A c \in Collections : collections'[c].state = collections[c].state,
         LinkedItemsStayLinked'
  PROVE  OrgInv'
<1>. USE DEF OrgInv
<1>1. Settled' /\ RequestsKnow'
  BY KnowledgeLasts
<1>2. \A q \in Requests : request'[q].grants = request[q].grants
  BY DoneMoves
<1>3. Live' = Live
  BY DEF Live
<1>4. GrantsAreWhole'
  BY <1>2, <1>3 DEF GrantsAreWhole
<1>5. GrantsExist'
  BY <1>2 DEF GrantsExist, Granted
<1>6. DeletedAccountsBelongNowhere'
  BY DEF DeletedAccountsBelongNowhere
<1>. QED  BY <1>1, <1>4, <1>5, <1>6

\* A batch that writes one member's row and grants.
LEMMA MemberKeepsInv ==
  ASSUME OrgInv, NEW r \in Requests, request[r].stage # "done", request' = Done(r),
         NEW t \in Users, NEW row \in MemberRow \cup {None},
         NEW grants \in [Collections -> Grant],
         members' = [members EXCEPT ![t] = row], access' = [access EXCEPT ![t] = grants],
         row # None => /\ row.token = r /\ grants = request[r].grants
                       /\ Granted(grants) \subseteq Live /\ accounts[t] # "deleted",
         told' \subseteq Users,
         UNCHANGED <<accounts, founded, org, collections, links, fences, emptied>>
  PROVE  OrgInv'
<1>. USE DEF OrgInv
<1>1. /\ members' \in [Users -> MemberRow \cup {None}] /\ members'[t] = row
      /\ access' \in [Users -> [Collections -> Grant]] /\ access'[t] = grants
      /\ \A u \in Users : u # t => members'[u] = members[u] /\ access'[u] = access[u]
  BY DEF TypeOK
<1>2. /\ request' \in [Requests -> RequestRow]
      /\ \A q \in Requests : request'[q].grants = request[q].grants
  BY DoneMoves
<1>3. TypeOK'
  BY <1>1, <1>2 DEF TypeOK
<1>4. Settled' /\ RequestsKnow'
  BY <1>1, KnowledgeLasts
<1>5. Live' = Live
  BY DEF Live
<1>6. \A c \in Collections : c \notin Granted(grants) => grants[c] = "none"
  BY DEF Granted, Grant
<1>7. GrantsAreWhole'
  <2>1. ASSUME NEW u \in Users, NEW q \in Requests, members'[u] # None, members'[u].token = q,
               NEW c \in Collections
        PROVE  access'[u][c] = IF c \in Live' THEN request'[q].grants[c] ELSE "none"
    <3>1. CASE u # t
      BY <1>1, <1>2, <1>5, <2>1, <3>1 DEF GrantsAreWhole
    <3>2. CASE u = t
      BY <1>1, <1>2, <1>5, <1>6, <2>1, <3>2
    <3>. QED  BY <3>1, <3>2
  <2>. QED  BY <2>1 DEF GrantsAreWhole
<1>8. GrantsExist'
  <2>1. ASSUME NEW u \in Users, NEW q \in Requests, members'[u] # None, members'[u].token = q
        PROVE  \A c \in Granted(request'[q].grants) : collections[c].state # "unused"
    <3>1. CASE u # t
      BY <1>1, <1>2, <2>1, <3>1 DEF GrantsExist
    <3>2. CASE u = t
      BY <1>1, <1>2, <2>1, <3>2 DEF Live
    <3>. QED  BY <3>1, <3>2
  <2>. QED  BY <2>1 DEF GrantsExist, Granted
<1>9. DeletedAccountsBelongNowhere' /\ LinkedItemsStayLinked'
  BY <1>1 DEF DeletedAccountsBelongNowhere, LinkedItemsStayLinked
<1>. QED  BY <1>3, <1>4, <1>7, <1>8, <1>9

-----------------------------------------------------------------------------
(* The reads. *)

LEMMA BeginIsARequest ==
  ASSUME TypeOK, NEW r \in Requests, NEW u \in Users, NEW kind \in Kinds,
         NEW stage \in {"member", "read"}, members[u] # None
  PROVE  /\ Begin(r, u, kind, stage) \in RequestRow
         /\ Begin(r, u, kind, stage).stage = stage
         /\ Begin(r, u, kind, stage).kind = kind
         /\ Begin(r, u, kind, stage).user = u
         /\ Begin(r, u, kind, stage).actor = members[u]
         /\ members[u] \in MemberRow
<1>1. members[u] \in MemberRow
  BY DEF TypeOK
<1>. QED  BY <1>1, BlankIsARequest DEF Begin, RequestRow

LEMMA MiddlewareKeepsInv ==
  ASSUME OrgInv, NEW r \in Requests, NEW u \in Users, NEW kind \in Kinds,
         requireOrgMember(r, u, kind)
  PROVE  OrgInv'
<1> DEFINE x == Begin(r, u, kind, "member")
<1>1. /\ x \in RequestRow /\ x.stage = "member" /\ x.user = u /\ x.actor \in MemberRow
  BY BeginIsARequest DEF requireOrgMember, OrgInv
<1>. HIDE DEF x
<1>2. request' = [request EXCEPT ![r] = x] /\ Reads /\ request[r].stage = "idle"
  BY DEF requireOrgMember, x
<1>3. Knows(x)
  BY <1>1 DEF Knows
<1>. QED  BY <1>1, <1>2, <1>3, ReadKeepsInv

LEMMA InviteReadKeepsInv ==
  ASSUME OrgInv, NEW r \in Requests, NEW t \in Users, NEW offer \in Offers,
         readInvitee(r, t, offer.role, offer.all, offer.grants)
  PROVE  OrgInv'
<1> DEFINE x == [request[r] EXCEPT !.stage = "read", !.target = t, !.role = offer.role,
                                   !.all = offer.all, !.grants = offer.grants]
<1>1. /\ request[r] \in RequestRow /\ Knows(request[r])
      /\ request[r].stage = "member" /\ request[r].kind = "invite"
  BY DEF readInvitee, OrgInv, TypeOK, RequestsKnow
<1>2. offer.role \in Roles /\ offer.all \in BOOLEAN /\ offer.grants \in [Collections -> Grant]
  BY OrganizationAssumption DEF Roles, Grant
<1>3. /\ x \in RequestRow /\ x.stage = "read" /\ x.target = t /\ x.role = offer.role
      /\ x.kind = "invite" /\ x.user = request[r].user /\ x.actor = request[r].actor
  BY <1>1, <1>2 DEF RequestRow
<1>4. request' = [request EXCEPT ![r] = x]
  BY DEF readInvitee, OrgInv, TypeOK
<1>. HIDE DEF x
<1>5. Knows(x)
  BY <1>1, <1>3 DEF Knows, MemberKinds, readInvitee
<1>. QED  BY <1>1, <1>3, <1>4, <1>5, ReadKeepsInv DEF readInvitee

LEMMA MemberReadKeepsInv ==
  ASSUME OrgInv, NEW r \in Requests, NEW t \in Users, NEW offer \in Offers,
         readMember(r, t, offer.role, offer.all, offer.grants)
  PROVE  OrgInv'
<1> DEFINE x == [request[r] EXCEPT !.stage = "read", !.target = t,
                   !.seen = members[t].token, !.role = offer.role,
                   !.all = offer.all, !.grants = offer.grants]
<1>1. /\ request[r] \in RequestRow /\ Knows(request[r])
      /\ request[r].stage = "member" /\ request[r].kind = "update"
  BY DEF readMember, OrgInv, TypeOK, RequestsKnow
<1>2. offer.role \in Roles /\ offer.all \in BOOLEAN /\ offer.grants \in [Collections -> Grant]
  BY OrganizationAssumption DEF Roles, Grant
<1>3. members[t] # None /\ members[t].token \in Tokens
  BY DEF readMember, OrgInv, TypeOK, MemberRow
<1>4. /\ x \in RequestRow /\ x.stage = "read" /\ x.target = t /\ x.role = offer.role
      /\ x.kind = "update" /\ x.user = request[r].user /\ x.actor = request[r].actor
      /\ x.seen = members[t].token
  BY <1>1, <1>2, <1>3 DEF RequestRow
<1>5. request' = [request EXCEPT ![r] = x]
  BY DEF readMember, OrgInv, TypeOK
<1>. HIDE DEF x
<1>6. x.seen # None => request[x.seen].stage = "done"
  BY <1>3, <1>4 DEF OrgInv, Settled
<1>7. Knows(x)
  BY <1>1, <1>4, <1>6 DEF Knows, MemberKinds, readMember
<1>. QED  BY <1>1, <1>4, <1>5, <1>7, ReadKeepsInv DEF readMember

LEMMA LeaverReadKeepsInv ==
  ASSUME OrgInv, NEW r \in Requests, NEW t \in Users, readLeaver(r, t)
  PROVE  OrgInv'
<1> DEFINE x == [request[r] EXCEPT !.stage = "read", !.target = t,
                                   !.seen = members[t].token]
<1>1. /\ request[r] \in RequestRow /\ Knows(request[r])
      /\ request[r].stage = "member" /\ request[r].kind = "remove"
  BY DEF readLeaver, OrgInv, TypeOK, RequestsKnow
<1>2. members[t] # None /\ members[t].token \in Tokens
  BY DEF readLeaver, OrgInv, TypeOK, MemberRow
<1>3. /\ x \in RequestRow /\ x.stage = "read" /\ x.target = t
      /\ x.kind = "remove" /\ x.user = request[r].user /\ x.actor = request[r].actor
      /\ x.seen = members[t].token
  BY <1>1, <1>2 DEF RequestRow
<1>4. request' = [request EXCEPT ![r] = x]
  BY DEF readLeaver, OrgInv, TypeOK
<1>. HIDE DEF x
<1>5. x.seen # None => request[x.seen].stage = "done"
  BY <1>2, <1>3 DEF OrgInv, Settled
<1>6. Knows(x)
  BY <1>1, <1>3, <1>5 DEF Knows, MemberKinds, readLeaver
<1>. QED  BY <1>1, <1>3, <1>4, <1>6, ReadKeepsInv DEF readLeaver

\* Reads of requests that do not concern members.
LEMMA OtherReadKeepsInv ==
  ASSUME OrgInv, NEW r \in Requests, NEW x \in RequestRow,
         request' = [request EXCEPT ![r] = x], Reads, request[r].stage # "done",
         x.stage # "done", x.kind \notin MemberKinds,
         x.stage = "member" /\ x.kind = "found" => x.user \in Users
  PROVE  OrgInv'
BY ReadKeepsInv DEF Knows

LEMMA TargetReadKeepsInv ==
  ASSUME OrgInv, NEW r \in Requests,
         readOrganization(r) \/ \E c \in Collections : requireCollection(r, c)
  PROVE  OrgInv'
<1>1. request[r] \in RequestRow /\ request[r].stage = "member"
      /\ request[r].kind \notin MemberKinds
  BY DEF readOrganization, requireCollection, OrgInv, TypeOK, OwnerKinds, MemberKinds
<1>2. CASE readOrganization(r)
  <2> DEFINE x == [request[r] EXCEPT !.stage = "read", !.seen = org.token]
  <2>1. x \in RequestRow /\ x.stage = "read" /\ x.kind = request[r].kind
    BY <1>1 DEF RequestRow, OrgInv, TypeOK
  <2>2. request' = [request EXCEPT ![r] = x] /\ Reads
    BY <1>2 DEF readOrganization, OrgInv, TypeOK
  <2>. HIDE DEF x
  <2>. QED  BY <1>1, <2>1, <2>2, OtherReadKeepsInv
<1>3. ASSUME NEW c \in Collections, requireCollection(r, c) PROVE OrgInv'
  <2> DEFINE x == [request[r] EXCEPT !.stage = "read", !.target = c,
                                     !.seen = collections[c].token]
  <2>1. collections[c].token \in Tokens
    BY DEF OrgInv, TypeOK, CollectionRow
  <2>2. x \in RequestRow /\ x.stage = "read" /\ x.kind = request[r].kind
    BY <1>1, <2>1 DEF RequestRow
  <2>3. request' = [request EXCEPT ![r] = x] /\ Reads
    BY <1>3 DEF requireCollection, OrgInv, TypeOK
  <2>. HIDE DEF x
  <2>. QED  BY <1>1, <2>2, <2>3, OtherReadKeepsInv
<1>. QED  BY <1>2, <1>3

LEMMA CipherReadKeepsInv ==
  ASSUME OrgInv, NEW r \in Requests, NEW u \in Users, NEW i \in Items,
         NEW chosen \in SUBSET Collections, requireCipherWrite(r, u, i, chosen)
  PROVE  OrgInv'
<1> DEFINE b == Begin(r, u, "setLinks", "member")
           f == [b.fences EXCEPT ![i] = fences[i]]
           x == [b EXCEPT !.items = {i}, !.chosen = chosen, !.fences = f]
<1>1. b \in RequestRow /\ b.stage = "member" /\ b.kind = "setLinks"
  BY BeginIsARequest DEF requireCipherWrite, OrgInv
<1>2. request' = [request EXCEPT ![r] = x]
  BY <1>1 DEF requireCipherWrite, RequestRow
<1>. HIDE DEF b
<1>3. f \in [Items -> Tokens]
  BY <1>1 DEF RequestRow, OrgInv, TypeOK
<1>. HIDE DEF f
<1>4. x \in RequestRow /\ x.stage = "member" /\ x.kind = "setLinks"
  BY <1>1, <1>3 DEF RequestRow
<1>. HIDE DEF x
<1>. QED  BY <1>2, <1>4, OtherReadKeepsInv DEF requireCipherWrite, MemberKinds

LEMMA CiphersReadKeepsInv ==
  ASSUME OrgInv, NEW r \in Requests, NEW u \in Users, NEW kind \in LinkKinds,
         NEW items \in SUBSET Items, NEW chosen \in SUBSET Collections,
         validateOrganizationCollections(r, u, kind, items, chosen)
  PROVE  OrgInv'
<1> DEFINE b == Begin(r, u, kind, "member")
           f == [i \in Items |-> IF i \in items THEN fences[i] ELSE None]
           x == [b EXCEPT !.items = items, !.chosen = chosen, !.fences = f]
<1>1. b \in RequestRow /\ b.stage = "member" /\ b.kind = kind
  BY BeginIsARequest DEF validateOrganizationCollections, OrgInv
<1>2. request' = [request EXCEPT ![r] = x] /\ Reads /\ request[r].stage = "idle"
  BY DEF validateOrganizationCollections
<1>. HIDE DEF b
<1>3. f \in [Items -> Tokens]
  BY DEF OrgInv, TypeOK, Tokens
<1>. HIDE DEF f
<1>4. x \in RequestRow /\ x.stage = "member" /\ x.kind = kind
  BY <1>1, <1>3 DEF RequestRow
<1>. HIDE DEF x
<1>. QED  BY <1>2, <1>4, OtherReadKeepsInv DEF LinkKinds, MemberKinds

LEMMA LinksReadKeepsInv ==
  ASSUME OrgInv, NEW r \in Requests,
         readLinks(r) \/ resolveOrganizationCipherCollectionsForUpdate(r)
  PROVE  OrgInv'
<1>1. /\ request[r] \in RequestRow /\ request[r].stage \in {"member", "read"}
      /\ request[r].kind \notin MemberKinds
  BY DEF readLinks, resolveOrganizationCipherCollectionsForUpdate, OrgInv, TypeOK,
         LinkKinds, MemberKinds
<1>2. ASSUME NEW filed \in [Items -> SUBSET Collections], NEW stage \in {"read", "filed"},
             request' = [request EXCEPT ![r].stage = stage, ![r].filed = filed], Reads
      PROVE  OrgInv'
  <2> DEFINE x == [request[r] EXCEPT !.stage = stage, !.filed = filed]
  <2>1. x \in RequestRow /\ x.stage = stage /\ x.kind = request[r].kind
    BY <1>1 DEF RequestRow
  <2>2. request' = [request EXCEPT ![r] = x]
    BY <1>2 DEF OrgInv, TypeOK
  <2>. HIDE DEF x
  <2>. QED  BY <1>1, <1>2, <2>1, <2>2, OtherReadKeepsInv
<1>3. CASE readLinks(r)
  <2> DEFINE filed == [i \in Items |-> IF i \in request[r].items THEN links[i] ELSE {}]
  <2>1. filed \in [Items -> SUBSET Collections]
    BY DEF OrgInv, TypeOK
  <2>. QED  BY <1>2, <1>3, <2>1 DEF readLinks
<1>4. CASE resolveOrganizationCipherCollectionsForUpdate(r)
  <2>1. CASE Refuse(r)
    BY <1>1, <2>1, RefuseKeepsInv
  <2>2. CASE /\ \A i \in request[r].items : ResolvableFor(r, i)
             /\ request' = [request EXCEPT ![r].stage = "filed",
                  ![r].filed = [i \in Items |->
                    IF i \in request[r].items THEN ResolvedFor(r, i) ELSE {}]]
             /\ Reads
    <3> DEFINE filed == [i \in Items |-> IF i \in request[r].items THEN ResolvedFor(r, i) ELSE {}]
    <3>1. \A i \in request[r].items : Wanted(r, i) \subseteq Collections
      BY <2>2 DEF ResolvableFor, Live
    <3>2. \A i \in request[r].items : request[r].filed[i] \subseteq Collections
      BY <1>1 DEF RequestRow
    <3>3. \A i \in request[r].items : ResolvedFor(r, i) \subseteq Collections
      BY <3>1, <3>2 DEF ResolvedFor
    <3>4. filed \in [Items -> SUBSET Collections]
      BY <3>3
    <3>. QED  BY <1>2, <2>2, <3>4
  <2>. QED  BY <1>4, <2>1, <2>2 DEF resolveOrganizationCipherCollectionsForUpdate
<1>. QED  BY <1>3, <1>4

LEMMA FounderReadKeepsInv ==
  ASSUME OrgInv, NEW r \in Requests, NEW u \in Users, authenticateFounder(r, u)
  PROVE  OrgInv'
<1> DEFINE x == [Blank EXCEPT !.stage = "member", !.kind = "found", !.user = u]
<1>1. x \in RequestRow /\ x.stage = "member" /\ x.kind = "found" /\ x.user \in Users
  BY BlankIsARequest DEF RequestRow, authenticateFounder
<1>2. request' = [request EXCEPT ![r] = x] /\ Reads /\ request[r].stage = "idle"
  BY DEF authenticateFounder
<1>. HIDE DEF x
<1>. QED  BY <1>1, <1>2, OtherReadKeepsInv DEF MemberKinds

-----------------------------------------------------------------------------
(* The writes. *)

LEMMA InvitationKeepsInv ==
  ASSUME OrgInv, NEW r \in Requests, inviteOrganizationMember(r)
  PROVE  OrgInv'
<1>1. /\ request[r] \in RequestRow /\ Knows(request[r])
      /\ request[r].stage = "read" /\ request[r].kind = "invite"
  BY DEF inviteOrganizationMember, OrgInv, TypeOK, RequestsKnow
<1>2. CASE Refuse(r)
  BY <1>1, <1>2, RefuseKeepsInv
<1>3. CASE ~Refuse(r)
  <2> DEFINE t == request[r].target
             row == [id |-> r, role |-> request[r].role, all |-> request[r].all, token |-> r]
  <2>1. t \in Users /\ request[r].user \in Users /\ request[r].grants \in [Collections -> Grant]
    BY <1>1 DEF Knows, MemberKinds, RequestRow
  <2>2. row \in MemberRow /\ row.token = r
    BY <1>1 DEF MemberRow, RequestRow, Tokens
  <2>3. /\ members' = [members EXCEPT ![t] = row]
        /\ access' = [access EXCEPT ![t] = request[r].grants]
        /\ request' = Done(r) /\ told' = {t, request[r].user}
        /\ UNCHANGED <<accounts, founded, org, collections, links, fences, emptied>>
        /\ Granted(request[r].grants) \subseteq Live /\ accounts[t] = "active"
    BY <1>3 DEF inviteOrganizationMember, Invitable
  <2>. HIDE DEF row, t
  <2>. QED  BY <1>1, <2>1, <2>2, <2>3, MemberKeepsInv
<1>. QED  BY <1>2, <1>3

LEMMA UpdateKeepsInv ==
  ASSUME OrgInv, NEW r \in Requests, updateOrganizationMember(r)
  PROVE  OrgInv'
<1>1. /\ request[r] \in RequestRow /\ Knows(request[r])
      /\ request[r].stage = "read" /\ request[r].kind = "update"
  BY DEF updateOrganizationMember, OrgInv, TypeOK, RequestsKnow
<1>2. CASE Refuse(r)
  BY <1>1, <1>2, RefuseKeepsInv
<1>3. CASE ~Refuse(r)
  <2> DEFINE t == request[r].target
             row == [members[t] EXCEPT !.role = request[r].role, !.all = request[r].all,
                                       !.token = r]
  <2>1. t \in Users /\ request[r].grants \in [Collections -> Grant]
    BY <1>1 DEF Knows, MemberKinds, RequestRow
  <2>2. /\ access' = [access EXCEPT ![t] = request[r].grants]
        /\ request' = Done(r) /\ told' = {t}
        /\ UNCHANGED <<accounts, founded, org, collections, links, fences, emptied>>
        /\ Granted(request[r].grants) \subseteq Live /\ members[t] # None
    BY <1>3 DEF updateOrganizationMember, Updatable, TargetHolds
  <2>6. members' = [members EXCEPT ![t].role = request[r].role,
                                   ![t].all = request[r].all, ![t].token = r]
    BY <1>3 DEF updateOrganizationMember
  <2>3. members[t] \in MemberRow /\ accounts[t] # "deleted"
    BY <2>1, <2>2 DEF OrgInv, TypeOK, DeletedAccountsBelongNowhere
  <2>. HIDE DEF t
  <2>4. row \in MemberRow /\ row.token = r
    BY <1>1, <2>3 DEF MemberRow, RequestRow, Tokens
  <2>5. members' = [members EXCEPT ![t] = row]
    BY <2>1, <2>6 DEF OrgInv, TypeOK
  <2>. HIDE DEF row
  <2>. QED  BY <1>1, <2>1, <2>2, <2>3, <2>4, <2>5, MemberKeepsInv
<1>. QED  BY <1>2, <1>3

LEMMA RemovalKeepsInv ==
  ASSUME OrgInv, NEW r \in Requests, removeOrganizationMember(r)
  PROVE  OrgInv'
<1>1. /\ request[r] \in RequestRow /\ Knows(request[r])
      /\ request[r].stage = "read" /\ request[r].kind = "remove"
  BY DEF removeOrganizationMember, OrgInv, TypeOK, RequestsKnow
<1>2. CASE Refuse(r)
  BY <1>1, <1>2, RefuseKeepsInv
<1>3. CASE ~Refuse(r)
  <2> DEFINE t == request[r].target
  <2>1. t \in Users
    BY <1>1 DEF Knows, MemberKinds
  <2>2. /\ members' = [members EXCEPT ![t] = None]
        /\ access' = [access EXCEPT ![t] = NoGrants]
        /\ request' = Done(r) /\ told' = {t}
        /\ UNCHANGED <<accounts, founded, org, collections, links, fences, emptied>>
    BY <1>3 DEF removeOrganizationMember
  <2>. HIDE DEF t
  <2>. QED  BY <1>1, <2>1, <2>2, BlankIsARequest, MemberKeepsInv
<1>. QED  BY <1>2, <1>3

LEMMA CreationKeepsInv ==
  ASSUME OrgInv, NEW r \in Requests, NEW c \in Collections, createCollection(r, c)
  PROVE  OrgInv'
<1>. USE DEF OrgInv
<1>1. /\ request[r].stage = "member" /\ request' = Done(r)
      /\ collections[c].state = "unused" /\ collections[c] \in CollectionRow
      /\ UNCHANGED <<accounts, founded, org, members, access, links, fences, emptied>>
  BY DEF createCollection, TypeOK
<1>2. /\ collections' \in [Collections -> CollectionRow] /\ collections'[c].state = "live"
      /\ \A d \in Collections : d # c => collections'[d] = collections[d]
  BY DEF createCollection, TypeOK, CollectionRow
<1>3. /\ request' \in [Requests -> RequestRow]
      /\ \A q \in Requests : request'[q].grants = request[q].grants
  BY <1>1, DoneMoves
<1>4. TypeOK'
  BY <1>1, <1>2, <1>3 DEF createCollection, TypeOK, ConfirmedMembers
<1>5. Settled' /\ RequestsKnow'
  BY <1>1, KnowledgeLasts
<1>6. GrantsExist'
  BY <1>1, <1>2, <1>3 DEF GrantsExist, Granted
<1>7. GrantsAreWhole'
  <2>1. ASSUME NEW u \in Users, NEW q \in Requests, members[u] # None, members[u].token = q,
               NEW d \in Collections
        PROVE  access[u][d] = IF d \in Live' THEN request[q].grants[d] ELSE "none"
    <3>1. CASE d # c
      BY <1>2, <2>1, <3>1 DEF GrantsAreWhole, Live
    <3>2. CASE d = c
      <4>1. c \notin Live /\ c \in Live'
        BY <1>1, <1>2 DEF Live
      <4>2. c \notin Granted(request[q].grants)
        BY <1>1, <2>1 DEF GrantsExist
      <4>3. request[q].grants[c] = "none"
        BY <4>2 DEF Granted, TypeOK, RequestRow
      <4>. QED  BY <2>1, <3>2, <4>1, <4>3 DEF GrantsAreWhole
    <3>. QED  BY <3>1, <3>2
  <2>. QED  BY <1>1, <1>3, <2>1 DEF GrantsAreWhole
<1>8. DeletedAccountsBelongNowhere' /\ LinkedItemsStayLinked'
  BY <1>1 DEF DeletedAccountsBelongNowhere, LinkedItemsStayLinked
<1>. QED  BY <1>4, <1>5, <1>6, <1>7, <1>8

LEMMA RenamingKeepsInv ==
  ASSUME OrgInv, NEW r \in Requests, updateCollection(r) \/ updateOrganization(r)
  PROVE  OrgInv'
<1>1. request[r].stage = "read"
  BY DEF updateCollection, updateOrganization
<1>2. CASE Refuse(r)
  BY <1>1, <1>2, RefuseKeepsInv
<1>3. CASE ~Refuse(r)
  <2>1. request' = Done(r) /\ request' \in [Requests -> RequestRow]
    BY <1>3, DoneMoves DEF updateCollection, updateOrganization, OrgInv
  <2>2. UNCHANGED <<accounts, founded, members, access, links, fences, emptied>>
    BY <1>3 DEF updateCollection, updateOrganization
  <2>3. told' = ConfirmedMembers
    BY <1>3 DEF updateCollection, updateOrganization
  <2>4. /\ collections' \in [Collections -> CollectionRow]
        /\ org' \in [live : BOOLEAN, token : Tokens]
        /\ \A c \in Collections : collections'[c].state = collections[c].state
    <3>1. CASE updateOrganization(r)
      BY <1>3, <3>1 DEF updateOrganization, OrgInv, TypeOK, Tokens
    <3>2. CASE updateCollection(r)
      <4> DEFINE c == request[r].target
                 row == [collections[c] EXCEPT !.token = r]
      <4>1. c \in Collections /\ collections' = [collections EXCEPT ![c].token = r] /\ org' = org
        BY <1>3, <3>2 DEF updateCollection, CollectionHolds, Live
      <4>. HIDE DEF c
      <4>2. collections' = [collections EXCEPT ![c] = row]
        BY <4>1 DEF OrgInv, TypeOK
      <4>3. row \in CollectionRow /\ row.state = collections[c].state
        BY <4>1 DEF OrgInv, TypeOK, CollectionRow, Tokens
      <4>. HIDE DEF row
      <4>. QED  BY <4>1, <4>2, <4>3 DEF OrgInv, TypeOK
    <3>. QED  BY <3>1, <3>2
  <2>5. TypeOK'
    BY <2>1, <2>2, <2>3, <2>4 DEF OrgInv, TypeOK, ConfirmedMembers
  <2>6. LinkedItemsStayLinked'
    BY <2>2 DEF OrgInv, LinkedItemsStayLinked
  <2>. QED  BY <1>1, <2>1, <2>2, <2>4, <2>5, <2>6, ElsewhereKeepsInv
<1>. QED  BY <1>2, <1>3

LEMMA CollectionDeletionKeepsInv ==
  ASSUME OrgInv, NEW r \in Requests, deleteCollection(r)
  PROVE  OrgInv'
<1>. USE DEF OrgInv
<1>1. request[r].stage = "read"
  BY DEF deleteCollection
<1>2. CASE Refuse(r)
  BY <1>1, <1>2, RefuseKeepsInv
<1>3. CASE ~Refuse(r)
  <2> DEFINE c == request[r].target
  <2>1. /\ c \in Live /\ \A i \in Items : links[i] # {c}
        /\ collections' = [collections EXCEPT ![c].state = "deleted"]
        /\ links' = [i \in Items |-> links[i] \ {c}]
        /\ access' = [u \in Users |-> [access[u] EXCEPT ![c] = "none"]]
        /\ told' = ConfirmedMembers /\ request' = Done(r)
        /\ UNCHANGED <<accounts, founded, org, members, fences, emptied>>
    BY <1>3 DEF deleteCollection, CollectionDeletable, CollectionHolds
  <2>. HIDE DEF c
  <2>2. c \in Collections /\ collections[c].state = "live"
    BY <2>1 DEF Live
  <2>3. /\ collections' \in [Collections -> CollectionRow]
        /\ collections'[c].state = "deleted"
        /\ \A d \in Collections : d # c => collections'[d] = collections[d]
    BY <2>1, <2>2 DEF TypeOK, CollectionRow
  <2>4. /\ access' \in [Users -> [Collections -> Grant]]
        /\ \A u \in Users : /\ access'[u][c] = "none"
                            /\ \A d \in Collections : d # c => access'[u][d] = access[u][d]
    BY <2>1, <2>2 DEF TypeOK, Grant
  <2>5. /\ request' \in [Requests -> RequestRow]
        /\ \A q \in Requests : request'[q].grants = request[q].grants
    BY <2>1, DoneMoves
  <2>6. links' \in [Items -> SUBSET Collections]
    BY <2>1 DEF TypeOK
  <2>7. TypeOK'
    BY <2>1, <2>3, <2>4, <2>5, <2>6 DEF TypeOK, ConfirmedMembers
  <2>8. Settled' /\ RequestsKnow'
    BY <1>1, <2>1, KnowledgeLasts
  <2>9. Live' = Live \ {c}
    BY <2>2, <2>3 DEF Live
  <2>10. GrantsAreWhole'
    BY <2>1, <2>4, <2>5, <2>9 DEF GrantsAreWhole
  <2>11. GrantsExist'
    BY <2>1, <2>3, <2>5 DEF GrantsExist, Granted
  <2>12. DeletedAccountsBelongNowhere' /\ LinkedItemsStayLinked'
    BY <2>1 DEF DeletedAccountsBelongNowhere, LinkedItemsStayLinked
  <2>. QED  BY <2>7, <2>8, <2>10, <2>11, <2>12
<1>. QED  BY <1>2, <1>3

LEMMA DissolutionKeepsInv ==
  ASSUME OrgInv, NEW r \in Requests, deleteOrganization(r)
  PROVE  OrgInv'
<1>1. request[r].stage = "read"
  BY DEF deleteOrganization
<1>2. CASE Refuse(r)
  BY <1>1, <1>2, RefuseKeepsInv
<1>3. CASE ~Refuse(r)
  <2>1. /\ request' = Done(r) /\ request' \in [Requests -> RequestRow]
        /\ UNCHANGED <<accounts, founded, members, collections, access, links, emptied>>
        /\ told' = ConfirmedMembers /\ org' = [live |-> FALSE, token |-> r]
        /\ fences' = [i \in Items |-> r]
    BY <1>3, DoneMoves DEF deleteOrganization, OrgInv
  <2>2. TypeOK'
    BY <2>1 DEF OrgInv, TypeOK, ConfirmedMembers, Tokens
  <2>3. LinkedItemsStayLinked'
    BY <2>1 DEF OrgInv, LinkedItemsStayLinked
  <2>. QED  BY <1>1, <2>1, <2>2, <2>3, ElsewhereKeepsInv
<1>. QED  BY <1>2, <1>3

LEMMA RefilingKeepsInv ==
  ASSUME OrgInv, NEW r \in Requests, updateCollections(r)
  PROVE  OrgInv'
<1>1. request[r].stage = "filed" /\ request[r] \in RequestRow
  BY DEF updateCollections, OrgInv, TypeOK
<1>2. CASE Refuse(r)
  BY <1>1, <1>2, RefuseKeepsInv
<1>3. CASE ~Refuse(r)
  <2> DEFINE moved == request[r].items
             filed == request[r].filed
  <2>1. moved \subseteq Items /\ filed \in [Items -> SUBSET Collections]
    BY <1>1 DEF RequestRow
  <2>2. /\ links' = [i \in Items |-> IF i \in moved THEN filed[i] ELSE links[i]]
        /\ fences' = [i \in Items |-> IF i \in moved THEN r ELSE fences[i]]
        /\ emptied' = (emptied \ moved) \cup {i \in moved : filed[i] = {}}
        /\ told' = ConfirmedMembers /\ request' = Done(r)
        /\ UNCHANGED <<accounts, founded, org, members, collections, access>>
    BY <1>3 DEF updateCollections
  <2>3. request' \in [Requests -> RequestRow]
    BY <2>2, DoneMoves DEF OrgInv
  <2>. HIDE DEF moved, filed
  <2>4. TypeOK'
    BY <2>1, <2>2, <2>3 DEF OrgInv, TypeOK, ConfirmedMembers, Tokens
  <2>5. LinkedItemsStayLinked'
    BY <2>1, <2>2 DEF OrgInv, LinkedItemsStayLinked
  <2>. QED  BY <1>1, <2>2, <2>4, <2>5, ElsewhereKeepsInv
<1>. QED  BY <1>2, <1>3

LEMMA FoundationKeepsInv ==
  ASSUME OrgInv, NEW r \in Requests, createOrganization(r)
  PROVE  OrgInv'
<1>0. request[r].user \in Users
  BY DEF createOrganization, OrgInv, RequestsKnow, Knows
<1>1. /\ request[r].stage = "member" /\ request' = Done(r)
      /\ request' \in [Requests -> RequestRow]
      /\ UNCHANGED <<accounts, org, members, collections, access, links, fences, emptied>>
      /\ founded' = founded \cup {request[r].user} /\ told' = {request[r].user}
  BY DoneMoves DEF createOrganization, OrgInv
<1>2. TypeOK'
  BY <1>0, <1>1 DEF OrgInv, TypeOK
<1>3. LinkedItemsStayLinked'
  BY <1>1 DEF OrgInv, LinkedItemsStayLinked
<1>. QED  BY <1>1, <1>2, <1>3, ElsewhereKeepsInv

\* What an administrator or the user does to the account: no request writes.
LEMMA AccountsKeepInv ==
  ASSUME OrgInv, NEW t \in Users, setAdminUserStatus(t) \/ deleteAccountData(t)
  PROVE  OrgInv'
<1>. USE DEF OrgInv
<1>1. /\ accounts' \in [Users -> {"active", "banned", "deleted"}]
      /\ members' \in [Users -> MemberRow \cup {None}]
      /\ access' \in [Users -> [Collections -> Grant]]
      /\ \A u \in Users : \/ members'[u] = None
                          \/ /\ members'[u] = members[u] /\ access'[u] = access[u]
                             /\ accounts'[u] = "deleted" => accounts[u] = "deleted"
      /\ UNCHANGED <<org, collections, links, fences, request, emptied, founded>>
      /\ told' = {}
  <2>1. CASE setAdminUserStatus(t)
    BY <2>1 DEF setAdminUserStatus, OtherStatus, TypeOK
  <2>2. CASE deleteAccountData(t)
    BY <2>2, BlankIsARequest DEF deleteAccountData, TypeOK
  <2>. QED  BY <2>1, <2>2
<1>2. TypeOK'
  BY <1>1 DEF TypeOK
<1>3. Settled' /\ RequestsKnow'
  <2>1. Settled'
    BY <1>1 DEF Settled
  <2>2. \A q \in Requests : Knows(request[q])'
    BY <1>1 DEF Knows, RequestsKnow
  <2>. QED  BY <2>1, <2>2 DEF RequestsKnow
<1>4. GrantsAreWhole'
  <2>1. Live' = Live
    BY <1>1 DEF Live
  <2>. QED  BY <1>1, <2>1 DEF GrantsAreWhole
<1>6. GrantsExist'
  BY <1>1 DEF GrantsExist, Granted
<1>5. DeletedAccountsBelongNowhere' /\ LinkedItemsStayLinked'
  BY <1>1 DEF DeletedAccountsBelongNowhere, LinkedItemsStayLinked
<1>. QED  BY <1>2, <1>3, <1>4, <1>5, <1>6

LEMMA OrgInvStep == OrgInv /\ [Next]_vars => OrgInv'
<1>. SUFFICES ASSUME OrgInv, [Next]_vars PROVE OrgInv'
  OBVIOUS
<1>1. ASSUME NEW r \in Requests, NEW u \in Users, NEW kind \in Kinds,
             requireOrgMember(r, u, kind)
      PROVE  OrgInv'
  BY <1>1, MiddlewareKeepsInv
<1>2. ASSUME NEW r \in Requests, NEW t \in Users, NEW offer \in Offers,
             \/ readInvitee(r, t, offer.role, offer.all, offer.grants)
             \/ readMember(r, t, offer.role, offer.all, offer.grants)
      PROVE  OrgInv'
  BY <1>2, InviteReadKeepsInv, MemberReadKeepsInv
<1>3. ASSUME NEW r \in Requests, NEW t \in Users, readLeaver(r, t)
      PROVE  OrgInv'
  BY <1>3, LeaverReadKeepsInv
<1>4. ASSUME NEW r \in Requests, NEW c \in Collections,
             createCollection(r, c) \/ requireCollection(r, c)
      PROVE  OrgInv'
  BY <1>4, CreationKeepsInv, TargetReadKeepsInv
<1>5. ASSUME NEW r \in Requests, NEW u \in Users, NEW i \in Items,
             NEW chosen \in SUBSET Collections, requireCipherWrite(r, u, i, chosen)
      PROVE  OrgInv'
  BY <1>5, CipherReadKeepsInv
<1>6. ASSUME NEW r \in Requests, NEW u \in Users, NEW kind \in LinkKinds,
             NEW items \in SUBSET Items, NEW chosen \in SUBSET Collections,
             validateOrganizationCollections(r, u, kind, items, chosen)
      PROVE  OrgInv'
  BY <1>6, CiphersReadKeepsInv
<1>7. ASSUME NEW r \in Requests,
             \/ inviteOrganizationMember(r)
             \/ updateOrganizationMember(r)
             \/ removeOrganizationMember(r)
      PROVE  OrgInv'
  BY <1>7, InvitationKeepsInv, UpdateKeepsInv, RemovalKeepsInv
<1>8. ASSUME NEW r \in Requests,
             \/ updateCollection(r) \/ deleteCollection(r)
             \/ updateOrganization(r) \/ deleteOrganization(r)
      PROVE  OrgInv'
  BY <1>8, RenamingKeepsInv, CollectionDeletionKeepsInv, DissolutionKeepsInv
<1>9. ASSUME NEW r \in Requests,
             \/ readOrganization(r) \/ readLinks(r)
             \/ resolveOrganizationCipherCollectionsForUpdate(r)
             \/ updateCollections(r) \/ createOrganization(r)
      PROVE  OrgInv'
  BY <1>9, TargetReadKeepsInv, LinksReadKeepsInv, RefilingKeepsInv, FoundationKeepsInv
<1>10. ASSUME NEW r \in Requests, NEW u \in Users, authenticateFounder(r, u)
       PROVE  OrgInv'
  BY <1>10, FounderReadKeepsInv
<1>11. ASSUME NEW u \in Users, setAdminUserStatus(u) \/ deleteAccountData(u)
       PROVE  OrgInv'
  BY <1>11, AccountsKeepInv
<1>12. CASE UNCHANGED vars
  <2>1. UNCHANGED <<accounts, founded, org, members, collections, access, links, fences,
                    request, told, emptied>>
    BY <1>12 DEF vars
  <2>2. TypeOK' /\ Settled'
    BY <2>1 DEF OrgInv, TypeOK, Settled
  <2>3. RequestsKnow'
    BY <2>1 DEF OrgInv, RequestsKnow, Knows
  <2>4. GrantsAreWhole' /\ GrantsExist'
    BY <2>1 DEF OrgInv, GrantsAreWhole, GrantsExist, Granted, Live
  <2>5. DeletedAccountsBelongNowhere' /\ LinkedItemsStayLinked'
    BY <2>1 DEF OrgInv, DeletedAccountsBelongNowhere, LinkedItemsStayLinked
  <2>. QED  BY <2>2, <2>3, <2>4, <2>5 DEF OrgInv
<1>. QED
  BY <1>1, <1>2, <1>3, <1>4, <1>5, <1>6, <1>7, <1>8, <1>9, <1>10, <1>11, <1>12 DEF Next

LEMMA SpecOrgInv == Spec => []OrgInv
BY OrgInvInit, OrgInvStep, PTL DEF Spec

-----------------------------------------------------------------------------

\* The rows and the requests keep the shapes the schema and the handlers give
\* them, through every interleaving of requests (organization-members.ts,
\* organization-collections.ts, organizations.ts, ciphers-collections.ts).
THEOREM OrganizationTypes == Spec => []TypeOK
<1>1. OrgInv => TypeOK
  BY DEF OrgInv
<1>. QED  BY <1>1, SpecOrgInv, PTL

\* A member's access is what the last request that wrote the member's row
\* granted, less the collections deleted since: the statements that replace
\* org_members' collections run only if the row took this request's token.
THEOREM MembersGrantsAreWhole == Spec => []GrantsAreWhole
<1>1. OrgInv => GrantsAreWhole
  BY DEF OrgInv
<1>. QED  BY <1>1, SpecOrgInv, PTL

\* No invitation under way when an account is deleted makes the account a
\* member afterwards: the invitation's statement tests the account.
THEOREM NobodyDeletedBelongs == Spec => []DeletedAccountsBelongNowhere
<1>1. OrgInv => DeletedAccountsBelongNowhere
  BY DEF OrgInv
<1>. QED  BY <1>1, SpecOrgInv, PTL

\* No deletion of a collection leaves an item that was not taken out of its
\* collections on request without one, whatever requests file items meanwhile.
THEOREM ItemsStayLinked == Spec => []LinkedItemsStayLinked
<1>1. OrgInv => LinkedItemsStayLinked
  BY DEF OrgInv
<1>. QED  BY <1>1, SpecOrgInv, PTL

-----------------------------------------------------------------------------

\* At the moment a request writes a member's row, its actor ranks above both.
Outranks(r, u) ==
  LET a == request[r].user
  IN  /\ request'[r].stage = "done" /\ request[r].stage # "done"
      /\ a # None /\ members[a] # None
      /\ \A m \in {members[u], members'[u]} \ {None} :
           canManageRole(members[a].role, m.role)

LEMMA WritersOutrank ==
  ASSUME OrgInv, NEW r \in Requests,
         \/ inviteOrganizationMember(r)
         \/ updateOrganizationMember(r)
         \/ removeOrganizationMember(r),
         ~Refuse(r)
  PROVE  \A u \in Users : members'[u] # members[u] => Outranks(r, u)
<1> DEFINE t == request[r].target
           a == request[r].user
           held == members[a]
<1>1. /\ request[r] \in RequestRow /\ Knows(request[r])
      /\ request[r].stage = "read" /\ request[r].kind \in MemberKinds
  BY DEF inviteOrganizationMember, updateOrganizationMember, removeOrganizationMember,
         MemberKinds, OrgInv, TypeOK, RequestsKnow
<1>2. t \in Users /\ a \in Users
  BY <1>1 DEF Knows
<1>3. ActorHolds(r) /\ request' = Done(r)
  BY DEF inviteOrganizationMember, updateOrganizationMember, removeOrganizationMember,
         Invitable, Updatable
<1>4. /\ request'[r].stage = "done" /\ request[r].stage # "done" /\ a # None
      /\ members[a] # None /\ held.role = request[r].actor.role
  BY <1>1, <1>2, <1>3, DoneMoves, NoneIsNothing DEF ActorHolds, OrgInv
<1>5. \A u \in Users : u # t => members'[u] = members[u]
  BY <1>2 DEF inviteOrganizationMember, updateOrganizationMember,
              removeOrganizationMember, OrgInv, TypeOK
<1>6. \A m \in {members[t], members'[t]} \ {None} :
        canManageRole(request[r].actor.role, m.role)
  <2>1. CASE inviteOrganizationMember(r)
    <3>1. members[t] = None /\ members'[t].role = request[r].role
      BY <1>2, <2>1 DEF inviteOrganizationMember, Invitable, OrgInv, TypeOK
    <3>2. request[r].kind = "invite"
      BY <2>1 DEF inviteOrganizationMember
    <3>. QED  BY <1>1, <3>1, <3>2 DEF Knows
  <2>2. CASE updateOrganizationMember(r)
    <3>1. /\ TargetHolds(r) /\ request[r].kind = "update"
          /\ members' = [members EXCEPT ![t].role = request[r].role,
                           ![t].all = request[r].all, ![t].token = r]
      BY <2>2 DEF updateOrganizationMember, Updatable
    <3>2. members[t] \in MemberRow
      BY <1>2, <3>1 DEF TargetHolds, OrgInv, TypeOK
    <3>3. members'[t].role = request[r].role
      BY <1>2, <3>1, <3>2 DEF MemberRow, OrgInv, TypeOK
    <3>4. canManageRole(request[r].actor.role, request[r].role)
      BY <1>1, <3>1 DEF Knows
    <3>5. canManageRole(request[r].actor.role, members[t].role)
      BY <1>1, <3>1 DEF Knows, TargetHolds
    <3>. QED  BY <3>3, <3>4, <3>5
  <2>3. CASE removeOrganizationMember(r)
    <3>1. TargetHolds(r) /\ request[r].kind = "remove" /\ members'[t] = None
      BY <1>2, <2>3 DEF removeOrganizationMember, OrgInv, TypeOK
    <3>2. canManageRole(request[r].actor.role, members[t].role)
      BY <1>1, <3>1 DEF Knows, TargetHolds
    <3>. QED  BY <3>1, <3>2
  <2>. QED  BY <2>1, <2>2, <2>3
<1>. QED  BY <1>4, <1>5, <1>6 DEF Outranks

\* Who changes a member's row is, at that moment, a member who ranks above
\* both what the row was and what it becomes: the batch tests the actor's row
\* and the member's again by their tokens, so a demotion between the reads and
\* the batch refuses the request.
THEOREM OnlyThoseAboveManage == Spec => OnlyHigherRolesManage
<1> DEFINE A == \A u \in Users : members'[u] # members[u] =>
                  accounts'[u] = "deleted" \/ \E r \in Requests : Outranks(r, u)
<1>1. OrgInv /\ [Next]_vars => [A]_vars
  <2>. SUFFICES ASSUME OrgInv, Next PROVE A
    OBVIOUS
  <2>1. ASSUME NEW r \in Requests,
               \/ inviteOrganizationMember(r)
               \/ updateOrganizationMember(r)
               \/ removeOrganizationMember(r)
        PROVE  A
    <3>1. CASE Refuse(r)
      BY <3>1 DEF Refuse, Reads, Rows
    <3>2. CASE ~Refuse(r)
      BY <2>1, <3>2, WritersOutrank
    <3>. QED  BY <3>1, <3>2
  <2>2. ASSUME NEW u \in Users, deleteAccountData(u) PROVE A
    BY <2>2 DEF deleteAccountData, OrgInv, TypeOK
  <2>3. ASSUME NEW u \in Users, setAdminUserStatus(u) PROVE A
    BY <2>3 DEF setAdminUserStatus
  <2>4. ASSUME NEW r \in Requests,
               \/ updateCollection(r) \/ deleteCollection(r)
               \/ updateOrganization(r) \/ deleteOrganization(r)
        PROVE  A
    BY <2>4 DEF updateCollection, deleteCollection, updateOrganization,
                deleteOrganization, Refuse, Reads, Rows
  <2>5. ASSUME NEW r \in Requests,
               \/ readOrganization(r) \/ readLinks(r)
               \/ resolveOrganizationCipherCollectionsForUpdate(r)
               \/ updateCollections(r) \/ createOrganization(r)
        PROVE  A
    BY <2>5 DEF readOrganization, readLinks, updateCollections, createOrganization,
                resolveOrganizationCipherCollectionsForUpdate, Refuse, Reads, Rows
  <2>6. ASSUME NEW r \in Requests, NEW c \in Collections,
               createCollection(r, c) \/ requireCollection(r, c)
        PROVE  A
    BY <2>6 DEF createCollection, requireCollection, Reads, Rows
  <2>7. ASSUME NEW r \in Requests, NEW u \in Users, NEW kind \in Kinds,
               requireOrgMember(r, u, kind)
        PROVE  A
    BY <2>7 DEF requireOrgMember, Reads, Rows
  <2>8. ASSUME NEW r \in Requests, NEW t \in Users, NEW offer \in Offers,
               \/ readInvitee(r, t, offer.role, offer.all, offer.grants)
               \/ readMember(r, t, offer.role, offer.all, offer.grants)
        PROVE  A
    BY <2>8 DEF readInvitee, readMember, Reads, Rows
  <2>9. ASSUME NEW r \in Requests, NEW t \in Users,
               readLeaver(r, t) \/ authenticateFounder(r, t)
        PROVE  A
    BY <2>9 DEF readLeaver, authenticateFounder, Reads, Rows
  <2>10. ASSUME NEW r \in Requests, NEW u \in Users, NEW i \in Items,
                NEW chosen \in SUBSET Collections, requireCipherWrite(r, u, i, chosen)
         PROVE  A
    BY <2>10 DEF requireCipherWrite, Reads, Rows
  <2>11. ASSUME NEW r \in Requests, NEW u \in Users, NEW kind \in LinkKinds,
                NEW items \in SUBSET Items, NEW chosen \in SUBSET Collections,
                validateOrganizationCollections(r, u, kind, items, chosen)
         PROVE  A
    BY <2>11 DEF validateOrganizationCollections, Reads, Rows
  <2>. HIDE DEF A
  <2>. QED
    BY <2>1, <2>2, <2>3, <2>4, <2>5, <2>6, <2>7, <2>8, <2>9, <2>10, <2>11 DEF Next
<1> DEFINE B == \A u \in Users : members'[u] # members[u] =>
                  \/ accounts'[u] = "deleted"
                  \/ \E r \in Requests :
                       LET a == request[r].user
                       IN  /\ request'[r].stage = "done" /\ request[r].stage # "done"
                           /\ a # None /\ members[a] # None
                           /\ \A m \in {members[u], members'[u]} \ {None} :
                                canManageRole(members[a].role, m.role)
<1>2. OrgInv /\ [Next]_vars => [B]_vars
  BY <1>1 DEF Outranks
<1>. QED  BY <1>2, SpecOrgInv, PTL DEF Spec, OnlyHigherRolesManage

-----------------------------------------------------------------------------
(* Who is told.                                                            *)

\* A user whose rows stay as they are, with everything they lead to.
LEMMA SameRowsSameView ==
  ASSUME NEW u \in Users, UNCHANGED <<org, collections, links>>,
         members'[u] = members[u], access'[u] = access[u],
         u \in founded' <=> u \in founded
  PROVE  View(u)' = View(u)
<1>1. Visible(u)' = Visible(u)
  BY DEF Visible, Live, Granted
<1> DEFINE V == Visible(u)
           founding == u \in founded
           held == [c \in V |-> <<collections[c].token, access[u][c]>>]
           filed == {j \in Items : members[u].all \/ links[j] \cap V # {}}
           items == [i \in filed |-> links[i] \cap V]
<1>2. held' = held /\ filed' = filed
  BY <1>1
<1>3. items' = items
  BY <1>1, <1>2
<1>4. View(u) = [founded |-> founding,
                 shared |->
                   IF members[u] = None \/ ~org.live THEN None
                   ELSE [name |-> org.token, role |-> members[u].role,
                         collections |-> held, items |-> items]]
  BY DEF View
<1>5. View(u)' = [founded |-> founding',
                  shared |->
                   IF members'[u] = None \/ ~org'.live THEN None
                   ELSE [name |-> org'.token, role |-> members'[u].role,
                         collections |-> held', items |-> items']]
  BY DEF View
<1>. HIDE DEF held, items
<1>. QED  BY <1>2, <1>3, <1>4, <1>5

\* A user who is no member sees nothing of the organization.
LEMMA OutsidersSeeNothing ==
  ASSUME NEW u \in Users, UNCHANGED <<founded, members>>,
         u \notin ConfirmedMembers
  PROVE  View(u)' = View(u)
BY DEF View, ConfirmedMembers

\* A batch on what all members see tells them all.
LEMMA MembersAreTold ==
  ASSUME NEW u \in Users, told' = ConfirmedMembers,
         UNCHANGED <<founded, members>>
  PROVE  View(u)' = View(u) \/ u \in told'
BY OutsidersSeeNothing

\* A batch on one user's rows.
LEMMA OneIsTold ==
  ASSUME TypeOK, NEW u \in Users, NEW t, NEW row, NEW grants,
         members' = [members EXCEPT ![t] = row],
         access' = [access EXCEPT ![t] = grants],
         UNCHANGED <<founded, org, collections, links>>
  PROVE  View(u)' = View(u) \/ u = t
<1> SUFFICES ASSUME u # t PROVE View(u)' = View(u)
  OBVIOUS
<1>1. /\ members'[u] = members[u] /\ access'[u] = access[u]
      /\ u \in founded' <=> u \in founded
  BY DEF TypeOK
<1>. QED  BY <1>1, SameRowsSameView

LEMMA ReadsShowNothingNew ==
  ASSUME NEW u \in Users, Reads
  PROVE  View(u)' = View(u)
BY SameRowsSameView DEF Reads, Rows

LEMMA MemberBatchesTell ==
  ASSUME TypeOK, NEW u \in Users, NEW r \in Requests,
         \/ inviteOrganizationMember(r)
         \/ updateOrganizationMember(r)
         \/ removeOrganizationMember(r)
  PROVE  View(u)' = View(u) \/ u \in told'
<1> DEFINE t == request[r].target
<1>1. CASE Refuse(r)
  BY <1>1, ReadsShowNothingNew DEF Refuse
<1>2. CASE inviteOrganizationMember(r) /\ ~Refuse(r)
  <2>1. /\ members' = [members EXCEPT ![t] =
             [id |-> r, role |-> request[r].role, all |-> request[r].all,
              token |-> r]]
        /\ access' = [access EXCEPT ![t] = request[r].grants]
        /\ t \in told' /\ UNCHANGED <<founded, org, collections, links>>
    BY <1>2 DEF inviteOrganizationMember
  <2>. HIDE DEF t
  <2>. QED  BY <2>1, OneIsTold
<1>3. CASE updateOrganizationMember(r) /\ ~Refuse(r)
  <2>1. /\ members' = [members EXCEPT ![t].role = request[r].role,
                                      ![t].all = request[r].all, ![t].token = r]
        /\ access' = [access EXCEPT ![t] = request[r].grants]
        /\ t \in told' /\ UNCHANGED <<founded, org, collections, links>>
    BY <1>3 DEF updateOrganizationMember
  <2>. HIDE DEF t
  <2>2. \A v \in Users : v # t => members'[v] = members[v] /\ access'[v] = access[v]
    BY <2>1 DEF TypeOK
  <2>3. u # t => View(u)' = View(u)
    BY <2>1, <2>2, SameRowsSameView
  <2>. QED  BY <2>1, <2>3
<1>4. CASE removeOrganizationMember(r) /\ ~Refuse(r)
  <2>1. /\ members' = [members EXCEPT ![t] = None]
        /\ access' = [access EXCEPT ![t] = NoGrants]
        /\ t \in told' /\ UNCHANGED <<founded, org, collections, links>>
    BY <1>4 DEF removeOrganizationMember
  <2>. HIDE DEF t
  <2>. QED  BY <2>1, OneIsTold
<1>. QED  BY <1>1, <1>2, <1>3, <1>4

LEMMA SharedBatchesTell ==
  ASSUME NEW u \in Users, NEW r \in Requests,
         \/ updateCollection(r) \/ deleteCollection(r)
         \/ updateOrganization(r) \/ deleteOrganization(r)
         \/ updateCollections(r)
         \/ \E c \in Collections : createCollection(r, c)
  PROVE  View(u)' = View(u) \/ u \in told'
<1>1. CASE Refuse(r)
  BY <1>1, ReadsShowNothingNew DEF Refuse
<1>2. CASE ~Refuse(r)
  <2>1. told' = ConfirmedMembers /\ UNCHANGED <<founded, members>>
    BY <1>2 DEF updateCollection, deleteCollection, updateOrganization,
                deleteOrganization, updateCollections, createCollection
  <2>. QED  BY <2>1, MembersAreTold
<1>. QED  BY <1>1, <1>2

\* Whatever changes what an account would be answered tells it, in the same
\* batch (services/db/revisions.ts).
THEOREM EveryChangeIsTold == Spec => ChangesAreTold
<1> DEFINE A == \A u \in Users :
       View(u)' # View(u) /\ accounts'[u] # "deleted" => u \in told'
<1>1. ASSUME OrgInv, [Next]_vars PROVE [A]_vars
  <2>. SUFFICES ASSUME Next, NEW u \in Users, accounts'[u] # "deleted"
                PROVE  View(u)' = View(u) \/ u \in told'
    BY <1>1
  <2>1. CASE Reads
    BY <2>1, ReadsShowNothingNew
  <2>2. ASSUME NEW r \in Requests,
               \/ inviteOrganizationMember(r)
               \/ updateOrganizationMember(r)
               \/ removeOrganizationMember(r)
        PROVE  View(u)' = View(u) \/ u \in told'
    BY <1>1, <2>2, MemberBatchesTell DEF OrgInv
  <2>3. ASSUME NEW r \in Requests,
               \/ updateCollection(r) \/ deleteCollection(r)
               \/ updateOrganization(r) \/ deleteOrganization(r)
               \/ updateCollections(r)
               \/ \E c \in Collections : createCollection(r, c)
        PROVE  View(u)' = View(u) \/ u \in told'
    BY <2>3, SharedBatchesTell
  <2>4. ASSUME NEW r \in Requests, createOrganization(r)
        PROVE  View(u)' = View(u) \/ u \in told'
    <3>1. /\ founded' = founded \cup {request[r].user}
          /\ told' = {request[r].user}
          /\ UNCHANGED <<members, access, org, collections, links>>
      BY <2>4 DEF createOrganization
    <3>. QED  BY <3>1, SameRowsSameView
  <2>5. ASSUME NEW v \in Users, setAdminUserStatus(v) PROVE View(u)' = View(u)
    BY <2>5, SameRowsSameView DEF setAdminUserStatus
  <2>6. ASSUME NEW v \in Users, deleteAccountData(v) PROVE View(u)' = View(u)
    <3>1. u # v
      BY <1>1, <2>6 DEF deleteAccountData, OrgInv, TypeOK
    <3>2. members'[u] = members[u] /\ access'[u] = access[u]
      BY <1>1, <2>6, <3>1 DEF deleteAccountData, OrgInv, TypeOK
    <3>. QED  BY <2>6, <3>2, SameRowsSameView DEF deleteAccountData
  <2>7. ASSUME NEW r \in Requests,
               \/ readOrganization(r) \/ readLinks(r)
               \/ resolveOrganizationCipherCollectionsForUpdate(r)
               \/ \E c \in Collections : requireCollection(r, c)
               \/ \E v \in Users, kind \in Kinds : requireOrgMember(r, v, kind)
               \/ \E v \in Users : readLeaver(r, v) \/ authenticateFounder(r, v)
               \/ \E v \in Users, offer \in Offers :
                    \/ readInvitee(r, v, offer.role, offer.all, offer.grants)
                    \/ readMember(r, v, offer.role, offer.all, offer.grants)
               \/ \E v \in Users, i \in Items, chosen \in SUBSET Collections :
                    requireCipherWrite(r, v, i, chosen)
               \/ \E v \in Users, kind \in LinkKinds, items \in SUBSET Items,
                     chosen \in SUBSET Collections :
                    validateOrganizationCollections(r, v, kind, items, chosen)
        PROVE  Reads
    BY <2>7 DEF readOrganization, readLinks, requireCollection, requireOrgMember,
                readLeaver, authenticateFounder, readInvitee, readMember,
                requireCipherWrite, validateOrganizationCollections,
                resolveOrganizationCipherCollectionsForUpdate, Refuse
  <2>. QED  BY <2>1, <2>2, <2>3, <2>4, <2>5, <2>6, <2>7 DEF Next
<1>. QED  BY <1>1, SpecOrgInv, PTL DEF Spec, ChangesAreTold
=============================================================================
