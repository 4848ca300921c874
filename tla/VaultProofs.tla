---------------------------- MODULE VaultProofs ----------------------------
(***************************************************************************)
(* Vault and VaultSync, for every set of users, items, folders, requests   *)
(* and readers.                                                            *)
(*                                                                         *)
(* A token names one version of an item because a batch that changes what  *)
(* the version is stores a token no item has had (WritesBoundTokens), and  *)
(* because an id is given to one item only (IdsFresh).  That a purged item *)
(* stays purged follows: a request that read it before holds an old token. *)
(*                                                                         *)
(* What is in a folder is its user's because a batch files an item only    *)
(* for the owner the request read, or under a foreign key (RequestsOwn),   *)
(* and the deletion of a folder takes out what is in it (Filing).          *)
(*                                                                         *)
(* An edit with a revision date overwrites what its client had because a   *)
(* date goes forward with every token (DatesTell), as long as nothing      *)
(* moves a date without its token (OnlyEditsDate).                     *)
(*                                                                         *)
(* Every step tells a user of what it changes of the vault the user sees,  *)
(* by the revision or by leaving it to be announced (Tells).  So what a    *)
(* synchronization has read is the vault while the revision is the one it  *)
(* began with (ReadsHold), and its answer is, for as long (SyncInv).       *)
(***************************************************************************)
EXTENDS VaultSync, TLAPS

\* Ids no item has; tokens are numbers of batches that have run; what a
\* request has read is a row that exists since.
AbsentRows == \A c \in Ciphers : ciphers[c].state = "absent" => ciphers[c] = NoRow

WritesBoundTokens == \A c \in Ciphers : ciphers[c].token <= writes

SeenRowsExist ==
  \A r \in Requests, c \in Ciphers :
    request[r] # None /\ request[r].seen[c].state # "absent"
      => /\ ciphers[c].state # "absent"
         /\ request[r].seen[c].state # "purged"
         /\ request[r].seen[c].token <= writes

Makes(r, c) ==
  request[r] # None /\ request[r].kind \in {"create", "import"}
    /\ c \in request[r].ids

IdsFresh ==
  \A r \in Requests, c \in Ciphers : Makes(r, c) =>
    /\ ciphers[c].state = "absent"
    /\ \A o \in Requests : Makes(o, c) => o = r

Inv ==
  /\ TypeOK
  /\ AbsentRows
  /\ WritesBoundTokens
  /\ SeenRowsExist
  /\ IdsFresh
  /\ TokensNameVersions

-----------------------------------------------------------------------------
(* What the helpers return *)

LEMMA LaterType ==
  ASSUME NEW a \in Nat, NEW ts \in Nat
  PROVE  Later(a, ts) \in Nat
BY DEF Later, Maximum

LEMMA TimesType ==
  ASSUME TypeOK, NEW q \in Request, NEW ts \in Times(q)
  PROVE  ts \in Nat
BY DEF TypeOK, Times, Request

LEMMA AnnounceType ==
  ASSUME TypeOK, NEW us, NEW ts \in Nat, NEW seers \in SUBSET Users,
         Announce(us, ts, seers)
  PROVE  revision' \in [Users -> Nat] /\ unannounced' \subseteq Users
BY DEF TypeOK, Announce, NextRevision, Maximum

LEMMA NoRowType == NoRow \in Row /\ NoView \in View /\ NoRow.state = "absent"
                   /\ NoRow.token = 0 /\ NoRow.owner = None
BY DEF NoRow, Row, NoView, View, MaybeFolder

\* A row a batch has claimed has its type, a token of its own, and exists; it
\* was not purged, unless it still is or the request is to restore it.  Its date
\* has moved on, and its owner and folder are what the request makes of them.
LEMMA AfterRow ==
  ASSUME TypeOK, NEW q \in Request, q.kind \in ItemKinds, NEW c \in Ciphers,
         NEW ts \in Nat
  PROVE  /\ After(q, c, ts) \in Row
         /\ After(q, c, ts).token = writes + 1
         /\ ciphers[c].state # "absent" => After(q, c, ts).state # "absent"
         /\ q.kind # "restore" /\ Fits(q, c) /\ ciphers[c].state = "purged"
              => After(q, c, ts).state = "purged"
         /\ After(q, c, ts).updated =
              Later(IF q.bulk /\ q.kind # "share" THEN ciphers[c].updated
                    ELSE q.seen[c].updated, ts)
         /\ After(q, c, ts).owner =
              IF q.kind = "share" THEN Organization
              ELSE IF q.kind = "update" THEN q.seen[c].owner
              ELSE ciphers[c].owner
         /\ After(q, c, ts).folder =
              IF q.kind = "share" THEN None
              ELSE IF q.kind = "update"
                   THEN IF q.seen[c].owner = Organization THEN None
                        ELSE q.folder
              ELSE IF q.kind = "file" THEN q.folder
              ELSE ciphers[c].folder
<1> DEFINE row == ciphers[c]
           base == IF q.bulk /\ q.kind # "share" THEN row.updated
                   ELSE q.seen[c].updated
           new == [row EXCEPT !.token = writes + 1, !.updated = Later(base, ts)]
<1>1. row \in Row /\ q.seen[c] \in Row /\ writes + 1 \in Nat
  BY DEF TypeOK, Request
<1>2. Later(base, ts) \in Nat
  BY <1>1, LaterType DEF Row
<1>3. /\ new \in Row /\ new.token = writes + 1 /\ new.state = row.state
      /\ new.owner = row.owner /\ new.folder = row.folder
      /\ new.updated = Later(base, ts)
  BY <1>1, <1>2 DEF Row
<1>4. q.folder \in MaybeFolder /\ None \in MaybeFolder
      /\ q.seen[c].owner \in Users \cup {Organization, None}
      /\ Organization \in Users \cup {Organization, None}
  BY <1>1 DEF Request, Row, MaybeFolder
<1> HIDE DEF row, base, new
<1>5. CASE q.kind = "update"
  <2>1. After(q, c, ts) =
          [new EXCEPT !.owner = q.seen[c].owner, !.content = writes + 1,
             !.folder = IF q.seen[c].owner = Organization THEN None ELSE q.folder]
    BY <1>5 DEF After, new, base, row
  <2> QED BY <2>1, <1>1, <1>3, <1>4, <1>5 DEF Row, row, base
<1>6. CASE q.kind = "share"
  <2>1. After(q, c, ts) = [new EXCEPT !.owner = Organization,
                              !.content = writes + 1, !.folder = None]
    BY <1>6 DEF After, new, base, row
  <2> QED BY <2>1, <1>1, <1>3, <1>4, <1>6 DEF Row, row, base
<1>7. CASE q.kind = "trash"
  <2>1. After(q, c, ts) = [new EXCEPT !.state = "trash"]
    BY <1>7 DEF After, new, base, row
  <2>2. Fits(q, c) => row.state = "live"
    BY <1>7 DEF Fits, row
  <2> QED BY <2>1, <2>2, <1>1, <1>3, <1>7 DEF Row, row, base
<1>8. CASE q.kind = "erase"
  <2>1. After(q, c, ts) = [new EXCEPT !.state = "purged"]
    BY <1>8 DEF After, new, base, row
  <2> QED BY <2>1, <1>1, <1>3, <1>8 DEF Row, row, base
<1>9. CASE q.kind = "restore"
  <2>1. After(q, c, ts) = [new EXCEPT !.state = "live"]
    BY <1>9 DEF After, new, base, row
  <2> QED BY <2>1, <1>1, <1>3, <1>9 DEF Row, row, base
<1>10. CASE q.kind = "archive"
  <2>1. After(q, c, ts) = [new EXCEPT
          !.archived = IF q.seen[c].owner = Organization THEN 0 ELSE ts]
    BY <1>10 DEF After, new, base, row
  <2> QED BY <2>1, <1>1, <1>3, <1>10 DEF Row, row, base
<1>11. CASE q.kind = "unarchive"
  <2>1. After(q, c, ts) = [new EXCEPT !.archived = 0]
    BY <1>11 DEF After, new, base, row
  <2> QED BY <2>1, <1>1, <1>3, <1>11 DEF Row, row, base
<1>12. CASE q.kind = "file"
  <2>1. After(q, c, ts) = [new EXCEPT !.folder = q.folder]
    BY <1>12 DEF After, new, base, row
  <2> QED BY <2>1, <1>1, <1>3, <1>4, <1>12 DEF Row, row, base
<1> QED BY <1>5, <1>6, <1>7, <1>8, <1>9, <1>10, <1>11, <1>12 DEF ItemKinds

LEMMA ViewAfterType ==
  ASSUME TypeOK, NEW q \in Request, NEW c \in Ciphers, NEW ts \in Nat
  PROVE  ViewAfter(q, c, ts) \in View
<1>1. q.seen[c] \in Row /\ q.view \in View /\ q.folder \in MaybeFolder
  BY DEF Request
<1>2. Later(q.seen[c].updated, ts) \in Nat
  BY <1>1, LaterType DEF Row
<1> QED BY <1>1, <1>2 DEF ViewAfter, View, Row

LEMMA PurgedAllRows ==
  ASSUME TypeOK, NEW owner, NEW ts \in Nat
  PROVE  /\ PurgedAll(owner, ts) \in [Ciphers -> Row]
         /\ \A c \in Ciphers :
              IF ciphers[c].owner = owner
              THEN /\ PurgedAll(owner, ts)[c].token = writes + 1
                   /\ PurgedAll(owner, ts)[c].state = "purged"
              ELSE PurgedAll(owner, ts)[c] = ciphers[c]
<1> SUFFICES ASSUME NEW c \in Ciphers
             PROVE  LET row == PurgedRow(ciphers[c], ts, writes + 1)
                    IN  row \in Row /\ row.token = writes + 1
                        /\ row.state = "purged"
  BY DEF PurgedAll, TypeOK
<1>1. ciphers[c] \in Row /\ writes + 1 \in Nat
  BY DEF TypeOK
<1>2. Later(ciphers[c].updated, ts) \in Nat
  BY <1>1, LaterType DEF Row
<1> QED BY <1>1, <1>2 DEF PurgedRow, Row

LEMMA NewRowType ==
  ASSUME TypeOK, NEW q \in Request, NEW owner \in Users \cup {Organization},
         NEW f \in MaybeFolder
  PROVE  NewRow(q, owner, f) \in Row /\ NewRow(q, owner, f).token = 0
         /\ NewRow(q, owner, f).state = "live"
<1>1. q.ts \in Nat /\ writes + 1 \in Nat
  BY DEF Request, TypeOK
<1> QED BY <1>1 DEF NewRow, Row, MaybeFolder

LEMMA UnfiledRow ==
  ASSUME TypeOK, NEW q \in FolderRequest, NEW row \in Row
  PROVE  /\ Unfiled(row, q) \in Row
         /\ Unfiled(row, q).token = row.token
         /\ SameItem(Unfiled(row, q), row)
<1>1. q.ts \in Nat /\ Later(row.updated, q.ts) \in Nat
  BY LaterType DEF FolderRequest, Row
<1> QED BY <1>1 DEF Unfiled, Row, MaybeFolder, SameItem

-----------------------------------------------------------------------------
(* Types *)

LEMMA CommitsType ==
  ASSUME TypeOK, Commits  PROVE writes' \in Nat /\ writes' = writes + 1
BY DEF TypeOK, Commits

LEMMA RequestType ==
  ASSUME TypeOK, NEW r \in Requests, request[r] # None
  PROVE  /\ request[r] \in Request
         /\ request[r].user \in Users /\ request[r].seen \in [Ciphers -> Row]
         /\ request[r].ids \subseteq Ciphers /\ request[r].ts \in Nat
         /\ request[r].folder \in MaybeFolder
         /\ request[r].owner \in Users \cup {Organization}
BY DEF TypeOK, Request

LEMMA SeenRowsType ==
  ASSUME TypeOK, NEW ids
  PROVE  SeenRows(ids) \in [Ciphers -> Row]
BY NoRowType DEF SeenRows, TypeOK

LEMMA OwnViewType ==
  ASSUME TypeOK, NEW u \in Users, NEW c \in Ciphers
  PROVE  OwnView(u, c) \in View
BY DEF TypeOK, OwnView, View, Row

LEMMA FirstRows ==
  ASSUME Init
  PROVE  \E own \in [Ciphers -> Users \cup {Organization, None}],
            filed \in [Ciphers -> MaybeFolder] :
           ciphers = [c \in Ciphers |->
             IF own[c] = None THEN NoRow
             ELSE [NoRow EXCEPT !.owner = own[c], !.state = "live",
                                !.folder = filed[c]]]
BY DEF Init

LEMMA InitType == ASSUME Init PROVE TypeOK
<1> USE VaultAssumption, NoRowType
<1>1. ciphers \in [Ciphers -> Row]
  <2>1. PICK own \in [Ciphers -> Users \cup {Organization, None}],
             filed \in [Ciphers -> MaybeFolder] :
          ciphers = [c \in Ciphers |->
            IF own[c] = None THEN NoRow
            ELSE [NoRow EXCEPT !.owner = own[c], !.state = "live",
                               !.folder = filed[c]]]
    BY FirstRows
  <2>2. \A c \in Ciphers :
          [NoRow EXCEPT !.owner = own[c], !.state = "live",
                        !.folder = filed[c]] \in Row
    BY DEF NoRow, Row, MaybeFolder
  <2> QED BY <2>1, <2>2
<1>2. folders \in [Folders -> FolderRow]
  <2>1. PICK S \in SUBSET Folders :
          folders = [f \in Folders |->
            [state |-> IF f \in S THEN "live" ELSE "absent", token |-> 0]]
    BY DEF Init
  <2> QED BY <2>1 DEF FolderRow
<1>3. members \subseteq Users
  <2>1. PICK S \in SUBSET Users : members = S \cup {OrgOwner}
    BY DEF Init
  <2> QED BY <2>1
<1>4. views \in [Users -> [Ciphers -> View]] /\ revision \in [Users -> Nat]
      /\ request \in [Requests -> Request \cup {None}]
      /\ folderRequest \in [FolderRequests -> FolderRequest \cup {None}]
  BY DEF Init
<1>5. organization \in {"live", "deleted"} /\ unannounced \subseteq Users
      /\ now \in Nat /\ writes \in Nat
  BY DEF Init
<1> QED BY <1>1, <1>2, <1>3, <1>4, <1>5 DEF TypeOK

\* Requests that only read, or give up.
LEMMA ReadTypes ==
  ASSUME TypeOK, NEW r \in Requests,
         \/ StartSome(r)
         \/ StartMany(r)
         \/ \E u \in Users, owner \in Users \cup {Organization} :
              StartPurge(r, u, owner)
         \/ SkipItems(r) \/ GiveUp(r)
  PROVE  TypeOK'
<1> USE VaultAssumption
<1>1. SUFFICES /\ request' \in [Requests -> Request \cup {None}]
               /\ UNCHANGED <<ciphers, views, folders, members, organization,
                              revision, unannounced, folderRequest, now, writes>>
  BY DEF TypeOK
<1>2. ASSUME NEW u \in Users, NEW c \in Ciphers, NEW f \in MaybeFolder,
             NEW kind \in (ItemKinds \cup {"attach"}) \cap Operations,
             StartItem(r, u, c, kind, f)
      PROVE  <1>1!1
  <2>1. SeenRows({c}) \in [Ciphers -> Row] /\ OwnView(u, c) \in View
    BY SeenRowsType, OwnViewType
  <2> QED BY <1>2, <2>1 DEF StartItem, TypeOK, Request
<1>3. ASSUME NEW u \in Users, NEW c \in Ciphers, OpenItem(r, u, c)
      PROVE  <1>1!1
  <2>1. SeenRows({c}) \in [Ciphers -> Row] /\ OwnView(u, c) \in View
    BY SeenRowsType, OwnViewType
  <2> QED BY <1>3, <2>1 DEF OpenItem, TypeOK, Request, ItemKinds, MaybeFolder
<1>4. ASSUME NEW c \in Ciphers, NEW f \in MaybeFolder, SubmitEdit(r, c, f)
      PROVE  <1>1!1
  <2>1. request[r] \in Request /\ request[r].user \in Users
        /\ request[r].seen[c].content \in Nat
    BY <1>4, RequestType DEF SubmitEdit, Busy, Row
  <2>2. SeenRows({c}) \in [Ciphers -> Row] /\ OwnView(request[r].user, c) \in View
    BY SeenRowsType, OwnViewType, <2>1
  <2>3. [request[r] EXCEPT !.phase = "ready", !.seen = SeenRows({c}),
           !.view = OwnView(request[r].user, c), !.folder = f,
           !.base = request[r].seen[c].content, !.ts = now] \in Request
    BY <2>1, <2>2 DEF Request, TypeOK
  <2> QED BY <1>4, <2>3 DEF SubmitEdit, TypeOK
<1>5. ASSUME NEW u \in Users, NEW owner \in Users \cup {Organization},
             NEW ids \in SUBSET Ciphers, NEW f \in MaybeFolder,
             NEW kind \in {"create", "import", "purge"}
      PROVE  Making(kind, u, owner, ids, f) \in Request
  BY NoRowType DEF Making, Request, TypeOK
<1>6. ASSUME NEW u \in Users, NEW c \in Ciphers, NEW f \in MaybeFolder,
             NEW owner \in Users \cup {Organization}, StartCreate(r, u, owner, c, f)
      PROVE  <1>1!1
  BY <1>6, <1>5 DEF StartCreate, TypeOK
<1>7. ASSUME NEW u \in Users, NEW ids \in SUBSET Ciphers \ {{}},
             NEW f \in MaybeFolder, NEW kind \in BulkKinds \cap Operations,
             StartBulk(r, u, ids, kind, f)
      PROVE  <1>1!1
  <2> DEFINE mine == {c \in ids : Candidate(kind, u, c, f)}
  <2>1. SeenRows(mine) \in [Ciphers -> Row]
    BY SeenRowsType
  <2>2. kind \in ItemKinds
    BY DEF BulkKinds, FilingKinds, ItemKinds
  <2> QED BY <1>7, <2>1, <2>2, NoRowType DEF StartBulk, TypeOK, Request
<1>8. ASSUME NEW u \in Users, NEW ids \in SUBSET Ciphers \ {{}},
             NEW f \in MaybeFolder, StartImport(r, u, ids, f)
      PROVE  <1>1!1
  BY <1>8, <1>5 DEF StartImport, TypeOK
<1>9. ASSUME NEW u \in Users, NEW owner \in Users \cup {Organization},
             StartPurge(r, u, owner)
      PROVE  <1>1!1
  <2>1. None \in MaybeFolder
    BY DEF MaybeFolder
  <2> QED BY <1>9, <1>5, <2>1 DEF StartPurge, TypeOK
<1>10. CASE SkipItems(r)
  <2>1. request[r] \in Request
    BY <1>10, RequestType DEF SkipItems, Busy
  <2>2. [request[r] EXCEPT !.phase = "views"] \in Request
    BY <2>1 DEF Request
  <2> QED BY <1>10, <2>2 DEF SkipItems, TypeOK
<1>11. CASE GiveUp(r)
  BY <1>11 DEF GiveUp, TypeOK
<1> QED BY <1>2, <1>3, <1>4, <1>6, <1>7, <1>8, <1>9, <1>10, <1>11
        DEF StartSome, StartMany

-----------------------------------------------------------------------------
(* What a step does to a row: it leaves the row's version alone, gives an  *)
(* unused id to an item, or makes a new version with a new token.          *)

KeepsVersion(c) ==
  /\ ciphers'[c].token = ciphers[c].token
  /\ SameItem(ciphers'[c], ciphers[c])
  /\ ciphers[c].state = "absent" => ciphers'[c] = ciphers[c]

MakesItem(c) ==
  /\ \E r \in Requests : Makes(r, c) /\ ~Makes(r, c)'
  /\ ciphers'[c].state = "live" /\ ciphers'[c].token = 0

MarksVersion(c) ==
  /\ ciphers[c].state # "absent" /\ ciphers'[c].state # "absent"
  /\ ciphers[c].state = "purged" => ciphers'[c].state = "purged"
  /\ ciphers'[c].token = writes + 1 /\ writes' = writes + 1

RowStep(c) == KeepsVersion(c) \/ MakesItem(c) \/ MarksVersion(c)

\* What a step that is not a read does to the requests.
RequestStep ==
  \A r \in Requests : request'[r] # None =>
    /\ request[r] # None
    /\ request'[r].seen = request[r].seen
    /\ request'[r].kind = request[r].kind
    /\ request'[r].ids \subseteq request[r].ids
    /\ request'[r].user = request[r].user
    /\ request'[r].owner = request[r].owner
    /\ request'[r].bulk = request[r].bulk
    /\ request'[r].base = request[r].base
    /\ request'[r].phase = "editing" => request[r].phase = "editing"

WriteStep ==
  /\ TypeOK'
  /\ \A c \in Ciphers : RowStep(c)
  /\ RequestStep
  /\ writes' \in {writes, writes + 1}

LEMMA SameRows ==
  ASSUME UNCHANGED ciphers
  PROVE  \A c \in Ciphers : RowStep(c)
BY DEF RowStep, KeepsVersion, SameItem

LEMMA RequestEnds ==
  ASSUME TypeOK, NEW r \in Requests, request' = [request EXCEPT ![r] = None]
  PROVE  /\ RequestStep
         /\ request' \in [Requests -> Request \cup {None}]
         /\ \A o \in Requests : o # r => request'[o] = request[o]
         /\ request'[r] = None
BY DEF TypeOK, RequestStep

LEMMA RequestGoesOn ==
  ASSUME TypeOK, NEW r \in Requests, request[r] # None,
         NEW phase \in {"views", "announce"},
         request' = [request EXCEPT ![r] = [request[r] EXCEPT !.phase = phase]]
  PROVE  RequestStep /\ request' \in [Requests -> Request \cup {None}]
<1>1. request[r] \in Request
  BY DEF TypeOK
<1>2. [request[r] EXCEPT !.phase = phase] \in Request
  BY <1>1 DEF Request
<1>3. LET q == [request[r] EXCEPT !.phase = phase]
      IN  /\ q.seen = request[r].seen /\ q.kind = request[r].kind
          /\ q.ids = request[r].ids /\ q.user = request[r].user
          /\ q.owner = request[r].owner /\ q.bulk = request[r].bulk
          /\ q.base = request[r].base /\ q.phase = phase
  BY <1>1 DEF Request
<1> QED BY <1>1, <1>2, <1>3 DEF TypeOK, RequestStep

LEMMA ItemsStep ==
  ASSUME Inv, NEW r \in Requests, CommitItems(r)
  PROVE  WriteStep
<1> DEFINE q == request[r]
           claimed == Claimed(q)
<1>1. TypeOK /\ q # None /\ q \in Request /\ q.kind \in ItemKinds
      /\ claimed \subseteq Ciphers
  BY RequestType DEF Inv, CommitItems, Busy, Claimed, Candidates, Request
<1>2. PICK ts \in Times(q) :
        /\ ciphers' = [c \in Ciphers |->
             IF c \in claimed THEN After(q, c, ts) ELSE ciphers[c]]
        /\ views' = [views EXCEPT ![q.user] = [c \in Ciphers |->
             IF c \in claimed /\ WritesView(q, c) THEN ViewAfter(q, c, ts)
             ELSE @[c]]]
        /\ Announce(UNION {Audience(ciphers'[c].owner) : c \in claimed}, ts,
                    IF q.kind = "share" THEN {q.user} ELSE {})
  BY DEF CommitItems
<1>3. ts \in Nat
  BY <1>1, TimesType
<1>4. writes' \in Nat /\ writes' = writes + 1
  BY <1>1, CommitsType DEF CommitItems
<1>5. ASSUME NEW c \in claimed
      PROVE  /\ After(q, c, ts) \in Row
             /\ ciphers[c].state # "absent" /\ ciphers[c].state # "purged"
             /\ After(q, c, ts).state # "absent"
             /\ After(q, c, ts).token = writes + 1
  <2>1. c \in Ciphers /\ q.seen[c].state # "absent" /\ Fenced(q, c)
    BY <1>1 DEF Claimed, Candidates
  <2>2. SameItem(q.seen[c], ciphers[c])
    BY <1>1, <2>1 DEF Inv, TokensNameVersions, Fenced
  <2>3. ciphers[c].state # "absent" /\ ciphers[c].state # "purged"
    BY <1>1, <2>1, <2>2 DEF Inv, SeenRowsExist, SameItem
  <2> QED BY <1>1, <1>3, <2>1, <2>3, AfterRow
<1>6. ciphers' \in [Ciphers -> Row]
  BY <1>1, <1>2, <1>5 DEF TypeOK
<1>7. views' \in [Users -> [Ciphers -> View]]
  <2>1. q.user \in Users /\ views[q.user] \in [Ciphers -> View]
    BY <1>1 DEF Request, TypeOK
  <2>2. \A c \in Ciphers : ViewAfter(q, c, ts) \in View
    BY <1>1, <1>3, ViewAfterType
  <2>3. [c \in Ciphers |->
          IF c \in claimed /\ WritesView(q, c) THEN ViewAfter(q, c, ts)
          ELSE views[q.user][c]] \in [Ciphers -> View]
    BY <2>1, <2>2
  <2> QED BY <1>1, <1>2, <2>1, <2>3 DEF TypeOK
<1>8. revision' \in [Users -> Nat] /\ unannounced' \subseteq Users
  <2>1. (IF q.kind = "share" THEN {q.user} ELSE {}) \in SUBSET Users
    BY <1>1 DEF Request
  <2> QED BY <1>1, <1>2, <1>3, <2>1, AnnounceType
<1>9. RequestStep /\ request' \in [Requests -> Request \cup {None}]
  BY <1>1, RequestEnds, RequestGoesOn DEF CommitItems
<1>10. TypeOK'
  BY <1>1, <1>4, <1>6, <1>7, <1>8, <1>9 DEF CommitItems, TypeOK
<1>11. ASSUME NEW c \in Ciphers PROVE RowStep(c)
  <2>1. CASE c \in claimed
    BY <1>2, <1>4, <1>5, <2>1 DEF RowStep, MarksVersion
  <2>2. CASE c \notin claimed
    BY <1>2, <2>2 DEF RowStep, KeepsVersion, SameItem
  <2> QED BY <2>1, <2>2
<1> QED BY <1>4, <1>9, <1>10, <1>11 DEF WriteStep

LEMMA OtherItemSteps ==
  ASSUME Inv, NEW r \in Requests,
         \/ UpdateViews(r)
         \/ AnnounceViews(r)
         \/ \E c \in Ciphers : FileView(r, c)
  PROVE  WriteStep
<1> DEFINE q == request[r]
<1>1. TypeOK /\ q # None /\ q \in Request
  BY RequestType DEF Inv, UpdateViews, AnnounceViews, FileView, Busy
<1>2. q.user \in Users /\ q.ts \in Nat /\ q.folder \in MaybeFolder
      /\ q.seen \in [Ciphers -> Row] /\ views[q.user] \in [Ciphers -> View]
  BY <1>1 DEF Request, TypeOK
<1>3. UNCHANGED ciphers
  BY DEF UpdateViews, AnnounceViews, FileView
<1>4. CASE UpdateViews(r)
  <2> DEFINE new(c) ==
               IF q.kind = "file" THEN [views[q.user][c] EXCEPT !.folder = q.folder]
               ELSE [views[q.user][c] EXCEPT
                       !.archived = IF q.kind = "archive" THEN q.ts ELSE 0]
             changed == {c \in q.ids :
                    /\ ciphers[c].owner = Organization /\ q.user \in members
                    /\ ciphers[c].state = "live" /\ views[q.user][c] # new(c)}
  <2>1. writes' \in Nat /\ writes' \in {writes, writes + 1}
    <3>1. (changed # {} => Commits) /\ (changed = {} => UNCHANGED writes)
      BY <1>4 DEF UpdateViews
    <3> QED BY <1>1, <3>1, CommitsType DEF TypeOK
  <2>2. \A c \in Ciphers : new(c) \in View
    BY <1>2 DEF View
  <2>3. views' = [views EXCEPT ![q.user] = [c \in Ciphers |->
           IF c \in changed THEN new(c) ELSE views[q.user][c]]]
    BY <1>4 DEF UpdateViews
  <2>4. [c \in Ciphers |-> IF c \in changed THEN new(c) ELSE views[q.user][c]]
          \in [Ciphers -> View]
    BY <1>2, <2>2
  <2>5. views' \in [Users -> [Ciphers -> View]]
    BY <1>1, <1>2, <2>3, <2>4 DEF TypeOK
  <2>6. unannounced' \subseteq Users
    BY <1>1, <1>2, <1>4 DEF UpdateViews, TypeOK
  <2>7. RequestStep /\ request' \in [Requests -> Request \cup {None}]
    BY <1>1, <1>4, RequestEnds, RequestGoesOn DEF UpdateViews
  <2> QED BY <1>1, <1>3, <1>4, <2>1, <2>5, <2>6, <2>7, SameRows
          DEF UpdateViews, TypeOK, WriteStep
<1>5. CASE AnnounceViews(r)
  <2>1. revision' \in [Users -> Nat] /\ unannounced' \subseteq Users
    <3>1. Announce({q.user}, q.ts, {}) /\ {} \in SUBSET Users
      BY <1>5 DEF AnnounceViews
    <3> QED BY <1>1, <1>2, <3>1, AnnounceType
  <2>2. RequestStep /\ request' \in [Requests -> Request \cup {None}]
    BY <1>1, <1>5, RequestEnds DEF AnnounceViews
  <2> QED BY <1>1, <1>3, <1>5, <2>1, <2>2, SameRows
          DEF AnnounceViews, TypeOK, WriteStep
<1>6. ASSUME NEW c \in Ciphers, FileView(r, c) PROVE WriteStep
  <2>1. PICK ts \in Times(q) : Announce({q.user}, Later(q.seen[c].updated, ts), {})
    BY <1>6 DEF FileView
  <2>2. Later(q.seen[c].updated, ts) \in Nat
    BY <1>1, <1>2, <2>1, TimesType, LaterType DEF Row
  <2>3. revision' \in [Users -> Nat] /\ unannounced' \subseteq Users
    <3>1. {} \in SUBSET Users
      OBVIOUS
    <3> QED BY <1>1, <2>1, <2>2, <3>1, AnnounceType
  <2>4. views' \in [Users -> [Ciphers -> View]]
    <3>1. [views[q.user][c] EXCEPT !.folder = q.folder] \in View
      BY <1>2 DEF View
    <3>2. views' = [views EXCEPT ![q.user] =
              [views[q.user] EXCEPT ![c] =
                 [views[q.user][c] EXCEPT !.folder = q.folder]]]
      BY <1>6 DEF FileView
    <3> QED BY <1>1, <1>2, <3>1, <3>2 DEF TypeOK
  <2>5. writes' \in Nat /\ writes' = writes + 1
    BY <1>1, <1>6, CommitsType DEF FileView
  <2>6. RequestStep /\ request' \in [Requests -> Request \cup {None}]
    BY <1>1, <1>6, RequestEnds DEF FileView
  <2> QED BY <1>1, <1>3, <1>6, <2>3, <2>4, <2>5, <2>6, SameRows
          DEF FileView, TypeOK, WriteStep
<1> QED BY <1>4, <1>5, <1>6

\* An id a request makes into an item is out of its hands afterwards.
LEMMA RowsMade ==
  ASSUME Inv, NEW r \in Requests, NEW made \in SUBSET request[r].ids,
         NEW row \in Row, row.state = "live", row.token = 0,
         request[r] # None, request[r].kind \in {"create", "import"},
         request'[r] # None => request'[r].ids \cap made = {},
         ciphers' = [c \in Ciphers |-> IF c \in made THEN row ELSE ciphers[c]]
  PROVE  (\A c \in Ciphers : RowStep(c)) /\ ciphers' \in [Ciphers -> Row]
<1>1. ASSUME NEW c \in Ciphers PROVE RowStep(c)
  <2>1. CASE c \in made
    <3>1. Makes(r, c) /\ ~Makes(r, c)'
      BY <2>1 DEF Makes
    <3>2. ciphers'[c].state = "live" /\ ciphers'[c].token = 0
      BY <2>1
    <3> QED BY <3>1, <3>2 DEF RowStep, MakesItem
  <2>2. CASE c \notin made
    BY <2>2 DEF RowStep, KeepsVersion, SameItem
  <2> QED BY <2>1, <2>2
<1> QED BY <1>1 DEF Inv, TypeOK

LEMMA MakingSteps ==
  ASSUME Inv, NEW r \in Requests,
         \/ \E c \in Ciphers : CommitCreate(r, c)
         \/ \E chunk \in SUBSET Ciphers : ImportChunk(r, chunk)
         \/ ImportLastChunk(r)
  PROVE  WriteStep
<1> DEFINE q == request[r]
<1>0. TypeOK
  BY DEF Inv
<1>1. q # None /\ q \in Request
  BY <1>0, RequestType DEF CommitCreate, ImportChunk, ImportLastChunk, Busy
<1>2. q.user \in Users /\ q.ts \in Nat /\ q.folder \in MaybeFolder
      /\ q.owner \in Users \cup {Organization} /\ q.ids \subseteq Ciphers
      /\ None \in MaybeFolder /\ views[q.user] \in [Ciphers -> View]
  BY <1>0, <1>1 DEF Request, MaybeFolder, TypeOK
<1>3. ASSUME NEW us, NEW ts \in Nat, Announce(us, ts, {})
      PROVE  revision' \in [Users -> Nat] /\ unannounced' \subseteq Users
  <2>1. {} \in SUBSET Users
    OBVIOUS
  <2> QED BY <1>0, <1>3, <2>1, AnnounceType
<1>4. ASSUME NEW c \in Ciphers, CommitCreate(r, c) PROVE WriteStep
  <2> DEFINE row == NewRow(q, q.owner,
                      IF q.owner = Organization THEN None ELSE q.folder)
  <2>1. row \in Row /\ row.token = 0 /\ row.state = "live"
    BY <1>0, <1>1, <1>2, NewRowType
  <2>2. ciphers' = [ciphers EXCEPT ![c] = row] /\ q.kind = "create"
        /\ {c} \in SUBSET q.ids /\ c \in q.ids
    BY <1>4 DEF CommitCreate
  <2>3. ciphers' = [d \in Ciphers |-> IF d \in {c} THEN row ELSE ciphers[d]]
    BY <1>0, <2>2 DEF TypeOK
  <2>4. RequestStep /\ request' \in [Requests -> Request \cup {None}]
        /\ request'[r] = None
    BY <1>0, <1>4, RequestEnds DEF CommitCreate
  <2> HIDE DEF row
  <2>5. (\A d \in Ciphers : RowStep(d)) /\ ciphers' \in [Ciphers -> Row]
    BY <1>1, <2>1, <2>2, <2>3, <2>4, RowsMade
  <2>6. views' \in [Users -> [Ciphers -> View]]
    <3>1. [folder |-> q.folder, archived |-> 0] \in View
      BY <1>2 DEF View
    <3>2. \/ views' = views
          \/ views' = [views EXCEPT ![q.user] = [views[q.user] EXCEPT ![c] =
                         [folder |-> q.folder, archived |-> 0]]]
      BY <1>4 DEF CommitCreate
    <3>3. [views[q.user] EXCEPT ![c] = [folder |-> q.folder, archived |-> 0]]
            \in [Ciphers -> View]
      BY <1>2, <3>1
    <3> QED BY <1>0, <1>2, <3>2, <3>3 DEF TypeOK
  <2>7. writes' \in Nat /\ writes' = writes + 1
    BY <1>0, <1>4, CommitsType DEF CommitCreate
  <2>8. revision' \in [Users -> Nat] /\ unannounced' \subseteq Users
    BY <1>2, <1>3, <1>4 DEF CommitCreate
  <2> QED BY <1>0, <1>4, <2>4, <2>5, <2>6, <2>7, <2>8
          DEF CommitCreate, TypeOK, WriteStep
<1>5. NewRow(q, q.owner, q.folder) \in Row
      /\ NewRow(q, q.owner, q.folder).token = 0
      /\ NewRow(q, q.owner, q.folder).state = "live"
  BY <1>0, <1>1, <1>2, NewRowType
<1>6. ASSUME NEW chunk \in SUBSET Ciphers, ImportChunk(r, chunk)
      PROVE  WriteStep
  <2>1. q.kind \in {"create", "import"} /\ chunk \in SUBSET q.ids
    BY <1>6 DEF ImportChunk
  <2>2. request' = [request EXCEPT ![r] = [q EXCEPT !.ids = q.ids \ chunk]]
    BY <1>6 DEF ImportChunk
  <2>3. [q EXCEPT !.ids = q.ids \ chunk] \in Request
    BY <1>1, <1>2 DEF Request
  <2>4. request' \in [Requests -> Request \cup {None}]
        /\ request'[r].ids = q.ids \ chunk /\ RequestStep
    BY <1>0, <1>1, <2>2, <2>3 DEF TypeOK, RequestStep, Request
  <2>5. ciphers' = [c \in Ciphers |-> IF c \in chunk
                      THEN NewRow(q, q.owner, q.folder) ELSE ciphers[c]]
    BY <1>6 DEF ImportChunk, Imported
  <2>6. (\A c \in Ciphers : RowStep(c)) /\ ciphers' \in [Ciphers -> Row]
    BY <1>1, <1>5, <2>1, <2>4, <2>5, RowsMade
  <2>7. writes' \in Nat /\ writes' = writes + 1
    BY <1>0, <1>6, CommitsType DEF ImportChunk
  <2>8. unannounced' \subseteq Users
    BY <1>0, <1>2, <1>6 DEF ImportChunk, TypeOK
  <2> QED BY <1>0, <1>6, <2>4, <2>6, <2>7, <2>8
          DEF ImportChunk, TypeOK, WriteStep
<1>7. CASE ImportLastChunk(r)
  <2>1. q.kind \in {"create", "import"} /\ q.ids \in SUBSET q.ids
    BY <1>7 DEF ImportLastChunk
  <2>2. RequestStep /\ request' \in [Requests -> Request \cup {None}]
        /\ request'[r] = None
    BY <1>0, <1>7, RequestEnds DEF ImportLastChunk
  <2>3. ciphers' = [c \in Ciphers |-> IF c \in q.ids
                      THEN NewRow(q, q.owner, q.folder) ELSE ciphers[c]]
    BY <1>7 DEF ImportLastChunk, Imported
  <2>4. (\A c \in Ciphers : RowStep(c)) /\ ciphers' \in [Ciphers -> Row]
    BY <1>1, <1>5, <2>1, <2>2, <2>3, RowsMade
  <2>5. writes' \in Nat /\ writes' = writes + 1
    BY <1>0, <1>7, CommitsType DEF ImportLastChunk
  <2>6. revision' \in [Users -> Nat] /\ unannounced' \subseteq Users
    BY <1>2, <1>3, <1>7 DEF ImportLastChunk
  <2> QED BY <1>0, <1>7, <2>2, <2>4, <2>5, <2>6
          DEF ImportLastChunk, TypeOK, WriteStep
<1> QED BY <1>4, <1>6, <1>7

\* A purge of what an owner has.
LEMMA RowsPurged ==
  ASSUME Inv, NEW owner \in Users \cup {Organization}, NEW ts \in Nat,
         ciphers' = PurgedAll(owner, ts), writes' = writes + 1
  PROVE  (\A c \in Ciphers : RowStep(c)) /\ ciphers' \in [Ciphers -> Row]
<1> USE DEF Inv
<1>1. ASSUME NEW c \in Ciphers PROVE RowStep(c)
  <2>1. CASE ciphers[c].owner = owner
    <3>1. ciphers[c].state # "absent"
      BY <2>1, NoRowType, VaultAssumption DEF AbsentRows
    <3>2. ciphers'[c].token = writes + 1 /\ ciphers'[c].state = "purged"
      BY <2>1, PurgedAllRows
    <3> QED BY <3>1, <3>2 DEF RowStep, MarksVersion
  <2>2. CASE ciphers[c].owner # owner
    <3>1. ciphers'[c] = ciphers[c]
      BY <2>2, PurgedAllRows
    <3> QED BY <3>1 DEF RowStep, KeepsVersion, SameItem
  <2> QED BY <2>1, <2>2
<1> QED BY <1>1, PurgedAllRows

LEMMA PurgeStep ==
  ASSUME Inv, NEW r \in Requests, CommitPurge(r)
  PROVE  WriteStep
<1> DEFINE q == request[r]
<1>1. TypeOK /\ q # None /\ q.ts \in Nat
      /\ q.owner \in Users \cup {Organization}
  BY RequestType DEF Inv, CommitPurge, Busy
<1>2. writes' \in Nat /\ writes' = writes + 1
  BY <1>1, CommitsType DEF CommitPurge
<1>3. (\A c \in Ciphers : RowStep(c)) /\ ciphers' \in [Ciphers -> Row]
  BY <1>1, <1>2, RowsPurged DEF CommitPurge
<1>4. revision' \in [Users -> Nat] /\ unannounced' \subseteq Users
  <2>1. Announce(Audience(q.owner), q.ts, {}) /\ {} \in SUBSET Users
    BY DEF CommitPurge
  <2> QED BY <1>1, <2>1, AnnounceType
<1>5. RequestStep /\ request' \in [Requests -> Request \cup {None}]
  BY <1>1, RequestEnds DEF CommitPurge
<1> QED BY <1>1, <1>2, <1>3, <1>4, <1>5 DEF CommitPurge, TypeOK, WriteStep

\* What the batch of an attachment does: it dates one row.
LEMMA AttachEffect ==
  ASSUME TypeOK, NEW r \in Requests, NEW c \in Ciphers, CommitAttach(r, c)
  PROVE  /\ request[r] # None /\ request[r].kind = "attach"
         /\ ciphers[c].state # "absent"
         /\ \A d \in Ciphers : d # c => ciphers'[d] = ciphers[d]
         /\ ciphers' \in [Ciphers -> Row]
         /\ SameItem(ciphers'[c], ciphers[c])
         /\ ciphers'[c].token = ciphers[c].token
         /\ ciphers'[c].folder = ciphers[c].folder
         /\ \E date \in Nat : Announce(Audience(ciphers[c].owner), date, {})
<1> DEFINE q == request[r]
<1>1. q # None /\ q \in Request /\ q.kind = "attach"
      /\ q.seen[c].updated \in Nat /\ ciphers[c].state # "absent"
  BY RequestType DEF CommitAttach, Busy, Row
<1>2. PICK ts \in Times(q) :
        /\ ciphers' = [ciphers EXCEPT
                        ![c].updated = Later(q.seen[c].updated, ts)]
        /\ Announce(Audience(ciphers[c].owner),
                    Later(q.seen[c].updated, ts), {})
  BY DEF CommitAttach
<1> DEFINE date == Later(q.seen[c].updated, ts)
           new == [ciphers[c] EXCEPT !.updated = date]
<1>3. date \in Nat
  BY <1>1, TimesType, LaterType
<1> HIDE DEF date
<1>4. /\ new \in Row /\ SameItem(new, ciphers[c])
      /\ new.token = ciphers[c].token /\ new.folder = ciphers[c].folder
  BY <1>3 DEF TypeOK, Row, SameItem
<1>5. ciphers' = [ciphers EXCEPT ![c] = new]
      /\ Announce(Audience(ciphers[c].owner), date, {})
  BY <1>2 DEF date
<1> HIDE DEF new
<1>6. /\ ciphers'[c] = new /\ ciphers' \in [Ciphers -> Row]
      /\ \A d \in Ciphers : d # c => ciphers'[d] = ciphers[d]
  BY <1>4, <1>5 DEF TypeOK
<1> QED BY <1>1, <1>3, <1>4, <1>5, <1>6

LEMMA AttachStep ==
  ASSUME Inv, NEW r \in Requests, NEW c \in Ciphers, CommitAttach(r, c)
  PROVE  WriteStep
<1>1. TypeOK
  BY DEF Inv
<1>2. writes' \in Nat /\ writes' = writes + 1
  BY <1>1, CommitsType DEF CommitAttach
<1>3. (\A d \in Ciphers : RowStep(d)) /\ ciphers' \in [Ciphers -> Row]
  BY <1>1, AttachEffect DEF RowStep, KeepsVersion, SameItem
<1>4. revision' \in [Users -> Nat] /\ unannounced' \subseteq Users
  <2>1. PICK date \in Nat : Announce(Audience(ciphers[c].owner), date, {})
    BY <1>1, AttachEffect
  <2>2. {} \in SUBSET Users
    OBVIOUS
  <2> QED BY <1>1, <2>1, <2>2, AnnounceType
<1>5. RequestStep /\ request' \in [Requests -> Request \cup {None}]
  BY <1>1, RequestEnds DEF CommitAttach
<1> QED BY <1>1, <1>2, <1>3, <1>4, <1>5 DEF CommitAttach, TypeOK, WriteStep

LEMMA FolderSteps ==
  ASSUME Inv, NEW r \in FolderRequests, FolderStep(r)
  PROVE  WriteStep
<1> DEFINE q == folderRequest[r]
<1>0. TypeOK /\ RequestStep
  BY DEF Inv, FolderStep, StartFolder, CommitRename, CommitDeleteFolder,
         GiveUpFolder, RequestStep
<1>1. ASSUME NEW f \in Folders, NEW kind \in {"rename", "delete"},
             StartFolder(r, f, kind)
      PROVE  WriteStep
  <2>1. [kind |-> kind, user |-> FolderOwner[f], folder |-> f,
         token |-> folders[f].token, ts |-> now] \in FolderRequest
    BY <1>0, VaultAssumption DEF FolderRequest, TypeOK, FolderRow
  <2> QED BY <1>0, <1>1, <2>1, SameRows DEF StartFolder, TypeOK, WriteStep
<1>2. CASE CommitRename(r) \/ CommitDeleteFolder(r)
  <2>1. q \in FolderRequest /\ q.user \in Users /\ q.folder \in Folders
        /\ q.ts \in Nat
    BY <1>0, <1>2 DEF TypeOK, CommitRename, CommitDeleteFolder, FolderRequest
  <2>2. writes' \in Nat /\ writes' = writes + 1
    BY <1>0, <1>2, CommitsType DEF CommitRename, CommitDeleteFolder
  <2>3. revision' \in [Users -> Nat] /\ unannounced' \subseteq Users
    <3>1. Announce({q.user}, q.ts, {}) /\ {} \in SUBSET Users
      BY <1>2 DEF CommitRename, CommitDeleteFolder
    <3> QED BY <1>0, <2>1, <3>1, AnnounceType
  <2>4. folders' \in [Folders -> FolderRow]
    <3>1. CASE CommitRename(r)
      <4>1. [folders[q.folder] EXCEPT !.token = writes + 1] \in FolderRow
        BY <1>0, <2>1, <2>2 DEF TypeOK, FolderRow
      <4>2. folders' = [folders EXCEPT ![q.folder] =
                          [folders[q.folder] EXCEPT !.token = writes + 1]]
        BY <3>1 DEF CommitRename
      <4> QED BY <1>0, <4>1, <4>2 DEF TypeOK
    <3>2. CASE CommitDeleteFolder(r)
      BY <1>0, <2>2, <3>2 DEF TypeOK, CommitDeleteFolder, FolderRow
    <3> QED BY <1>2, <3>1, <3>2
  <2>5. (\A c \in Ciphers : RowStep(c)) /\ ciphers' \in [Ciphers -> Row]
    <3>1. CASE CommitRename(r)
      BY <1>0, <3>1, SameRows DEF CommitRename, TypeOK
    <3>2. CASE CommitDeleteFolder(r)
      <4>1. ASSUME NEW c \in Ciphers
            PROVE  ciphers'[c] \in Row /\ RowStep(c)
        <5>1. ciphers[c] \in Row /\ ciphers'[c] = Unfiled(ciphers[c], q)
          BY <1>0, <3>2 DEF TypeOK, CommitDeleteFolder
        <5>2. ciphers[c].state = "absent" => Unfiled(ciphers[c], q) = ciphers[c]
          BY <2>1, NoRowType, VaultAssumption DEF Inv, AbsentRows, Unfiled
        <5> QED BY <1>0, <2>1, <5>1, <5>2, UnfiledRow DEF RowStep, KeepsVersion
      <4>2. ciphers' = [c \in Ciphers |-> ciphers'[c]]
        BY <3>2 DEF CommitDeleteFolder
      <4> QED BY <4>1, <4>2
    <3> QED BY <1>2, <3>1, <3>2
  <2>6. views' \in [Users -> [Ciphers -> View]]
    <3>1. CASE CommitRename(r)
      BY <1>0, <3>1 DEF CommitRename, TypeOK
    <3>2. CASE CommitDeleteFolder(r)
      <4>1. ASSUME NEW c \in Ciphers
            PROVE  views[q.user][c] \in View
                   /\ [views[q.user][c] EXCEPT !.folder = None] \in View
        BY <1>0, <2>1 DEF TypeOK, View, MaybeFolder
      <4>2. views' = [views EXCEPT ![q.user] = [c \in Ciphers |->
              IF views[q.user][c].folder = q.folder
              THEN [views[q.user][c] EXCEPT !.folder = None]
              ELSE views[q.user][c]]]
        BY <3>2 DEF CommitDeleteFolder
      <4> QED BY <1>0, <4>1, <4>2 DEF TypeOK
    <3> QED BY <1>2, <3>1, <3>2
  <2>7. folderRequest' \in [FolderRequests -> FolderRequest \cup {None}]
        /\ UNCHANGED <<members, organization, request, now>>
    BY <1>0, <1>2 DEF CommitRename, CommitDeleteFolder, TypeOK
  <2> QED BY <1>0, <2>2, <2>3, <2>4, <2>5, <2>6, <2>7 DEF TypeOK, WriteStep
<1>3. CASE GiveUpFolder(r)
  BY <1>0, <1>3, SameRows DEF GiveUpFolder, TypeOK, WriteStep
<1> QED BY <1>1, <1>2, <1>3 DEF FolderStep

LEMMA ElsewhereSteps ==
  ASSUME Inv, Elsewhere
  PROVE  WriteStep
<1>0. TypeOK /\ RequestStep /\ {} \in SUBSET Users /\ now \in Nat
  BY DEF Inv, TypeOK, Elsewhere, CreateFolder, JoinOrganization,
         LeaveOrganization, DeleteOrganization, Tick, RequestStep
<1>1. ASSUME NEW us, Announce(us, now, {})
      PROVE  revision' \in [Users -> Nat] /\ unannounced' \subseteq Users
  BY <1>0, <1>1, AnnounceType
<1>3. ASSUME NEW f \in Folders, CreateFolder(f) PROVE WriteStep
  <2>1. folders' \in [Folders -> FolderRow]
    BY <1>0, <1>3 DEF CreateFolder, TypeOK, FolderRow
  <2>2. revision' \in [Users -> Nat] /\ unannounced' \subseteq Users
    BY <1>1, <1>3 DEF CreateFolder
  <2>3. writes' \in Nat /\ writes' = writes + 1
    BY <1>0, <1>3, CommitsType DEF CreateFolder
  <2> QED BY <1>0, <1>3, <2>1, <2>2, <2>3, SameRows
          DEF CreateFolder, TypeOK, WriteStep
<1>4. ASSUME NEW u \in Users, JoinOrganization(u) \/ LeaveOrganization(u)
      PROVE  WriteStep
  <2>1. revision' \in [Users -> Nat] /\ unannounced' \subseteq Users
    BY <1>1, <1>4 DEF JoinOrganization, LeaveOrganization
  <2>2. writes' \in Nat /\ writes' = writes + 1
    BY <1>0, <1>4, CommitsType DEF JoinOrganization, LeaveOrganization
  <2> QED BY <1>0, <1>4, <2>1, <2>2, SameRows
          DEF JoinOrganization, LeaveOrganization, TypeOK, WriteStep
<1>5. CASE DeleteOrganization
  <2>1. revision' \in [Users -> Nat] /\ unannounced' \subseteq Users
    BY <1>1, <1>5 DEF DeleteOrganization
  <2>2. writes' \in Nat /\ writes' = writes + 1
    BY <1>0, <1>5, CommitsType DEF DeleteOrganization
  <2>3. (\A c \in Ciphers : RowStep(c)) /\ ciphers' \in [Ciphers -> Row]
    BY <1>0, <1>5, <2>2, RowsPurged DEF DeleteOrganization
  <2> QED BY <1>0, <1>5, <2>1, <2>2, <2>3
          DEF DeleteOrganization, TypeOK, WriteStep
<1>6. CASE Tick
  BY <1>0, <1>6, SameRows DEF Tick, TypeOK, WriteStep
<1> QED BY <1>3, <1>4, <1>5, <1>6 DEF Elsewhere

-----------------------------------------------------------------------------
(* What a read leaves in a request: present rows as they are, or what it   *)
(* had; and ids to make items of only if nobody has them.                  *)

ReadOutcome(r) ==
  /\ \A o \in Requests : o # r => request'[o] = request[o]
  /\ request'[r] # None =>
       /\ \A c \in Ciphers : request'[r].seen[c].state # "absent" =>
            \/ request'[r].seen[c] = ciphers[c] /\ Present(ciphers[c])
            \/ request[r] # None /\ request'[r].seen[c] = request[r].seen[c]
       /\ \A c \in Ciphers : Makes(r, c)' => Makes(r, c) \/ Fresh(c)
       /\ request'[r].kind = "attach" =>
            \/ "attach" \in Operations
            \/ request[r] # None /\ request[r].kind = "attach"

Reads(r) ==
  \/ StartSome(r)
  \/ StartMany(r)
  \/ \E u \in Users, owner \in Users \cup {Organization} :
       StartPurge(r, u, owner)
  \/ SkipItems(r) \/ GiveUp(r)

LEMMA ReadsOnly ==
  ASSUME NEW r \in Requests, Reads(r)
  PROVE  UNCHANGED <<ciphers, views, folders, members, organization, revision,
                     unannounced, folderRequest, now, writes>>
<1>1. CASE StartSome(r)
  <2>1. ASSUME NEW u \in Users, NEW c \in Ciphers, NEW f \in MaybeFolder,
               NEW kind \in (ItemKinds \cup {"attach"}) \cap Operations,
             StartItem(r, u, c, kind, f)
        PROVE  UNCHANGED <<ciphers, views, folders, members, organization,
                 revision, unannounced, folderRequest, now, writes>>
    BY <2>1 DEF StartItem
  <2>2. ASSUME NEW u \in Users, NEW c \in Ciphers, OpenItem(r, u, c)
        PROVE  UNCHANGED <<ciphers, views, folders, members, organization,
                 revision, unannounced, folderRequest, now, writes>>
    BY <2>2 DEF OpenItem
  <2>3. ASSUME NEW c \in Ciphers, NEW f \in MaybeFolder, SubmitEdit(r, c, f)
        PROVE  UNCHANGED <<ciphers, views, folders, members, organization,
                 revision, unannounced, folderRequest, now, writes>>
    BY <2>3, Zenon DEF SubmitEdit
  <2>4. ASSUME NEW u \in Users, NEW c \in Ciphers, NEW f \in MaybeFolder,
               NEW owner \in Users \cup {Organization}, StartCreate(r, u, owner, c, f)
        PROVE  UNCHANGED <<ciphers, views, folders, members, organization,
                 revision, unannounced, folderRequest, now, writes>>
    BY <2>4 DEF StartCreate
  <2> QED BY <1>1, <2>1, <2>2, <2>3, <2>4 DEF StartSome
<1>2. CASE StartMany(r)
  <2>1. ASSUME NEW u \in Users, NEW ids \in SUBSET Ciphers \ {{}},
               NEW f \in MaybeFolder, NEW kind \in BulkKinds \cap Operations,
               StartBulk(r, u, ids, kind, f)
        PROVE  UNCHANGED <<ciphers, views, folders, members, organization,
                 revision, unannounced, folderRequest, now, writes>>
    BY <2>1, Zenon DEF StartBulk
  <2>2. ASSUME NEW u \in Users, NEW ids \in SUBSET Ciphers \ {{}},
               NEW f \in MaybeFolder, StartImport(r, u, ids, f)
        PROVE  UNCHANGED <<ciphers, views, folders, members, organization,
                 revision, unannounced, folderRequest, now, writes>>
    BY <2>2, Zenon DEF StartImport
  <2> QED BY <1>2, <2>1, <2>2 DEF StartMany
<1>3. CASE \E u \in Users, owner \in Users \cup {Organization} :
             StartPurge(r, u, owner)
  BY <1>3 DEF StartPurge
<1>4. CASE SkipItems(r)
  BY <1>4, Zenon DEF SkipItems
<1>5. CASE GiveUp(r)
  BY <1>5 DEF GiveUp
<1> QED BY <1>1, <1>2, <1>3, <1>4, <1>5 DEF Reads

LEMMA SeenPresent ==
  ASSUME NEW ids, NEW c \in Ciphers, \A d \in ids : Present(ciphers[d]),
         SeenRows(ids)[c].state # "absent"
  PROVE  SeenRows(ids)[c] = ciphers[c] /\ Present(ciphers[c])
BY NoRowType DEF SeenRows

LEMMA ReadOutcomes ==
  ASSUME TypeOK, NEW r \in Requests, Reads(r)
  PROVE  ReadOutcome(r)
<1> USE VaultAssumption
<1>1. ASSUME NEW u \in Users, NEW c \in Ciphers, NEW f \in MaybeFolder,
             NEW kind \in (ItemKinds \cup {"attach"}) \cap Operations,
             StartItem(r, u, c, kind, f)
      PROVE  ReadOutcome(r)
  <2>1. \A d \in {c} : Present(ciphers[d])
    BY <1>1 DEF StartItem, Reaches
  <2>2. /\ request'[r].seen = SeenRows({c}) /\ request'[r].kind = kind
        /\ kind \in Operations
        /\ \A o \in Requests : o # r => request'[o] = request[o]
    BY <1>1 DEF StartItem, TypeOK
  <2> QED BY <2>1, <2>2, SeenPresent DEF ReadOutcome, Makes, ItemKinds
<1>2. ASSUME NEW u \in Users, NEW c \in Ciphers, OpenItem(r, u, c)
      PROVE  ReadOutcome(r)
  <2>1. \A d \in {c} : Present(ciphers[d])
    BY <1>2 DEF OpenItem, Reaches
  <2>2. /\ request'[r].seen = SeenRows({c}) /\ request'[r].kind = "update"
        /\ \A o \in Requests : o # r => request'[o] = request[o]
    BY <1>2 DEF OpenItem, TypeOK
  <2> QED BY <2>1, <2>2, SeenPresent DEF ReadOutcome, Makes
<1>3. ASSUME NEW c \in Ciphers, NEW f \in MaybeFolder, SubmitEdit(r, c, f)
      PROVE  ReadOutcome(r)
  <2> DEFINE q == request[r]
             new == [q EXCEPT !.phase = "ready", !.seen = SeenRows({c}),
                       !.view = OwnView(q.user, c), !.folder = f,
                       !.base = q.seen[c].content, !.ts = now]
  <2>1. \A d \in {c} : Present(ciphers[d])
    BY <1>3 DEF SubmitEdit, Reaches
  <2>2. request' = [request EXCEPT ![r] = new] /\ q \in Request
    BY <1>3, RequestType DEF SubmitEdit, Busy
  <2>3. new.seen = SeenRows({c}) /\ new.kind = q.kind /\ new.ids = q.ids
    BY <2>2 DEF Request
  <2>4. request'[r] = new /\ q # None
        /\ \A o \in Requests : o # r => request'[o] = request[o]
    BY <1>3, <2>2 DEF TypeOK, SubmitEdit, Busy
  <2> HIDE DEF new
  <2> QED BY <2>1, <2>3, <2>4, SeenPresent DEF ReadOutcome, Makes
<1>4. ASSUME NEW u \in Users, NEW owner, NEW ids, NEW f,
             NEW kind \in {"create", "import", "purge"},
             request' = [request EXCEPT ![r] = Making(kind, u, owner, ids, f)],
             kind \in {"create", "import"} => \A c \in ids : Fresh(c)
      PROVE  ReadOutcome(r)
  <2>1. /\ request'[r].seen = [c \in Ciphers |-> NoRow]
        /\ request'[r].kind = kind /\ request'[r].ids = ids
        /\ \A o \in Requests : o # r => request'[o] = request[o]
    BY <1>4 DEF Making, TypeOK
  <2> QED BY <1>4, <2>1, NoRowType DEF ReadOutcome, Makes
<1>5. ASSUME NEW u \in Users, NEW c \in Ciphers, NEW f \in MaybeFolder,
             NEW owner \in Users \cup {Organization}, StartCreate(r, u, owner, c, f)
      PROVE  ReadOutcome(r)
  <2>1. request' = [request EXCEPT ![r] = Making("create", u, owner, {c}, f)]
    BY <1>5 DEF StartCreate
  <2>2. \A d \in Ciphers : d \in {c} => Fresh(d)
    BY <1>5 DEF StartCreate
  <2>3. /\ request'[r].seen = [d \in Ciphers |-> NoRow]
        /\ request'[r].ids = {c} /\ request'[r].kind = "create"
        /\ \A o \in Requests : o # r => request'[o] = request[o]
    BY <2>1 DEF Making, TypeOK
  <2> QED BY <2>2, <2>3, NoRowType DEF ReadOutcome, Makes
<1>6. ASSUME NEW u \in Users, NEW ids \in SUBSET Ciphers \ {{}},
             NEW f \in MaybeFolder, StartImport(r, u, ids, f)
      PROVE  ReadOutcome(r)
  BY <1>4, <1>6 DEF StartImport
<1>7. ASSUME NEW u \in Users, NEW owner \in Users \cup {Organization},
             StartPurge(r, u, owner)
      PROVE  ReadOutcome(r)
  BY <1>4, <1>7 DEF StartPurge
<1>8. ASSUME NEW u \in Users, NEW ids \in SUBSET Ciphers \ {{}},
             NEW f \in MaybeFolder, NEW kind \in BulkKinds \cap Operations,
             StartBulk(r, u, ids, kind, f)
      PROVE  ReadOutcome(r)
  <2> DEFINE mine == {c \in ids : Candidate(kind, u, c, f)}
  <2>1. \A d \in mine : Present(ciphers[d])
    BY DEF Candidate, Present
  <2>2. /\ request'[r].seen = SeenRows(mine) /\ request'[r].kind = kind
        /\ \A o \in Requests : o # r => request'[o] = request[o]
    BY <1>8 DEF StartBulk, TypeOK
  <2>3. kind \notin {"create", "import", "attach"}
    BY DEF BulkKinds, FilingKinds
  <2> HIDE DEF mine
  <2> QED BY <2>1, <2>2, <2>3, SeenPresent DEF ReadOutcome, Makes
<1>9. CASE SkipItems(r)
  <2>1. request[r] # None /\ RequestStep
        /\ \A o \in Requests : o # r => request'[o] = request[o]
    BY <1>9, RequestGoesOn DEF SkipItems, Busy
  <2> QED BY <2>1 DEF ReadOutcome, RequestStep, Makes
<1>10. CASE GiveUp(r)
  BY <1>10, RequestEnds DEF GiveUp, ReadOutcome
<1> QED BY <1>1, <1>2, <1>3, <1>5, <1>6, <1>7, <1>8, <1>9, <1>10
        DEF Reads, StartSome, StartMany

-----------------------------------------------------------------------------
(* The invariant *)

LEMMA InitInv == ASSUME Init PROVE Inv
<1>1. TypeOK
  BY InitType
<1>2. PICK own \in [Ciphers -> Users \cup {Organization, None}],
           filed \in [Ciphers -> MaybeFolder] :
        ciphers = [c \in Ciphers |->
          IF own[c] = None THEN NoRow
          ELSE [NoRow EXCEPT !.owner = own[c], !.state = "live",
                             !.folder = filed[c]]]
  BY FirstRows
<1>3. AbsentRows /\ WritesBoundTokens
  <2>1. ASSUME NEW c \in Ciphers
        PROVE  /\ ciphers[c].state = "absent" => ciphers[c] = NoRow
               /\ ciphers[c].token = 0
    BY <1>2 DEF NoRow
  <2>2. writes = 0
    BY DEF Init
  <2> QED BY <2>1, <2>2 DEF AbsentRows, WritesBoundTokens
<1>4. \A r \in Requests : request[r] = None
  BY DEF Init
<1> QED BY <1>1, <1>3, <1>4
        DEF Inv, SeenRowsExist, IdsFresh, Makes, TokensNameVersions

LEMMA WriteInv == ASSUME Inv, WriteStep PROVE Inv'
<1> USE DEF Inv, WriteStep
<1>0. ASSUME NEW c \in Ciphers
      PROVE  ciphers[c].token \in Nat /\ writes \in Nat
             /\ ciphers[c].token <= writes
  BY DEF TypeOK, Row, WritesBoundTokens
<1>1. AbsentRows'
  BY DEF RowStep, KeepsVersion, MakesItem, MarksVersion, SameItem, AbsentRows
<1>2. WritesBoundTokens'
  <2> SUFFICES ASSUME NEW c \in Ciphers PROVE ciphers'[c].token <= writes'
    BY DEF WritesBoundTokens
  <2> QED BY <1>0 DEF RowStep, KeepsVersion, MakesItem, MarksVersion
<1>3. ASSUME NEW r \in Requests, NEW c \in Ciphers, request'[r] # None,
             request'[r].seen[c].state # "absent"
      PROVE  /\ request[r] # None /\ request'[r].seen[c] = request[r].seen[c]
             /\ request[r].seen[c].state # "purged"
             /\ request[r].seen[c].token \in Nat
             /\ request[r].seen[c].token <= writes
             /\ ciphers[c].state # "absent" /\ ciphers'[c].state # "absent"
             /\ KeepsVersion(c) \/ MarksVersion(c)
  <2>1. request[r] # None /\ request'[r].seen[c] = request[r].seen[c]
    BY <1>3 DEF RequestStep
  <2>2. /\ request[r].seen[c].state # "purged"
        /\ request[r].seen[c].token <= writes
        /\ ciphers[c].state # "absent"
    BY <1>3, <2>1 DEF SeenRowsExist
  <2>3. request[r].seen[c].token \in Nat
    BY <2>1, RequestType DEF Row
  <2>4. ~MakesItem(c)
    BY <2>2 DEF MakesItem, IdsFresh
  <2>5. KeepsVersion(c) \/ MarksVersion(c)
    BY <2>4 DEF RowStep
  <2> QED BY <2>1, <2>2, <2>3, <2>5 DEF KeepsVersion, MarksVersion, SameItem
<1>4. SeenRowsExist'
  <2> SUFFICES ASSUME NEW r \in Requests, NEW c \in Ciphers,
                      request'[r] # None,
                      request'[r].seen[c].state # "absent"
               PROVE  /\ ciphers'[c].state # "absent"
                      /\ request'[r].seen[c].state # "purged"
                      /\ request'[r].seen[c].token <= writes'
    BY DEF SeenRowsExist
  <2> QED BY <1>0, <1>3
<1>5. IdsFresh'
  <2>1. ASSUME NEW r \in Requests, NEW c \in Ciphers, Makes(r, c)'
        PROVE  Makes(r, c)
    BY <2>1 DEF Makes, RequestStep
  <2>2. ASSUME NEW r \in Requests, NEW c \in Ciphers, Makes(r, c)'
        PROVE  ciphers'[c].state = "absent"
    <3>1. Makes(r, c) /\ ciphers[c].state = "absent"
      BY <2>1, <2>2 DEF IdsFresh
    <3>2. ~MakesItem(c)
      BY <2>2, <3>1 DEF MakesItem, IdsFresh
    <3> QED BY <3>1, <3>2 DEF RowStep, KeepsVersion, MarksVersion, SameItem
  <2> QED BY <2>1, <2>2 DEF IdsFresh
<1>6. TokensNameVersions'
  <2> SUFFICES ASSUME NEW r \in Requests, NEW c \in Ciphers,
                      request'[r] # None,
                      request'[r].seen[c].state # "absent",
                      request'[r].seen[c].token = ciphers'[c].token
               PROVE  SameItem(request'[r].seen[c], ciphers'[c])
    BY DEF TokensNameVersions, SameItem
  <2>1. KeepsVersion(c)
    BY <1>0, <1>3 DEF MarksVersion
  <2>2. SameItem(request[r].seen[c], ciphers[c])
    BY <1>3, <2>1 DEF TokensNameVersions, KeepsVersion
  <2> QED BY <1>3, <2>1, <2>2 DEF KeepsVersion, SameItem
<1> QED BY <1>1, <1>2, <1>4, <1>5, <1>6

LEMMA ReadInv ==
  ASSUME Inv, NEW r \in Requests, Reads(r) PROVE Inv'
<1>1. TypeOK' /\ ReadOutcome(r) /\ UNCHANGED <<ciphers, writes>>
  <2>1. TypeOK'
    BY ReadTypes DEF Inv, Reads
  <2> QED BY <2>1, ReadsOnly, ReadOutcomes DEF Inv
<1>2. AbsentRows' /\ WritesBoundTokens'
  BY <1>1 DEF Inv, AbsentRows, WritesBoundTokens
<1>3. ASSUME NEW o \in Requests, NEW c \in Ciphers, request'[o] # None,
             request'[o].seen[c].state # "absent"
      PROVE  \/ request'[o].seen[c] = ciphers[c] /\ Present(ciphers[c])
             \/ request[o] # None /\ request'[o].seen[c] = request[o].seen[c]
  BY <1>1, <1>3 DEF ReadOutcome
<1>4. SeenRowsExist'
  <2> SUFFICES ASSUME NEW o \in Requests, NEW c \in Ciphers,
                      request'[o] # None,
                      request'[o].seen[c].state # "absent"
               PROVE  /\ ciphers'[c].state # "absent"
                      /\ request'[o].seen[c].state # "purged"
                      /\ request'[o].seen[c].token <= writes'
    BY DEF SeenRowsExist
  <2> QED BY <1>1, <1>3 DEF Inv, SeenRowsExist, WritesBoundTokens, Present
<1>5. IdsFresh'
  <2>1. ASSUME NEW o \in Requests, NEW c \in Ciphers, Makes(o, c)'
        PROVE  \/ Makes(o, c)
               \/ o = r /\ Fresh(c)
    BY <1>1, <2>1 DEF ReadOutcome, Makes
  <2>2. ASSUME NEW c \in Ciphers, Fresh(c), NEW o \in Requests
        PROVE  ciphers[c].state = "absent" /\ ~Makes(o, c)
    BY <2>2 DEF Fresh, Makes
  <2>3. UNCHANGED ciphers
    BY <1>1
  <2> QED BY <2>1, <2>2, <2>3 DEF Inv, IdsFresh
<1>6. TokensNameVersions'
  <2> SUFFICES ASSUME NEW o \in Requests, NEW c \in Ciphers,
                      request'[o] # None,
                      request'[o].seen[c].state # "absent",
                      request'[o].seen[c].token = ciphers'[c].token
               PROVE  SameItem(request'[o].seen[c], ciphers'[c])
    BY DEF TokensNameVersions, SameItem
  <2> QED BY <1>1, <1>3 DEF Inv, TokensNameVersions, SameItem
<1> QED BY <1>1, <1>2, <1>4, <1>5, <1>6 DEF Inv

\* A step of the vault writes or reads.
LEMMA StepCases ==
  ASSUME Inv, VaultNext
  PROVE  WriteStep \/ \E r \in Requests : Reads(r)
<1>1. ASSUME NEW r \in Requests, ItemRequest(r) PROVE WriteStep \/ Reads(r)
  BY <1>1, ItemsStep, OtherItemSteps, MakingSteps, PurgeStep, AttachStep
     DEF ItemRequest, Reads
<1> QED BY <1>1, FolderSteps, ElsewhereSteps DEF VaultNext

LEMMA NextInv == ASSUME Inv, [VaultNext]_vars PROVE Inv'
<1>1. CASE VaultNext
  BY <1>1, StepCases, WriteInv, ReadInv
<1>2. CASE UNCHANGED vars
  BY <1>2 DEF Inv, TypeOK, AbsentRows, WritesBoundTokens, SeenRowsExist,
              IdsFresh, Makes, TokensNameVersions, SameItem, vars
<1> QED BY <1>1, <1>2

-----------------------------------------------------------------------------
\* Every variable of the vault keeps its type.
THEOREM VaultTypes == VaultSpec => []TypeOK
<1>1. VaultSpec => []Inv
  BY InitInv, NextInv, PTL DEF VaultSpec
<1>2. Inv => TypeOK
  BY DEF Inv
<1> QED BY <1>1, <1>2, PTL

\* A token a request has read and an item still has names the version the
\* request read (services/ciphers/access.ts, handlers/ciphers).
THEOREM TokenSafety == VaultSpec => []TokensNameVersions
<1>1. VaultSpec => []Inv
  BY InitInv, NextInv, PTL DEF VaultSpec
<1>2. Inv => TokensNameVersions
  BY DEF Inv
<1> QED BY <1>1, <1>2, PTL

\* Nothing brings a purged item back (handlers/ciphers/purge.ts).
THEOREM PurgeSafety == VaultSpec => PurgeIsFinal
<1>1. VaultSpec => []Inv
  BY InitInv, NextInv, PTL DEF VaultSpec
<1>2. ASSUME Inv, [VaultNext]_vars
      PROVE  [\A c \in Ciphers :
                ciphers[c].state = "purged" => ciphers'[c].state = "purged"]_vars
  <2>1. CASE WriteStep
    <3>1. ASSUME NEW c \in Ciphers, ciphers[c].state = "purged"
          PROVE  ~MakesItem(c)
      BY <1>2, <3>1 DEF Inv, IdsFresh, MakesItem
    <3> QED BY <2>1, <3>1
            DEF WriteStep, RowStep, KeepsVersion, MarksVersion, SameItem
  <2>2. CASE \E r \in Requests : Reads(r)
    BY <2>2, ReadsOnly
  <2>3. CASE UNCHANGED vars
    BY <2>3
  <2> QED BY <1>2, <2>1, <2>2, <2>3, StepCases
<1> QED BY <1>1, <1>2, PTL DEF VaultSpec, PurgeIsFinal

-----------------------------------------------------------------------------
(* Whose items and folders a request is about.                             *)

OwnersExist ==
  \A c \in Ciphers : ciphers[c].state # "absent" => ciphers[c].owner # None

\* A request makes items for its user or the organization, shares items of
\* its user that it has read, all of them, and on many items reads its own;
\* who edits an item has opened it.
RequestOwns(q) ==
  /\ q.phase = "editing" => q.kind = "update" /\ ~q.bulk
  /\ q.kind = "create" => q.owner \in {q.user, Organization}
  /\ q.kind = "import" => q.owner = q.user
  /\ q.kind = "share" \/ q.phase = "editing" =>
       \A c \in q.ids : q.seen[c].state # "absent"
  /\ q.kind = "share" \/ q.bulk =>
       \A c \in Ciphers :
         q.seen[c].state # "absent" => q.seen[c].owner = q.user

RequestsOwn ==
  /\ \A r \in Requests : request[r] # None => RequestOwns(request[r])
  /\ \A r \in FolderRequests : folderRequest[r] # None =>
       folderRequest[r].user = FolderOwner[folderRequest[r].folder]

Filing == Inv /\ OwnersExist /\ RequestsOwn /\ FoldersHoldOwnItems

LEMMA OwnsKept ==
  ASSUME TypeOK, RequestsOwn, RequestStep, NEW r \in Requests,
         request'[r] # None
  PROVE  RequestOwns(request'[r])
<1>1. request[r] # None /\ request[r] \in Request
  BY RequestType DEF RequestStep
<1> QED BY <1>1 DEF RequestStep, RequestsOwn, RequestOwns

LEMMA OwnsRead ==
  ASSUME TypeOK, RequestsOwn, NEW r \in Requests, Reads(r)
  PROVE  RequestsOwn'
<1> USE VaultAssumption
<1>0. UNCHANGED folderRequest /\ \A o \in Requests : o # r => request'[o] = request[o]
  BY ReadsOnly, ReadOutcomes DEF ReadOutcome
<1> SUFFICES ASSUME request'[r] # None
             PROVE  RequestOwns(request'[r])
  BY <1>0 DEF RequestsOwn
<1>s. ASSUME NEW ids, NEW c \in Ciphers, SeenRows(ids)[c].state # "absent"
      PROVE  c \in ids /\ SeenRows(ids)[c] = ciphers[c]
  BY <1>s, NoRowType DEF SeenRows
<1>1. ASSUME NEW u \in Users, NEW c \in Ciphers, NEW f \in MaybeFolder,
             NEW kind \in (ItemKinds \cup {"attach"}) \cap Operations,
             StartItem(r, u, c, kind, f)
      PROVE  RequestOwns(request'[r])
  <2>1. /\ request'[r].seen = SeenRows({c}) /\ request'[r].kind = kind
        /\ request'[r].ids = {c} /\ request'[r].bulk = FALSE
        /\ request'[r].user = u /\ request'[r].phase = "ready"
    BY <1>1 DEF StartItem, TypeOK
  <2>2. kind = "share" => ciphers[c].owner = u
    BY <1>1 DEF StartItem, Accepts
  <2>3. SeenRows({c})[c] = ciphers[c] /\ ciphers[c].state # "absent"
    BY <1>1 DEF StartItem, Reaches, Present, SeenRows
  <2> QED BY <1>s, <2>1, <2>2, <2>3 DEF RequestOwns, ItemKinds
<1>2. ASSUME NEW u \in Users, NEW c \in Ciphers, OpenItem(r, u, c)
      PROVE  RequestOwns(request'[r])
  <2>1. /\ request'[r].kind = "update" /\ request'[r].bulk = FALSE
        /\ request'[r].ids = {c} /\ request'[r].seen = SeenRows({c})
    BY <1>2 DEF OpenItem, TypeOK
  <2>2. SeenRows({c})[c].state # "absent"
    BY <1>2 DEF OpenItem, Reaches, Present, SeenRows
  <2> QED BY <2>1, <2>2 DEF RequestOwns
<1>3. ASSUME NEW c \in Ciphers, NEW f \in MaybeFolder, SubmitEdit(r, c, f)
      PROVE  RequestOwns(request'[r])
  <2> DEFINE q == request[r]
             new == [q EXCEPT !.phase = "ready", !.seen = SeenRows({c}),
                       !.view = OwnView(q.user, c), !.folder = f,
                       !.base = q.seen[c].content, !.ts = now]
  <2>1. request' = [request EXCEPT ![r] = new] /\ q \in Request
        /\ q # None /\ q.phase = "editing"
    BY <1>3, RequestType DEF SubmitEdit, Busy
  <2>2. new.kind = q.kind /\ new.bulk = q.bulk /\ new.phase = "ready"
    BY <2>1 DEF Request
  <2>3. q.kind = "update" /\ ~q.bulk
    BY <2>1 DEF RequestsOwn, RequestOwns
  <2>4. request'[r] = new
    BY <2>1 DEF TypeOK
  <2> HIDE DEF new
  <2> QED BY <2>2, <2>3, <2>4 DEF RequestOwns
<1>4. ASSUME NEW u \in Users, NEW c \in Ciphers, NEW f \in MaybeFolder,
             NEW owner \in Users \cup {Organization}, StartCreate(r, u, owner, c, f)
      PROVE  RequestOwns(request'[r])
  BY <1>4 DEF StartCreate, Making, TypeOK, RequestOwns
<1>5. ASSUME NEW u \in Users, NEW ids \in SUBSET Ciphers \ {{}},
             NEW f \in MaybeFolder, StartImport(r, u, ids, f)
      PROVE  RequestOwns(request'[r])
  BY <1>5 DEF StartImport, Making, TypeOK, RequestOwns
<1>6. ASSUME NEW u \in Users, NEW owner \in Users \cup {Organization},
             StartPurge(r, u, owner)
      PROVE  RequestOwns(request'[r])
  BY <1>6 DEF StartPurge, Making, TypeOK, RequestOwns
<1>7. ASSUME NEW u \in Users, NEW ids \in SUBSET Ciphers \ {{}},
             NEW f \in MaybeFolder, NEW kind \in BulkKinds \cap Operations,
             StartBulk(r, u, ids, kind, f)
      PROVE  RequestOwns(request'[r])
  <2> DEFINE mine == {c \in ids : Candidate(kind, u, c, f)}
  <2>1. /\ request'[r].seen = SeenRows(mine) /\ request'[r].kind = kind
        /\ request'[r].ids = ids /\ request'[r].bulk = TRUE
        /\ request'[r].user = u /\ request'[r].phase = "ready"
        /\ kind = "share" => mine = ids
    BY <1>7 DEF StartBulk, TypeOK
  <2>2. \A c \in mine : ciphers[c].owner = u /\ ciphers[c].state # "absent"
    BY DEF Candidate, Present
  <2>3. kind \notin {"create", "import"}
    BY DEF BulkKinds, FilingKinds
  <2>4. \A c \in mine : SeenRows(mine)[c] = ciphers[c]
    BY DEF SeenRows
  <2> HIDE DEF mine
  <2> QED BY <1>s, <2>1, <2>2, <2>3, <2>4 DEF RequestOwns
<1>8. CASE SkipItems(r)
  <2>1. request[r] # None /\ RequestStep
    BY <1>8, RequestGoesOn DEF SkipItems, Busy
  <2> QED BY <2>1, OwnsKept
<1>9. CASE GiveUp(r)
  BY <1>9, RequestEnds DEF GiveUp
<1> QED BY <1>1, <1>2, <1>3, <1>4, <1>5, <1>6, <1>7, <1>8, <1>9
        DEF Reads, StartSome, StartMany

\* A request on a folder is its owner's.
LEMMA FolderRequestsOwn ==
  ASSUME TypeOK, RequestsOwn, VaultNext, NEW r \in FolderRequests,
         folderRequest'[r] # None
  PROVE  folderRequest'[r].user = FolderOwner[folderRequest'[r].folder]
<1>1. ASSUME NEW o \in FolderRequests, NEW f \in Folders,
             NEW kind \in {"rename", "delete"}, StartFolder(o, f, kind)
      PROVE  folderRequest'[r].user = FolderOwner[folderRequest'[r].folder]
  BY <1>1 DEF StartFolder, TypeOK, RequestsOwn
<1>2. ASSUME NEW o \in FolderRequests,
             CommitRename(o) \/ CommitDeleteFolder(o) \/ GiveUpFolder(o)
      PROVE  folderRequest'[r].user = FolderOwner[folderRequest'[r].folder]
  BY <1>2 DEF CommitRename, CommitDeleteFolder, GiveUpFolder, TypeOK,
              RequestsOwn
<1>3. ASSUME NEW o \in Requests, ItemRequest(o), ~Reads(o)
      PROVE  UNCHANGED folderRequest
  BY <1>3 DEF ItemRequest, Reads, CommitItems, UpdateViews, AnnounceViews,
     FileView, CommitAttach, CommitCreate, ImportChunk, ImportLastChunk,
     CommitPurge
<1>4. CASE Elsewhere
  BY <1>4 DEF Elsewhere, CreateFolder, JoinOrganization,
     LeaveOrganization, DeleteOrganization, Tick, RequestsOwn
<1>5. CASE UNCHANGED folderRequest
  BY <1>5 DEF RequestsOwn
<1> QED BY <1>1, <1>2, <1>3, <1>4, <1>5, ReadsOnly DEF VaultNext, FolderStep

LEMMA OwnsStep ==
  ASSUME Inv, RequestsOwn, [VaultNext]_vars
  PROVE  RequestsOwn'
<1>1. CASE WriteStep /\ VaultNext
  BY <1>1, OwnsKept, FolderRequestsOwn DEF WriteStep, Inv, RequestsOwn
<1>2. CASE \E r \in Requests : Reads(r)
  BY <1>2, OwnsRead DEF Inv
<1>3. CASE UNCHANGED vars
  BY <1>3 DEF vars, RequestsOwn
<1> QED BY <1>1, <1>2, <1>3, StepCases

-----------------------------------------------------------------------------
(* What is filed where.                                                    *)

\* What a batch claims is as its request read it, and what it makes of it.
LEMMA ClaimedRows ==
  ASSUME Inv, NEW r \in Requests, CommitItems(r)
  PROVE  /\ request[r] \in Request
         /\ \E ts \in Times(request[r]) :
              \A c \in Ciphers :
                ciphers'[c] = IF c \in Claimed(request[r])
                              THEN After(request[r], c, ts) ELSE ciphers[c]
         /\ \A c \in Claimed(request[r]) :
              /\ c \in Ciphers /\ c \in request[r].ids
              /\ request[r].seen[c].state # "absent"
              /\ ciphers[c].token = request[r].seen[c].token
              /\ SameItem(request[r].seen[c], ciphers[c])
              /\ ciphers[c].state \notin {"absent", "purged"}
              /\ ciphers'[c].owner = IF request[r].kind = "share"
                                     THEN Organization ELSE ciphers[c].owner
              /\ ciphers'[c].folder =
                   IF request[r].kind = "share" THEN None
                   ELSE IF request[r].kind = "update"
                        THEN IF ciphers[c].owner = Organization THEN None
                             ELSE request[r].folder
                   ELSE IF request[r].kind = "file" THEN request[r].folder
                   ELSE ciphers[c].folder
         /\ \A c \in Ciphers \ Claimed(request[r]) : ciphers'[c] = ciphers[c]
<1> DEFINE q == request[r]
           claimed == Claimed(q)
<1>1. TypeOK /\ q # None /\ q \in Request /\ q.kind \in ItemKinds
      /\ claimed \subseteq Ciphers
  BY RequestType DEF Inv, CommitItems, Busy, Claimed, Candidates, Request
<1>2. PICK ts \in Times(q) : ciphers' = [c \in Ciphers |->
             IF c \in claimed THEN After(q, c, ts) ELSE ciphers[c]]
  BY DEF CommitItems
<1>3. ts \in Nat
  BY <1>1, <1>2, TimesType
<1>4. ASSUME NEW c \in claimed
      PROVE  /\ c \in Ciphers /\ c \in q.ids
             /\ q.seen[c].state # "absent"
             /\ ciphers[c].token = q.seen[c].token
             /\ SameItem(q.seen[c], ciphers[c])
             /\ ciphers[c].state \notin {"absent", "purged"}
  <2>1. c \in Ciphers /\ q.seen[c].state # "absent" /\ Fenced(q, c) /\ c \in q.ids
    BY <1>1 DEF Claimed, Candidates
  <2>2. SameItem(q.seen[c], ciphers[c])
    BY <1>1, <2>1 DEF Inv, TokensNameVersions, Fenced
  <2>3. ciphers[c].state # "absent" /\ ciphers[c].state # "purged"
    BY <1>1, <2>1, <2>2 DEF Inv, SeenRowsExist, SameItem
  <2> QED BY <2>1, <2>2, <2>3 DEF Fenced
<1>5. ASSUME NEW c \in claimed
      PROVE  /\ ciphers'[c].owner = IF q.kind = "share" THEN Organization
                                    ELSE ciphers[c].owner
             /\ ciphers'[c].folder =
                  IF q.kind = "share" THEN None
                  ELSE IF q.kind = "update"
                       THEN IF ciphers[c].owner = Organization THEN None
                            ELSE q.folder
                  ELSE IF q.kind = "file" THEN q.folder
                  ELSE ciphers[c].folder
  <2>1. ciphers'[c] = After(q, c, ts) /\ q.seen[c].owner = ciphers[c].owner
    BY <1>2, <1>4 DEF SameItem
  <2>2. c \in Ciphers
    BY <1>4
  <2> QED BY <1>1, <1>3, <2>1, <2>2, AfterRow
<1>6. \A c \in Ciphers :
        ciphers'[c] = IF c \in claimed THEN After(q, c, ts) ELSE ciphers[c]
  BY <1>2
<1>7. \A c \in Ciphers \ claimed : ciphers'[c] = ciphers[c]
  BY <1>6
<1>8. \E t \in Times(q) : \A c \in Ciphers :
        ciphers'[c] = IF c \in claimed THEN After(q, c, t) ELSE ciphers[c]
  BY <1>2, <1>6
<1> QED BY ONLY <1>1, <1>4, <1>5, <1>7, <1>8

\* A row is filed with its owner, and where its owner may file.
Filed(row) ==
  row.folder # None => /\ row.owner = FolderOwner[row.folder]
                       /\ folders[row.folder].state = "live"

LEMMA ItemsFile ==
  ASSUME Filing, NEW r \in Requests, CommitItems(r)
  PROVE  /\ \A c \in Ciphers : Filed(ciphers'[c])
         /\ \A u \in Users, c \in Ciphers : OwnFolder(u, views'[u][c].folder)
         /\ UNCHANGED folders
<1> USE VaultAssumption
<1> DEFINE q == request[r]
<1>1. TypeOK /\ q \in Request /\ q # None /\ UNCHANGED folders
  BY ClaimedRows DEF Filing, Inv, CommitItems, Busy
<1>2. ASSUME NEW c \in Ciphers PROVE Filed(ciphers'[c])
  <2>1. CASE c \in Claimed(q)
    <3>1. /\ OwnFolder(ciphers'[c].owner, ciphers'[c].folder)
          /\ ~FilesView(q)
      BY <2>1 DEF CommitItems
    <3>2. /\ c \in q.ids /\ q.seen[c].state # "absent"
          /\ q.seen[c].owner = ciphers[c].owner
          /\ ciphers[c].state \notin {"absent", "purged"}
          /\ ciphers'[c].owner = IF q.kind = "share" THEN Organization
                                 ELSE ciphers[c].owner
          /\ ciphers'[c].folder =
                  IF q.kind = "share" THEN None
                  ELSE IF q.kind = "update"
                       THEN IF ciphers[c].owner = Organization THEN None
                            ELSE q.folder
                  ELSE IF q.kind = "file" THEN q.folder
                  ELSE ciphers[c].folder
      BY <2>1, ClaimedRows DEF Filing, SameItem
    <3>3. ciphers[c].owner \in Users \cup {Organization}
      BY <1>1, <3>2 DEF Filing, OwnersExist, TypeOK, Row
    <3>4. ciphers[c].owner = Organization => ciphers[c].folder = None
      BY <1>1 DEF Filing, FoldersHoldOwnItems, TypeOK, Row, MaybeFolder
    <3>5. ciphers[c].owner = Organization => ciphers'[c].folder = None
      <4>1. q.kind = "file" => ciphers[c].owner # Organization
        <5>1. CASE q.bulk
          <6>1. RequestOwns(q) /\ q.user \in Users
            BY <1>1 DEF Filing, RequestsOwn, Request
          <6> QED BY <3>2, <5>1, <6>1 DEF RequestOwns
        <5>2. CASE ~q.bulk
          BY <3>1, <3>2, <5>2 DEF FilesView
        <5> QED BY <5>1, <5>2
      <4> QED BY <3>2, <3>4, <4>1
    <3>6. ciphers'[c].folder # None => ciphers'[c].owner \in Users
      BY <3>2, <3>3, <3>5
    <3> QED BY <3>1, <3>6 DEF OwnFolder, Filed
  <2>2. CASE c \notin Claimed(q)
    <3>1. ciphers'[c] = ciphers[c]
      BY <2>2, ClaimedRows DEF Filing
    <3> QED BY <3>1 DEF Filing, FoldersHoldOwnItems, Filed
  <2> QED BY <2>1, <2>2
<1>3. ASSUME NEW u \in Users, NEW c \in Ciphers
      PROVE  OwnFolder(u, views'[u][c].folder)
  <2>1. PICK ts \in Times(q) :
          views' = [views EXCEPT ![q.user] = [d \in Ciphers |->
             IF d \in Claimed(q) /\ WritesView(q, d) THEN ViewAfter(q, d, ts)
             ELSE views[q.user][d]]]
    BY DEF CommitItems
  <2>2. \A d \in Claimed(q) : WritesView(q, d) =>
          OwnFolder(q.user, views'[q.user][d].folder)
    BY DEF CommitItems
  <2>3. q.user \in Users
    BY <1>1 DEF Request
  <2>4. \/ views'[u][c] = views[u][c]
        \/ u = q.user /\ c \in Claimed(q) /\ WritesView(q, c)
    <3> DEFINE new == [d \in Ciphers |->
                 IF d \in Claimed(q) /\ WritesView(q, d) THEN ViewAfter(q, d, ts)
                 ELSE views[q.user][d]]
    <3>1. new[c] = IF c \in Claimed(q) /\ WritesView(q, c)
                   THEN ViewAfter(q, c, ts) ELSE views[q.user][c]
      OBVIOUS
    <3> HIDE DEF new
    <3>2. views' = [views EXCEPT ![q.user] = new]
      BY <2>1 DEF new
    <3>3. views'[u] = IF u = q.user THEN new ELSE views[u]
      BY <1>1, <2>3, <3>2 DEF TypeOK
    <3> QED BY <3>1, <3>3
  <2> QED BY <2>2, <2>4 DEF Filing, FoldersHoldOwnItems
<1> QED BY <1>1, <1>2, <1>3

\* What other steps leave of the filing.
LEMMA FilingKept ==
  ASSUME Filing, UNCHANGED folders,
         NEW f \in MaybeFolder, NEW u \in Users, OwnFolder(u, f),
         \A c \in Ciphers :
           \/ ciphers'[c].folder = None
           \/ /\ ciphers'[c].folder = ciphers[c].folder
              /\ ciphers'[c].owner = ciphers[c].owner
           \/ ciphers'[c].folder = f /\ ciphers'[c].owner = u,
         \A v \in Users, c \in Ciphers :
           \/ views'[v][c].folder = views[v][c].folder
           \/ views'[v][c].folder = None
           \/ views'[v][c].folder = f /\ v = u
  PROVE  FoldersHoldOwnItems'
<1>1. ASSUME NEW c \in Ciphers, ciphers'[c].folder # None
      PROVE  /\ ciphers'[c].owner = FolderOwner[ciphers'[c].folder]
             /\ folders'[ciphers'[c].folder].state = "live"
  BY <1>1 DEF Filing, FoldersHoldOwnItems, OwnFolder
<1>2. ASSUME NEW v \in Users, NEW c \in Ciphers
      PROVE  OwnFolder(v, views'[v][c].folder)
  <2>1. CASE views'[v][c].folder = views[v][c].folder
    BY <2>1 DEF Filing, FoldersHoldOwnItems
  <2>2. CASE views'[v][c].folder = None
    BY <2>2 DEF OwnFolder
  <2>3. CASE views'[v][c].folder = f /\ v = u
    BY <2>3
  <2> QED BY <2>1, <2>2, <2>3
<1> QED BY <1>1, <1>2 DEF FoldersHoldOwnItems, OwnFolder

LEMMA NothingFiled ==
  ASSUME Filing, UNCHANGED <<ciphers, views>>,
         \A f \in Folders : folders[f].state = "live" => folders'[f].state = "live"
  PROVE  FoldersHoldOwnItems'
<1>1. ASSUME NEW c \in Ciphers, ciphers[c].folder # None
      PROVE  ciphers[c].folder \in Folders
  BY <1>1 DEF Filing, Inv, TypeOK, Row, MaybeFolder
<1>2. ASSUME NEW u \in Users, NEW c \in Ciphers, views[u][c].folder # None
      PROVE  views[u][c].folder \in Folders
  BY <1>2 DEF Filing, Inv, TypeOK, View, MaybeFolder
<1> QED BY <1>1, <1>2 DEF Filing, FoldersHoldOwnItems, OwnFolder

LEMMA ViewsFile ==
  ASSUME Filing, NEW r \in Requests,
         UpdateViews(r) \/ \E c \in Ciphers : FileView(r, c)
  PROVE  FoldersHoldOwnItems'
<1> DEFINE q == request[r]
<1>1. TypeOK /\ q \in Request /\ q.user \in Users /\ q.folder \in MaybeFolder
  BY RequestType DEF Filing, Inv, UpdateViews, FileView, Busy
<1>2. /\ UNCHANGED <<ciphers, folders>>
      /\ views[q.user] \in [Ciphers -> View]
  BY <1>1 DEF UpdateViews, FileView, TypeOK
<1>3. ASSUME NEW v \in Users, v # q.user
      PROVE  views'[v] = views[v]
  BY <1>1, <1>3 DEF UpdateViews, FileView, TypeOK
<1>4. ASSUME NEW c \in Ciphers
      PROVE  \/ views'[q.user][c].folder = views[q.user][c].folder
             \/ /\ views'[q.user][c].folder = q.folder
                /\ OwnFolder(q.user, q.folder)
  <2>1. CASE UpdateViews(r)
    <3> DEFINE new(d) ==
               IF q.kind = "file" THEN [views[q.user][d] EXCEPT !.folder = q.folder]
               ELSE [views[q.user][d] EXCEPT
                       !.archived = IF q.kind = "archive" THEN q.ts ELSE 0]
             changed == {d \in q.ids :
                    /\ ciphers[d].owner = Organization /\ q.user \in members
                    /\ ciphers[d].state = "live" /\ views[q.user][d] # new(d)}
    <3>1. /\ views' = [views EXCEPT ![q.user] = [d \in Ciphers |->
               IF d \in changed THEN new(d) ELSE views[q.user][d]]]
          /\ changed # {} => OwnFolder(q.user, q.folder)
      BY <2>1 DEF UpdateViews
    <3>2. new(c).folder \in {q.folder, views[q.user][c].folder}
      BY <1>2 DEF View
    <3>3. views'[q.user][c] = IF c \in changed THEN new(c) ELSE views[q.user][c]
      BY <1>1, <3>1 DEF TypeOK
    <3> HIDE DEF changed, new
    <3> QED BY <3>1, <3>2, <3>3
  <2>2. ASSUME NEW d \in Ciphers, FileView(r, d)
        PROVE  \/ views'[q.user][c].folder = views[q.user][c].folder
               \/ /\ views'[q.user][c].folder = q.folder
                  /\ OwnFolder(q.user, q.folder)
    <3>1. views' = [views EXCEPT ![q.user] =
              [views[q.user] EXCEPT ![d] =
                 [views[q.user][d] EXCEPT !.folder = q.folder]]]
      BY <2>2 DEF FileView
    <3>2. [views[q.user][d] EXCEPT !.folder = q.folder].folder = q.folder
      BY <1>2 DEF View
    <3>3. views'[q.user] = [views[q.user] EXCEPT ![d] =
                 [views[q.user][d] EXCEPT !.folder = q.folder]]
      BY <1>1, <3>1 DEF TypeOK
    <3>4. OwnFolder(q.user, q.folder)
      BY <2>2 DEF FileView
    <3> QED BY <1>2, <3>2, <3>3, <3>4
  <2> QED BY <2>1, <2>2
<1>5. CASE OwnFolder(q.user, q.folder)
  BY <1>1, <1>2, <1>3, <1>4, <1>5, FilingKept
<1>6. CASE ~OwnFolder(q.user, q.folder)
  <2>1. OwnFolder(q.user, None) /\ None \in MaybeFolder
    BY DEF OwnFolder, MaybeFolder
  <2> QED BY <1>1, <1>2, <1>3, <1>4, <1>6, <2>1, FilingKept
<1> QED BY <1>5, <1>6

LEMMA MakersFile ==
  ASSUME Filing, NEW r \in Requests,
         \/ \E c \in Ciphers : CommitCreate(r, c)
         \/ \E chunk \in SUBSET Ciphers : ImportChunk(r, chunk)
         \/ ImportLastChunk(r)
  PROVE  FoldersHoldOwnItems'
<1> DEFINE q == request[r]
<1>1. TypeOK /\ q \in Request /\ q # None /\ q.user \in Users
      /\ q.folder \in MaybeFolder /\ RequestOwns(q) /\ UNCHANGED folders
  BY RequestType DEF Filing, Inv, RequestsOwn, CommitCreate, ImportChunk,
     ImportLastChunk, Busy
<1>2. ASSUME NEW owner, NEW f
      PROVE  NewRow(q, owner, f).owner = owner /\ NewRow(q, owner, f).folder = f
  BY DEF NewRow
<1>3. ASSUME NEW c \in Ciphers, CommitCreate(r, c)
      PROVE  FoldersHoldOwnItems'
  <2> DEFINE row == NewRow(q, q.owner,
                      IF q.owner = Organization THEN None ELSE q.folder)
  <2>1. /\ ciphers' = [ciphers EXCEPT ![c] = row]
        /\ OwnFolder(q.user, q.folder)
        /\ q.owner = Organization \/ q.owner = q.user
    BY <1>1, <1>3 DEF CommitCreate, RequestOwns
  <2>2. /\ row.owner = q.owner
        /\ row.folder = IF q.owner = Organization THEN None ELSE q.folder
    BY <1>2
  <2> HIDE DEF row
  <2>3. \A d \in Ciphers : ciphers'[d] = IF d = c THEN row ELSE ciphers[d]
    BY <1>1, <2>1 DEF TypeOK
  <2>4. ASSUME NEW v \in Users, NEW d \in Ciphers
        PROVE  \/ views'[v][d].folder = views[v][d].folder
               \/ views'[v][d].folder = q.folder /\ v = q.user
    <3>1. \/ views' = views
          \/ views' = [views EXCEPT ![q.user] = [views[q.user] EXCEPT ![c] =
                         [folder |-> q.folder, archived |-> 0]]]
      BY <1>3 DEF CommitCreate
    <3>2. views[q.user] \in [Ciphers -> View] /\ views \in [Users -> [Ciphers -> View]]
      BY <1>1 DEF TypeOK
    <3> QED BY <1>1, <3>1, <3>2
  <2> QED BY <1>1, <2>1, <2>2, <2>3, <2>4, FilingKept
<1>4. ASSUME NEW made \in SUBSET Ciphers, q.kind = "import",
             made # {} => OwnFolder(q.user, q.folder),
             ciphers' = [c \in Ciphers |-> IF c \in made
                      THEN NewRow(q, q.owner, q.folder) ELSE ciphers[c]],
             UNCHANGED views
      PROVE  FoldersHoldOwnItems'
  <2>1. q.owner = q.user
    BY <1>1, <1>4 DEF RequestOwns
  <2>2. CASE made = {}
    <3>1. OwnFolder(q.user, None) /\ None \in MaybeFolder
      BY DEF OwnFolder, MaybeFolder
    <3> QED BY <1>1, <1>4, <2>2, <3>1, FilingKept
  <2>3. CASE made # {}
    BY <1>1, <1>2, <1>4, <2>1, <2>3, FilingKept
  <2> QED BY <2>2, <2>3
<1>5. ASSUME NEW chunk \in SUBSET Ciphers, ImportChunk(r, chunk)
      PROVE  FoldersHoldOwnItems'
  BY <1>4, <1>5 DEF ImportChunk, Imported
<1>6. CASE ImportLastChunk(r)
  <2>1. q.ids \in SUBSET Ciphers
    BY <1>1 DEF Request
  <2> QED BY <1>4, <1>6, <2>1 DEF ImportLastChunk, Imported
<1> QED BY <1>3, <1>5, <1>6

LEMMA PurgesFile ==
  ASSUME Filing, NEW owner, NEW ts \in Nat, ciphers' = PurgedAll(owner, ts),
         UNCHANGED <<views, folders>>, NEW u \in Users
  PROVE  FoldersHoldOwnItems'
<1>1. ASSUME NEW c \in Ciphers
      PROVE  /\ ciphers'[c].folder = ciphers[c].folder
             /\ ciphers'[c].owner = ciphers[c].owner
  <2>1. /\ ciphers[c] \in Row
        /\ ciphers'[c] = IF ciphers[c].owner = owner
                         THEN PurgedRow(ciphers[c], ts, writes + 1)
                         ELSE ciphers[c]
    BY DEF Filing, Inv, TypeOK, PurgedAll
  <2> QED BY <2>1 DEF PurgedRow, Row
<1>2. OwnFolder(u, None) /\ None \in MaybeFolder
  BY DEF OwnFolder, MaybeFolder
<1> QED BY <1>1, <1>2, FilingKept

LEMMA DeletionFile ==
  ASSUME Filing, NEW r \in FolderRequests, CommitDeleteFolder(r)
  PROVE  FoldersHoldOwnItems'
<1> DEFINE q == folderRequest[r]
<1>1. TypeOK /\ q \in FolderRequest /\ q.user \in Users /\ q.folder \in Folders
      /\ q.user = FolderOwner[q.folder]
  BY DEF Filing, Inv, TypeOK, CommitDeleteFolder, FolderRequest, RequestsOwn
<1>2. \A f \in Folders : f # q.folder => folders'[f] = folders[f]
  BY <1>1 DEF CommitDeleteFolder, TypeOK
<1>3. ASSUME NEW c \in Ciphers
      PROVE  /\ ciphers'[c].owner = ciphers[c].owner
             /\ \/ ciphers'[c].folder = None
                \/ /\ ciphers'[c].folder = ciphers[c].folder
                   /\ ciphers[c].folder # q.folder
  <2>1. ciphers[c] \in Row /\ ciphers'[c] = Unfiled(ciphers[c], q)
    BY <1>1 DEF TypeOK, CommitDeleteFolder
  <2>2. ciphers[c].folder = q.folder => ciphers[c].owner = q.user
    BY <1>1, VaultAssumption DEF Filing, FoldersHoldOwnItems
  <2> QED BY <2>1, <2>2 DEF Unfiled, Row
<1>4. ASSUME NEW u \in Users, NEW c \in Ciphers
      PROVE  \/ views'[u][c].folder = None
             \/ /\ views'[u][c].folder = views[u][c].folder
                /\ views[u][c].folder # q.folder
  <2>1. views[u] \in [Ciphers -> View] /\ views \in [Users -> [Ciphers -> View]]
    BY <1>1 DEF TypeOK
  <2>2. CASE u = q.user
    <3>1. views'[u] = [d \in Ciphers |->
                IF views[u][d].folder = q.folder
                THEN [views[u][d] EXCEPT !.folder = None] ELSE views[u][d]]
      BY <2>1, <2>2 DEF CommitDeleteFolder
    <3> QED BY <2>1, <3>1 DEF View
  <2>3. CASE u # q.user
    <3>1. views'[u] = views[u]
      BY <1>1, <2>1, <2>3 DEF CommitDeleteFolder
    <3>2. views[u][c].folder = q.folder => u = q.user
      BY <1>1, VaultAssumption DEF Filing, FoldersHoldOwnItems, OwnFolder
    <3> QED BY <2>3, <3>1, <3>2
  <2> QED BY <2>2, <2>3
<1>5. ASSUME NEW c \in Ciphers, ciphers'[c].folder # None
      PROVE  /\ ciphers'[c].owner = FolderOwner[ciphers'[c].folder]
             /\ folders'[ciphers'[c].folder].state = "live"
  <2>1. ciphers[c].folder \in Folders \cup {None}
    BY <1>1 DEF TypeOK, Row, MaybeFolder
  <2> QED BY <1>2, <1>3, <1>5, <2>1 DEF Filing, FoldersHoldOwnItems
<1>6. ASSUME NEW u \in Users, NEW c \in Ciphers
      PROVE  OwnFolder(u, views[u][c].folder)'
  <2>1. views[u][c].folder \in Folders \cup {None}
    BY <1>1 DEF TypeOK, View, MaybeFolder
  <2> QED BY <1>2, <1>4, <2>1 DEF Filing, FoldersHoldOwnItems, OwnFolder
<1> QED BY <1>5, <1>6 DEF FoldersHoldOwnItems, OwnFolder

LEMMA OwnersStep ==
  ASSUME Inv, OwnersExist, RequestsOwn, [VaultNext]_vars
  PROVE  OwnersExist'
<1> SUFFICES ASSUME NEW c \in Ciphers, ciphers'[c].state # "absent"
             PROVE  ciphers'[c].owner # None
  BY DEF OwnersExist
<1> USE VaultAssumption DEF Inv
<1>0. ciphers[c].state # "absent" => ciphers[c].owner # None
  BY DEF OwnersExist
<1>1. ASSUME NEW r \in Requests, CommitItems(r) PROVE ciphers'[c].owner # None
  <2>1. CASE c \in Claimed(request[r])
    BY <1>0, <1>1, <2>1, ClaimedRows
  <2>2. CASE c \notin Claimed(request[r])
    BY <1>0, <1>1, <2>2, ClaimedRows
  <2> QED BY <2>1, <2>2
<1>2. ASSUME NEW r \in Requests, request[r] # None, NEW f,
             ciphers'[c] \in {ciphers[c], NewRow(request[r], request[r].owner, f)}
      PROVE  ciphers'[c].owner # None
  <2>1. request[r].owner # None
    BY <1>2, RequestType
  <2> QED BY <1>0, <1>2, <2>1 DEF NewRow
<1>3. ASSUME NEW r \in Requests, NEW d \in Ciphers, CommitCreate(r, d)
      PROVE  ciphers'[c].owner # None
  <2> DEFINE f == IF request[r].owner = Organization THEN None
                  ELSE request[r].folder
  <2>1. request[r] # None
        /\ ciphers'[c] \in {ciphers[c], NewRow(request[r], request[r].owner, f)}
    BY <1>3 DEF CommitCreate, Busy, TypeOK
  <2> HIDE DEF f
  <2> QED BY <1>2, <2>1
<1>4. ASSUME NEW r \in Requests,
             \/ \E chunk \in SUBSET Ciphers : ImportChunk(r, chunk)
             \/ ImportLastChunk(r)
      PROVE  ciphers'[c].owner # None
  <2> DEFINE f == request[r].folder
  <2>1. request[r] # None
        /\ ciphers'[c] \in {ciphers[c], NewRow(request[r], request[r].owner, f)}
    BY <1>4 DEF ImportChunk, ImportLastChunk, Imported, Busy
  <2> HIDE DEF f
  <2> QED BY <1>2, <2>1
<1>5. ASSUME NEW owner, owner # None, NEW ts \in Nat,
             ciphers' = PurgedAll(owner, ts)
      PROVE  ciphers'[c].owner # None
  <2>1. ciphers[c] \in Row
        /\ ciphers'[c] = IF ciphers[c].owner = owner
                         THEN PurgedRow(ciphers[c], ts, writes + 1)
                         ELSE ciphers[c]
    BY <1>5 DEF PurgedAll, TypeOK
  <2>2. ciphers[c].owner = owner => PurgedRow(ciphers[c], ts, writes + 1).owner # None
    BY <1>5, <2>1 DEF PurgedRow, Row
  <2> QED BY <1>0, <2>1, <2>2
<1>6. ASSUME NEW r \in Requests, CommitPurge(r) PROVE ciphers'[c].owner # None
  <2>1. request[r].owner # None /\ request[r].ts \in Nat
    BY <1>6, RequestType DEF CommitPurge, Busy
  <2> QED BY <1>5, <1>6, <2>1 DEF CommitPurge
<1>7. ASSUME NEW r \in FolderRequests, CommitDeleteFolder(r)
      PROVE  ciphers'[c].owner # None
  <2>1. ciphers[c] \in Row /\ folderRequest[r] \in FolderRequest
        /\ ciphers'[c] = Unfiled(ciphers[c], folderRequest[r])
    BY <1>7 DEF CommitDeleteFolder, TypeOK
  <2>2. /\ ciphers'[c].owner = ciphers[c].owner
        /\ ciphers'[c].state = ciphers[c].state
    BY <2>1, UnfiledRow DEF SameItem
  <2> QED BY <1>0, <2>2
<1>8. CASE Elsewhere
  <2>1. CASE DeleteOrganization
    <3>1. Organization # None /\ now \in Nat
      BY DEF TypeOK
    <3> QED BY <1>5, <2>1, <3>1 DEF DeleteOrganization
  <2> QED BY <1>0, <1>8, <2>1 DEF Elsewhere, CreateFolder, JoinOrganization,
            LeaveOrganization, Tick
<1>9. CASE UNCHANGED ciphers
  BY <1>0, <1>9
<1>10. ASSUME NEW r \in Requests, ItemRequest(r) PROVE ciphers'[c].owner # None
  <2>1. ASSUME NEW d \in Ciphers, CommitAttach(r, d)
        PROVE  ciphers'[c].owner # None
    BY <1>0, <2>1, AttachEffect DEF SameItem
  <2> QED BY <1>1, <1>3, <1>4, <1>6, <1>9, <1>10, <2>1, ReadsOnly
          DEF ItemRequest, Reads, UpdateViews, AnnounceViews, FileView
<1>11. ASSUME NEW r \in FolderRequests, FolderStep(r)
       PROVE  ciphers'[c].owner # None
  BY <1>7, <1>9, <1>11 DEF FolderStep, StartFolder, CommitRename, GiveUpFolder
<1> QED BY <1>8, <1>9, <1>10, <1>11 DEF VaultNext, vars

LEMMA FilingStep ==
  ASSUME Filing, [VaultNext]_vars
  PROVE  FoldersHoldOwnItems'
<1> USE DEF Filing
<1>1. ASSUME NEW r \in Requests, CommitItems(r) PROVE FoldersHoldOwnItems'
  <2>1. /\ \A c \in Ciphers : Filed(ciphers'[c])
        /\ \A u \in Users, c \in Ciphers : OwnFolder(u, views'[u][c].folder)
        /\ folders' = folders
    BY <1>1, ItemsFile
  <2> QED BY <2>1 DEF FoldersHoldOwnItems, Filed, OwnFolder
<1>2. ASSUME NEW r \in Requests, CommitPurge(r) PROVE FoldersHoldOwnItems'
  <2>1. request[r].user \in Users /\ request[r].ts \in Nat
    BY <1>2, RequestType DEF CommitPurge, Busy, Inv
  <2> QED BY <1>2, <2>1, PurgesFile DEF CommitPurge
<1>3. ASSUME NEW r \in Requests, ItemRequest(r) PROVE FoldersHoldOwnItems'
  <2>1. CASE UNCHANGED <<ciphers, views, folders>>
    BY <2>1, NothingFiled
  <2>2. ASSUME NEW c \in Ciphers, CommitAttach(r, c) PROVE FoldersHoldOwnItems'
    <3>1. \A d \in Ciphers : /\ ciphers'[d].folder = ciphers[d].folder
                             /\ ciphers'[d].owner = ciphers[d].owner
      BY <2>2, AttachEffect DEF Inv, SameItem
    <3>2. OwnFolder(OrgOwner, None) /\ None \in MaybeFolder /\ OrgOwner \in Users
      BY VaultAssumption DEF OwnFolder, MaybeFolder
    <3> QED BY <2>2, <3>1, <3>2, FilingKept DEF CommitAttach
  <2> QED BY <1>1, <1>2, <1>3, <2>1, <2>2, ReadsOnly, ViewsFile, MakersFile
          DEF ItemRequest, Reads, AnnounceViews
<1>4. ASSUME NEW r \in FolderRequests, FolderStep(r) PROVE FoldersHoldOwnItems'
  <2>1. CASE CommitRename(r)
    <3>1. UNCHANGED <<ciphers, views>>
          /\ \A f \in Folders : folders'[f].state = folders[f].state
      BY <2>1 DEF CommitRename, Inv, TypeOK, FolderRow
    <3> QED BY <3>1, NothingFiled
  <2>2. CASE UNCHANGED <<ciphers, views, folders>>
    BY <2>2, NothingFiled
  <2> QED BY <1>4, <2>1, <2>2, DeletionFile DEF FolderStep, StartFolder, GiveUpFolder
<1>5. CASE Elsewhere
  <2>1. ASSUME NEW f \in Folders, CreateFolder(f) PROVE FoldersHoldOwnItems'
    <3>1. UNCHANGED <<ciphers, views>>
          /\ \A g \in Folders : folders[g].state = "live" => folders'[g].state = "live"
      BY <2>1 DEF CreateFolder, Inv, TypeOK, FolderRow
    <3> QED BY <3>1, NothingFiled
  <2>3. CASE DeleteOrganization
    <3>1. OrgOwner \in Users /\ now \in Nat
      BY VaultAssumption DEF Inv, TypeOK
    <3> QED BY <2>3, <3>1, PurgesFile DEF DeleteOrganization
  <2>4. CASE UNCHANGED <<ciphers, views, folders>>
    BY <2>4, NothingFiled
  <2> QED BY <1>5, <2>1, <2>3, <2>4 DEF Elsewhere, JoinOrganization,
            LeaveOrganization, Tick
<1>6. CASE UNCHANGED vars
  <2>1. UNCHANGED <<ciphers, views, folders>>
    BY <1>6 DEF vars
  <2> QED BY <2>1, NothingFiled
<1> QED BY <1>3, <1>4, <1>5, <1>6 DEF VaultNext

LEMMA FilingInit == ASSUME Init PROVE Filing
<1>1. Inv
  BY InitInv
<1>2. PICK own \in [Ciphers -> Users \cup {Organization, None}],
           filed \in [Ciphers -> MaybeFolder] :
       /\ \A c \in Ciphers : filed[c] # None =>
            own[c] = FolderOwner[filed[c]] /\ folders[filed[c]].state = "live"
       /\ ciphers = [c \in Ciphers |->
            IF own[c] = None THEN NoRow
            ELSE [NoRow EXCEPT !.owner = own[c], !.state = "live",
                               !.folder = filed[c]]]
  BY DEF Init
<1>3. ASSUME NEW c \in Ciphers
      PROVE  /\ ciphers[c].state # "absent" => ciphers[c].owner # None
             /\ Filed(ciphers[c])
  <2>1. CASE own[c] = None
    BY <1>2, <2>1 DEF NoRow, Filed
  <2>2. CASE own[c] # None
    BY <1>2, <2>2 DEF NoRow, Filed
  <2> QED BY <2>1, <2>2
<1>4. RequestsOwn
  BY DEF Init, RequestsOwn
<1>5. \A u \in Users, c \in Ciphers : views[u][c].folder = None
  BY DEF Init, NoView
<1> QED BY <1>1, <1>3, <1>4, <1>5
        DEF Filing, OwnersExist, FoldersHoldOwnItems, Filed, OwnFolder

LEMMA FilingNext == ASSUME Filing, [VaultNext]_vars PROVE Filing'
<1>1. Inv' /\ OwnersExist' /\ RequestsOwn'
  BY NextInv, OwnersStep, OwnsStep DEF Filing
<1> QED BY <1>1, FilingStep DEF Filing

\* What a request shares was all read by it, and of its user: the batch that
\* shares one shares all.
LEMMA SharesTogether ==
  ASSUME Filing, VaultNext, NEW r \in Requests, request[r] # None,
         request[r].kind = "share", request'[r] = None,
         NEW d \in request[r].ids, ciphers'[d].owner # ciphers[d].owner,
         NEW c \in request[r].ids
  PROVE  ciphers'[c].owner = Organization
<1> DEFINE q == request[r]
<1>0. TypeOK /\ q.ids \subseteq Ciphers
  BY RequestType DEF Filing, Inv
<1>1. CASE CommitItems(r)
  <2>1. Claimed(q) = Candidates(q)
    BY <1>1 DEF CommitItems, Claimed
  <2>2. c \in Candidates(q)
    BY DEF Candidates, Filing, RequestsOwn, RequestOwns
  <2> QED BY <1>1, <2>1, <2>2, ClaimedRows DEF Filing
<1>2. ASSUME NEW o \in Requests, o # r, ItemRequest(o)
      PROVE  FALSE
  <2>1. request'[r] = request[r]
    <3>1. CASE Reads(o)
      BY <1>0, <1>2, <3>1, ReadOutcomes DEF ReadOutcome
    <3>2. CASE ~Reads(o)
      BY <1>0, <1>2, <3>2 DEF ItemRequest, Reads, CommitItems, UpdateViews,
         AnnounceViews, FileView, CommitAttach, CommitCreate, ImportChunk,
         ImportLastChunk, CommitPurge, TypeOK
    <3> QED BY <3>1, <3>2
  <2> QED BY <2>1
<1>3. CASE UNCHANGED ciphers
  BY <1>0, <1>3
<1>4. CASE ItemRequest(r)
  BY <1>1, <1>3, <1>4, ReadsOnly DEF ItemRequest, Reads, UpdateViews,
     AnnounceViews, FileView, CommitAttach, CommitCreate, ImportChunk,
     ImportLastChunk, CommitPurge
<1>5. ASSUME NEW o \in FolderRequests, FolderStep(o)
      PROVE  FALSE
  BY <1>5 DEF FolderStep, StartFolder, CommitRename, CommitDeleteFolder,
     GiveUpFolder
<1>6. CASE Elsewhere
  BY <1>6 DEF Elsewhere, CreateFolder, JoinOrganization,
     LeaveOrganization, DeleteOrganization, Tick
<1> QED BY <1>2, <1>4, <1>5, <1>6 DEF VaultNext

-----------------------------------------------------------------------------
(* What a revision date tells.  An item's date moves on with its contents, *)
(* as long as neither attachments nor folders write it.                    *)

OnlyEditsDate ==
  /\ Operations \cap {"attach", "folder"} = {}
  /\ \A r \in Requests : request[r] # None => request[r].kind # "attach"
  /\ \A r \in FolderRequests : folderRequest[r] = None

\* What a request has read is as old as it says, and an edit that was accepted
\* read the contents its client had.
DatesTell ==
  \A r \in Requests : request[r] # None =>
    \A c \in Ciphers : LET seen == request[r].seen[c] IN
      seen.state # "absent" =>
        /\ seen.updated <= ciphers[c].updated
        /\ seen.token = ciphers[c].token => seen.updated = ciphers[c].updated
        /\ seen.updated = ciphers[c].updated => seen.content = ciphers[c].content
        /\ request[r].base # None => seen.content = request[r].base

Dating == Filing /\ OnlyEditsDate /\ DatesTell

LEMMA LaterIsLater ==
  ASSUME NEW a \in Nat, NEW ts \in Nat
  PROVE  Later(a, ts) > a
BY DEF Later, Maximum

\* An item stays as it is, or gets a new token and a later date.
DateMoves(c) ==
  \/ ciphers'[c] = ciphers[c]
  \/ ciphers[c].state = "absent"
  \/ /\ ciphers'[c].updated > ciphers[c].updated
     /\ ciphers'[c].token = writes + 1

LEMMA PurgesDate ==
  ASSUME TypeOK, NEW owner, NEW ts \in Nat, ciphers' = PurgedAll(owner, ts),
         NEW c \in Ciphers
  PROVE  DateMoves(c)
<1>1. ciphers[c] \in Row
      /\ ciphers'[c] = IF ciphers[c].owner = owner
                       THEN PurgedRow(ciphers[c], ts, writes + 1)
                       ELSE ciphers[c]
  BY DEF PurgedAll, TypeOK
<1>2. /\ PurgedRow(ciphers[c], ts, writes + 1).updated =
           Later(ciphers[c].updated, ts)
      /\ PurgedRow(ciphers[c], ts, writes + 1).token = writes + 1
  BY <1>1 DEF PurgedRow, Row
<1>3. ciphers[c].updated \in Nat
  BY <1>1 DEF Row
<1> QED BY <1>1, <1>2, <1>3, LaterIsLater DEF DateMoves

LEMMA DatesMove ==
  ASSUME Dating, VaultNext, NEW c \in Ciphers
  PROVE  DateMoves(c)
<1> USE DEF Dating, Filing, Inv
<1>1. ASSUME NEW r \in Requests, CommitItems(r) PROVE DateMoves(c)
  <2> DEFINE q == request[r]
  <2>1. PICK ts \in Times(q) : \A d \in Ciphers :
          ciphers'[d] = IF d \in Claimed(q) THEN After(q, d, ts) ELSE ciphers[d]
    BY <1>1, ClaimedRows
  <2>2. CASE c \in Claimed(q)
    <3>1. q \in Request /\ q.kind \in ItemKinds /\ q # None
      BY <1>1, ClaimedRows DEF CommitItems, Busy
    <3>2. ts \in Nat
      BY <2>1, <3>1, TimesType
    <3>3. q.seen[c].state # "absent" /\ ciphers[c].token = q.seen[c].token
      BY <1>1, <2>2, ClaimedRows
    <3>4. q.seen[c].updated = ciphers[c].updated
      BY <3>1, <3>3 DEF DatesTell
    <3>5. ciphers[c].updated \in Nat
      BY DEF TypeOK, Row
    <3>6. /\ After(q, c, ts).updated = Later(ciphers[c].updated, ts)
          /\ After(q, c, ts).token = writes + 1
      BY <3>1, <3>2, <3>4, AfterRow
    <3> QED BY <2>1, <2>2, <3>2, <3>5, <3>6, LaterIsLater DEF DateMoves
  <2>3. CASE c \notin Claimed(q)
    BY <2>1, <2>3 DEF DateMoves
  <2> QED BY <2>2, <2>3
<1>2. ASSUME NEW r \in Requests,
             ciphers'[c] # ciphers[c],
             \/ \E d \in Ciphers : CommitCreate(r, d)
             \/ \E chunk \in SUBSET Ciphers : ImportChunk(r, chunk)
             \/ ImportLastChunk(r)
      PROVE  DateMoves(c)
  <2>1. Makes(r, c)
    BY <1>2 DEF Makes, CommitCreate, ImportChunk, ImportLastChunk, Imported,
       Busy, TypeOK
  <2> QED BY <2>1 DEF IdsFresh, DateMoves
<1>3. ASSUME NEW r \in Requests, CommitPurge(r) PROVE DateMoves(c)
  <2>1. request[r].ts \in Nat
    BY <1>3, RequestType DEF CommitPurge, Busy
  <2> QED BY <1>3, <2>1, PurgesDate DEF CommitPurge
<1>4. ASSUME NEW r \in FolderRequests, FolderStep(r)
      PROVE  FALSE
  BY <1>4 DEF FolderStep, StartFolder, CommitRename, CommitDeleteFolder,
     GiveUpFolder, OnlyEditsDate
<1>5. CASE DeleteOrganization
  <2>1. now \in Nat
    BY DEF TypeOK
  <2> QED BY <1>5, <2>1, PurgesDate DEF DeleteOrganization
<1>6. CASE UNCHANGED ciphers
  BY <1>6 DEF DateMoves
<1>7. ASSUME NEW r \in Requests, ItemRequest(r) PROVE DateMoves(c)
  <2>1. ciphers'[c] = ciphers[c] => DateMoves(c)
    BY DEF DateMoves
  <2>2. ASSUME NEW d \in Ciphers, CommitAttach(r, d) PROVE FALSE
    BY <2>2, AttachEffect DEF OnlyEditsDate
  <2> QED BY <1>1, <1>2, <1>3, <1>6, <1>7, <2>1, <2>2, ReadsOnly
          DEF ItemRequest, Reads, UpdateViews, AnnounceViews, FileView
<1> QED BY <1>4, <1>5, <1>6, <1>7 DEF VaultNext, Elsewhere,
     CreateFolder, JoinOrganization, LeaveOrganization, Tick,
     OnlyEditsDate

\* A request that is new has read the rows as they are; only an edit has a
\* base, which its client read at the date the item still has.
LEMMA BasesRead ==
  ASSUME Dating, NEW r \in Requests, Reads(r), request'[r] # None,
         NEW c \in Ciphers, request'[r].seen[c].state # "absent",
         request'[r].base # None
  PROVE  request'[r].seen[c].content = request'[r].base
<1> USE DEF Dating, Filing, Inv
<1>1. CASE SkipItems(r)
  <2>1. request[r] # None /\ RequestStep
    BY <1>1, RequestGoesOn DEF SkipItems, Busy
  <2> QED BY <2>1 DEF RequestStep, DatesTell
<1>2. ASSUME NEW d \in Ciphers, NEW f \in MaybeFolder, SubmitEdit(r, d, f)
      PROVE  request'[r].seen[c].content = request'[r].base
  <2> DEFINE q == request[r]
             new == [q EXCEPT !.phase = "ready", !.seen = SeenRows({d}),
                       !.view = OwnView(q.user, d), !.folder = f,
                       !.base = q.seen[d].content, !.ts = now]
  <2>1. /\ request' = [request EXCEPT ![r] = new] /\ q \in Request /\ q # None
        /\ ciphers[d].updated = q.seen[d].updated /\ d \in q.ids
        /\ q.phase = "editing"
    BY <1>2, RequestType DEF SubmitEdit, Busy
  <2>2. new.seen = SeenRows({d}) /\ new.base = q.seen[d].content
    BY <2>1 DEF Request
  <2>3. request'[r] = new
    BY <2>1 DEF TypeOK
  <2> HIDE DEF new
  <2>4. c = d /\ request'[r].seen[c] = ciphers[d]
    BY <2>2, <2>3, NoRowType DEF SeenRows
  <2>5. q.seen[d].state # "absent"
    BY <2>1 DEF RequestsOwn, RequestOwns
  <2> QED BY <2>1, <2>2, <2>3, <2>4, <2>5 DEF DatesTell
<1>3. ASSUME ~SkipItems(r),
             ~ \E d \in Ciphers, f \in MaybeFolder : SubmitEdit(r, d, f)
      PROVE  FALSE
  <2>1. ASSUME NEW u \in Users, NEW d \in Ciphers, NEW f \in MaybeFolder,
               NEW kind \in (ItemKinds \cup {"attach"}) \cap Operations,
               StartItem(r, u, d, kind, f)
        PROVE  request'[r].base = None
    BY <2>1 DEF StartItem, TypeOK
  <2>2. ASSUME NEW u \in Users, NEW d \in Ciphers, NEW f \in MaybeFolder,
               NEW owner, StartCreate(r, u, owner, d, f)
        PROVE  request'[r].base = None
    BY <2>2 DEF StartCreate, Making, TypeOK
  <2>3. ASSUME NEW u \in Users, NEW ids \in SUBSET Ciphers,
               NEW f \in MaybeFolder, NEW kind \in BulkKinds \cap Operations,
               StartBulk(r, u, ids, kind, f)
        PROVE  request'[r].base = None
    BY <2>3 DEF StartBulk, TypeOK
  <2>4. CASE StartSome(r)
    <3>1. CASE \E u \in Users, d \in Ciphers : OpenItem(r, u, d)
      BY <3>1 DEF OpenItem, TypeOK
    <3> QED BY <1>3, <2>1, <2>2, <2>4, <3>1 DEF StartSome
  <2>5. CASE StartMany(r)
    <3>1. ASSUME NEW u \in Users, NEW ids \in SUBSET Ciphers,
                 NEW f \in MaybeFolder, StartImport(r, u, ids, f)
          PROVE  request'[r].base = None
      BY <3>1 DEF StartImport, Making, TypeOK
    <3> QED BY <2>3, <2>5, <3>1 DEF StartMany
  <2>6. CASE \E u \in Users, owner \in Users \cup {Organization} :
               StartPurge(r, u, owner)
    <3>1. PICK u \in Users, owner \in Users \cup {Organization} :
            StartPurge(r, u, owner)
      BY <2>6
    <3> QED BY <3>1 DEF StartPurge, Making, TypeOK
  <2>7. CASE GiveUp(r)
    BY <2>7, RequestEnds DEF GiveUp
  <2> QED BY <1>3, <2>4, <2>5, <2>6, <2>7 DEF Reads
<1> QED BY <1>1, <1>2, <1>3

LEMMA DatesStep ==
  ASSUME Dating, [VaultNext]_vars
  PROVE  OnlyEditsDate' /\ DatesTell'
<1> USE DEF Dating, Filing, Inv
<1>0. OnlyEditsDate'
  <2>1. ASSUME NEW r \in FolderRequests, FolderStep(r)
        PROVE  FALSE
    BY <2>1 DEF FolderStep, StartFolder, CommitRename, CommitDeleteFolder,
       GiveUpFolder, OnlyEditsDate
  <2>2. ASSUME NEW r \in Requests, ItemRequest(r)
        PROVE  UNCHANGED folderRequest
    BY <2>2, ReadsOnly DEF ItemRequest, Reads, CommitItems, UpdateViews,
       AnnounceViews, FileView, CommitAttach, CommitCreate, ImportChunk,
       ImportLastChunk, CommitPurge
  <2>3. ASSUME NEW r \in Requests, request'[r] # None
        PROVE  request'[r].kind # "attach"
    <3>1. CASE WriteStep
      BY <2>3, <3>1 DEF WriteStep, RequestStep, OnlyEditsDate
    <3>2. ASSUME NEW o \in Requests, Reads(o)
          PROVE  request'[r].kind # "attach"
      BY <2>3, <3>2, ReadOutcomes DEF ReadOutcome, OnlyEditsDate
    <3>3. CASE UNCHANGED vars
      BY <2>3, <3>3 DEF vars, OnlyEditsDate
    <3> QED BY <3>1, <3>2, <3>3, StepCases
  <2>4. UNCHANGED folderRequest => OnlyEditsDate'
    BY <2>3 DEF OnlyEditsDate
  <2> QED BY <2>1, <2>2, <2>4 DEF VaultNext, Elsewhere, CreateFolder,
            JoinOrganization, LeaveOrganization, DeleteOrganization, Tick, vars
<1> SUFFICES ASSUME NEW r \in Requests, request'[r] # None, NEW c \in Ciphers,
                    request'[r].seen[c].state # "absent"
             PROVE  LET seen == request'[r].seen[c] IN
                    /\ seen.updated <= ciphers'[c].updated
                    /\ seen.token = ciphers'[c].token
                         => seen.updated = ciphers'[c].updated
                    /\ seen.updated = ciphers'[c].updated
                         => seen.content = ciphers'[c].content
                    /\ request'[r].base # None
                         => seen.content = request'[r].base
  BY <1>0 DEF DatesTell
<1>1. ciphers[c] \in Row /\ ciphers[c].updated \in Nat /\ ciphers[c].token \in Nat
      /\ ciphers[c].token <= writes /\ writes \in Nat
  BY DEF TypeOK, Row, WritesBoundTokens
<1>2. ASSUME VaultNext, WriteStep
      PROVE  LET seen == request'[r].seen[c] IN
             /\ seen.updated <= ciphers'[c].updated
             /\ seen.token = ciphers'[c].token
                  => seen.updated = ciphers'[c].updated
             /\ seen.updated = ciphers'[c].updated
                  => seen.content = ciphers'[c].content
             /\ request'[r].base # None => seen.content = request'[r].base
  <2> DEFINE seen == request[r].seen[c]
  <2>1. /\ request[r] # None /\ request'[r].seen = request[r].seen
        /\ request'[r].base = request[r].base
    BY <1>2 DEF WriteStep, RequestStep
  <2>2. /\ seen.updated <= ciphers[c].updated
        /\ seen.token = ciphers[c].token => seen.updated = ciphers[c].updated
        /\ seen.updated = ciphers[c].updated => seen.content = ciphers[c].content
        /\ request[r].base # None => seen.content = request[r].base
        /\ seen.token <= writes /\ ciphers[c].state # "absent"
    BY <2>1 DEF DatesTell, SeenRowsExist
  <2>3. seen \in Row /\ seen.updated \in Nat /\ seen.token \in Nat
    BY <2>1, RequestType DEF Row
  <2>4. DateMoves(c)
    BY <1>2, DatesMove
  <2>5. ciphers'[c].updated \in Nat
    BY <1>2 DEF WriteStep, TypeOK, Row
  <2> HIDE DEF seen
  <2>6. /\ seen.updated <= ciphers'[c].updated
        /\ seen.token = ciphers'[c].token => seen.updated = ciphers'[c].updated
        /\ seen.updated = ciphers'[c].updated => seen.content = ciphers'[c].content
    BY <1>1, <2>2, <2>3, <2>4, <2>5 DEF DateMoves
  <2> QED BY <2>1, <2>2, <2>6 DEF seen
<1>3. ASSUME NEW o \in Requests, Reads(o)
      PROVE  LET seen == request'[r].seen[c] IN
             /\ seen.updated <= ciphers'[c].updated
             /\ seen.token = ciphers'[c].token
                  => seen.updated = ciphers'[c].updated
             /\ seen.updated = ciphers'[c].updated
                  => seen.content = ciphers'[c].content
             /\ request'[r].base # None => seen.content = request'[r].base
  <2>1. ciphers' = ciphers /\ ReadOutcome(o)
    BY <1>3, ReadsOnly, ReadOutcomes
  <2>2. CASE r # o
    BY <2>1, <2>2 DEF ReadOutcome, DatesTell
  <2>3. CASE r = o
    <3>1. \/ request'[r].seen[c] = ciphers[c]
          \/ request[r] # None /\ request'[r].seen[c] = request[r].seen[c]
      BY <2>1, <2>3 DEF ReadOutcome
    <3>2. request'[r].base # None => request'[r].seen[c].content = request'[r].base
      BY <1>3, <2>3, BasesRead
    <3>3. CASE request'[r].seen[c] = ciphers[c]
      BY <1>1, <2>1, <3>2, <3>3
    <3>4. CASE request[r] # None /\ request'[r].seen[c] = request[r].seen[c]
      BY <2>1, <3>2, <3>4 DEF DatesTell
    <3> QED BY <3>1, <3>3, <3>4
  <2> QED BY <2>2, <2>3
<1>4. CASE UNCHANGED vars
  BY <1>4 DEF DatesTell, vars
<1> QED BY <1>2, <1>3, <1>4, StepCases

LEMMA DatesInit ==
  ASSUME Init, Operations \cap {"attach", "folder"} = {}
  PROVE  Dating
<1>1. Filing
  BY FilingInit
<1> QED BY <1>1 DEF Dating, Init, OnlyEditsDate, DatesTell

LEMMA DatesKeep ==
  ASSUME Dating
  PROVE  EditsKeepNewer
<1> SUFFICES ASSUME NEW r \in Requests, NEW c \in Ciphers,
                    request[r] # None, request[r].base # None,
                    c \in Claimed(request[r])
             PROVE  ciphers[c].content = request[r].base
  BY DEF EditsKeepNewer
<1>1. request[r].seen[c].state # "absent" /\ Fenced(request[r], c)
  BY DEF Claimed, Candidates
<1>2. request[r].seen[c].content = request[r].base
  BY <1>1 DEF Dating, DatesTell
<1>3. SameItem(request[r].seen[c], ciphers[c])
  BY <1>1 DEF Dating, Filing, Inv, TokensNameVersions, Fenced
<1> QED BY <1>2, <1>3 DEF SameItem

-----------------------------------------------------------------------------
\* What is filed in a folder is its user's, and the folder exists
\* (handlers/folders.ts, the foreign key (folder_id, user_id)).
THEOREM FilingSafety == VaultSpec => []FoldersHoldOwnItems
<1>1. VaultSpec => []Filing
  BY FilingInit, FilingNext, PTL DEF VaultSpec
<1>2. Filing => FoldersHoldOwnItems
  BY DEF Filing
<1> QED BY <1>1, <1>2, PTL

\* The items of one request to share go together (handlers/ciphers/sharing.ts).
THEOREM SharingSafety == VaultSpec => SharedTogether
<1>1. VaultSpec => []Filing
  BY FilingInit, FilingNext, PTL DEF VaultSpec
<1>2. ASSUME Filing, [VaultNext]_vars
      PROVE  [\A r \in Requests :
                /\ request[r] # None /\ request[r].kind = "share"
                /\ request'[r] = None
                /\ \E c \in request[r].ids : ciphers'[c].owner # ciphers[c].owner
                => \A c \in request[r].ids : ciphers'[c].owner = Organization]_vars
  BY <1>2, SharesTogether
<1> QED BY <1>1, <1>2, PTL DEF VaultSpec, SharedTogether

\* An edit sent with the revision date of what its client had overwrites that
\* and nothing newer (handlers/ciphers/update.ts), where no attachment and no
\* deletion of a folder moves the date of an item and leaves its token.
THEOREM EditSafety ==
  ASSUME Operations \cap {"attach", "folder"} = {}
  PROVE  VaultSpec => []EditsKeepNewer
<1>1. VaultSpec => []Dating
  <2>1. Init => Dating
    BY DatesInit
  <2>2. Dating /\ [VaultNext]_vars => Dating'
    BY FilingNext, DatesStep DEF Dating
  <2> QED BY <2>1, <2>2, PTL DEF VaultSpec
<1>2. Dating => EditsKeepNewer
  BY DatesKeep
<1> QED BY <1>1, <1>2, PTL

-----------------------------------------------------------------------------
(* What a user sees of the vault changes with an announcement or is on the *)
(* list of what is still to be announced.                                  *)

Told(u) == revision'[u] > revision[u] \/ u \in unannounced'

\* A revision goes forward, and that alone takes a user off the list.
GoesForward(u) ==
  /\ revision'[u] >= revision[u]
  /\ u \in unannounced => Told(u)

Unseen(u, c) ==
  /\ ciphers[c].owner # u
  /\ ~(ciphers[c].owner = Organization /\ u \in members)

KeptFor(u) ==
  /\ \A c \in Ciphers :
       \/ Unseen(u, c) /\ Unseen(u, c)'
       \/ ciphers'[c] = ciphers[c] /\ views'[u][c] = views[u][c]
  /\ \A f \in Folders : FolderOwner[f] = u => folders'[f] = folders[f]
  /\ u \in members' <=> u \in members
  /\ u \in members => organization' = organization

Tells(u) == GoesForward(u) /\ (Told(u) \/ KeptFor(u))

LEMMA AnnounceTells ==
  ASSUME TypeOK, NEW us, NEW ts \in Nat, NEW seers, Announce(us, ts, seers),
         NEW u \in Users
  PROVE  GoesForward(u) /\ (u \in us \cup seers => Told(u))
<1>1. revision[u] \in Nat
  BY DEF TypeOK
<1>2. /\ revision'[u] = IF u \in us THEN NextRevision(u, ts) ELSE revision[u]
      /\ unannounced' = (unannounced \cup seers) \ us
  BY DEF Announce
<1>3. NextRevision(u, ts) > revision[u] /\ NextRevision(u, ts) \in Nat
  BY <1>1 DEF NextRevision, Maximum
<1> QED BY <1>1, <1>2, <1>3 DEF GoesForward, Told

LEMMA ItemsTell ==
  ASSUME Filing, NEW r \in Requests, CommitItems(r), NEW u \in Users
  PROVE  Tells(u)
<1> USE VaultAssumption
<1> DEFINE q == request[r]
           us == UNION {Audience(ciphers'[c].owner) : c \in Claimed(q)}
           seers == IF q.kind = "share" THEN {q.user} ELSE {}
<1>1. TypeOK /\ q \in Request /\ q # None /\ q.user \in Users
  BY ClaimedRows DEF Filing, Inv, CommitItems, Busy, Request
<1>2. PICK ts \in Times(q) :
        /\ views' = [views EXCEPT ![q.user] = [d \in Ciphers |->
             IF d \in Claimed(q) /\ WritesView(q, d) THEN ViewAfter(q, d, ts)
             ELSE views[q.user][d]]]
        /\ Announce(us, ts, seers)
  BY DEF CommitItems
<1>3. ts \in Nat
  BY <1>1, <1>2, TimesType
<1>4. UNCHANGED <<folders, members, organization>>
  BY DEF CommitItems
<1> HIDE DEF us, seers
<1>5. GoesForward(u) /\ (u \in us \cup seers => Told(u))
  BY <1>1, <1>2, <1>3, AnnounceTells
<1>6. ASSUME u \notin us, u \notin seers, NEW c \in Ciphers
      PROVE  \/ Unseen(u, c) /\ Unseen(u, c)'
             \/ ciphers'[c] = ciphers[c] /\ views'[u][c] = views[u][c]
  <2>1. CASE c \in Claimed(q)
    <3>1. u \notin Audience(ciphers'[c].owner)
      BY <1>6, <2>1 DEF us
    <3>2. Unseen(u, c)'
      BY <1>4, <3>1 DEF Audience, Unseen
    <3>3. CASE q.kind = "share"
      <4>1. ciphers[c].owner = q.user
        <5>1. q.seen[c].state # "absent" /\ q.seen[c].owner = ciphers[c].owner
          BY <2>1, ClaimedRows DEF Filing, SameItem
        <5>2. RequestOwns(q)
          BY <1>1 DEF Filing, RequestsOwn
        <5> QED BY <3>3, <5>1, <5>2 DEF RequestOwns
      <4>2. u # q.user
        BY <1>6, <3>3 DEF seers
      <4> QED BY <1>1, <3>2, <4>1, <4>2 DEF Unseen
    <3>4. CASE q.kind # "share"
      <4>1. ciphers'[c].owner = ciphers[c].owner
        BY <2>1, <3>4, ClaimedRows DEF Filing
      <4> QED BY <1>4, <3>2, <4>1 DEF Unseen
    <3> QED BY <3>3, <3>4
  <2>2. CASE c \notin Claimed(q)
    <3>1. ciphers'[c] = ciphers[c]
      BY <2>2, ClaimedRows DEF Filing
    <3> DEFINE new == [d \in Ciphers |->
                 IF d \in Claimed(q) /\ WritesView(q, d) THEN ViewAfter(q, d, ts)
                 ELSE views[q.user][d]]
    <3>2. new[c] = views[q.user][c]
      BY <2>2
    <3> HIDE DEF new
    <3>3. views' = [views EXCEPT ![q.user] = new]
      BY <1>2 DEF new
    <3>4. views'[u] = IF u = q.user THEN new ELSE views[u]
      BY <1>1, <3>3 DEF TypeOK
    <3> QED BY <3>1, <3>2, <3>4
  <2> QED BY <2>1, <2>2
<1> QED BY <1>4, <1>5, <1>6 DEF Tells, KeptFor

\* A step that changes what nobody but one user sees, who is told.
LEMMA OneUserTold ==
  ASSUME NEW u \in Users, GoesForward(u), NEW v,
         u = v => Told(u),
         \A c \in Ciphers :
           \/ ciphers'[c] = ciphers[c]
           \/ ciphers[c].owner \in {v, None} /\ ciphers'[c].owner \in {v, None},
         u # v => views'[u] = views[u],
         \A f \in Folders : FolderOwner[f] # v => folders'[f] = folders[f],
         v # Organization, UNCHANGED <<members, organization>>
  PROVE  Tells(u)
<1>1. CASE u = v
  BY <1>1 DEF Tells
<1>2. CASE u # v
  BY <1>2, VaultAssumption DEF Tells, KeptFor, Unseen
<1> QED BY <1>1, <1>2

LEMMA ViewsTell ==
  ASSUME Filing, NEW r \in Requests, NEW u \in Users,
         \/ UpdateViews(r)
         \/ AnnounceViews(r)
         \/ \E c \in Ciphers : FileView(r, c)
  PROVE  Tells(u)
<1> USE VaultAssumption
<1> DEFINE q == request[r]
<1>1. TypeOK /\ q # None /\ q \in Request /\ q.user \in Users /\ q.ts \in Nat
  BY RequestType DEF Filing, Inv, UpdateViews, AnnounceViews, FileView, Busy
<1>2. UNCHANGED <<ciphers, folders, members, organization>>
  BY DEF UpdateViews, AnnounceViews, FileView
<1>3. u # q.user => views'[u] = views[u]
  BY <1>1 DEF UpdateViews, AnnounceViews, FileView, TypeOK
<1>4. CASE AnnounceViews(r)
  <2>1. Announce({q.user}, q.ts, {})
    BY <1>4 DEF AnnounceViews
  <2>2. GoesForward(u) /\ (u = q.user => Told(u))
    BY <1>1, <2>1, AnnounceTells
  <2> QED BY <1>1, <1>2, <1>3, <2>2, OneUserTold
<1>5. ASSUME NEW c \in Ciphers, FileView(r, c) PROVE Tells(u)
  <2>1. PICK ts \in Times(q) : Announce({q.user}, Later(q.seen[c].updated, ts), {})
    BY <1>5 DEF FileView
  <2>2. Later(q.seen[c].updated, ts) \in Nat
    BY <1>1, <2>1, TimesType, LaterType, RequestType DEF Row
  <2>3. GoesForward(u) /\ (u = q.user => Told(u))
    BY <1>1, <2>1, <2>2, AnnounceTells
  <2> QED BY <1>1, <1>2, <1>3, <2>3, OneUserTold
<1>6. CASE UpdateViews(r)
  <2> DEFINE new(d) ==
               IF q.kind = "file" THEN [views[q.user][d] EXCEPT !.folder = q.folder]
               ELSE [views[q.user][d] EXCEPT
                       !.archived = IF q.kind = "archive" THEN q.ts ELSE 0]
             changed == {d \in q.ids :
                    /\ ciphers[d].owner = Organization /\ q.user \in members
                    /\ ciphers[d].state = "live" /\ views[q.user][d] # new(d)}
  <2>1. /\ views' = [views EXCEPT ![q.user] = [d \in Ciphers |->
               IF d \in changed THEN new(d) ELSE views[q.user][d]]]
        /\ unannounced' = IF changed = {} THEN unannounced
                          ELSE unannounced \cup {q.user}
        /\ UNCHANGED revision
    BY <1>6 DEF UpdateViews
  <2> HIDE DEF changed, new
  <2>2. revision[u] \in Nat
    BY <1>1 DEF TypeOK
  <2>3. GoesForward(u)
    BY <2>1, <2>2 DEF GoesForward, Told
  <2>4. CASE changed = {}
    <3>1. views'[q.user] = [d \in Ciphers |-> views[q.user][d]]
      BY <1>1, <2>1, <2>4 DEF TypeOK
    <3>2. \A d \in Ciphers : views'[u][d] = views[u][d]
      BY <1>3, <3>1
    <3> QED BY <1>2, <2>3, <3>2 DEF Tells, KeptFor
  <2>5. CASE changed # {}
    <3>1. u = q.user => Told(u)
      BY <2>1, <2>5 DEF Told
    <3> QED BY <1>1, <1>2, <1>3, <2>3, <3>1, OneUserTold
  <2> QED BY <2>4, <2>5
<1> QED BY <1>4, <1>5, <1>6

LEMMA MakersTell ==
  ASSUME Filing, NEW r \in Requests, NEW u \in Users,
         \/ \E c \in Ciphers : CommitCreate(r, c)
         \/ \E chunk \in SUBSET Ciphers : ImportChunk(r, chunk)
         \/ ImportLastChunk(r)
  PROVE  Tells(u)
<1> USE VaultAssumption
<1> DEFINE q == request[r]
<1>1. TypeOK /\ q \in Request /\ q # None /\ q.user \in Users /\ q.ts \in Nat
      /\ q.ids \subseteq Ciphers /\ RequestOwns(q) /\ revision[u] \in Nat
  BY RequestType DEF Filing, Inv, RequestsOwn, TypeOK, CommitCreate, ImportChunk,
     ImportLastChunk, Busy
<1>2. UNCHANGED <<folders, members, organization>>
  BY DEF CommitCreate, ImportChunk, ImportLastChunk
<1>3. ASSUME NEW owner, NEW f PROVE NewRow(q, owner, f).owner = owner
  BY DEF NewRow
<1>4. ASSUME NEW c \in q.ids, q.kind \in {"create", "import"}
      PROVE  ciphers[c].owner = None
  BY <1>1, <1>4, NoRowType DEF Filing, Inv, IdsFresh, Makes, AbsentRows
<1>5. ASSUME q.kind = "import", NEW made \in SUBSET q.ids,
             ciphers' = Imported(q, made), UNCHANGED views,
             GoesForward(u), u = q.user => Told(u)
      PROVE  Tells(u)
  <2>1. q.owner = q.user
    BY <1>1, <1>5 DEF RequestOwns
  <2>2. \A c \in Ciphers :
          \/ ciphers'[c] = ciphers[c]
          \/ ciphers[c].owner \in {q.user, None} /\ ciphers'[c].owner \in {q.user, None}
    BY <1>3, <1>4, <1>5, <2>1 DEF Imported
  <2> QED BY <1>1, <1>2, <1>5, <2>2, OneUserTold
<1>6. ASSUME NEW chunk \in SUBSET Ciphers, ImportChunk(r, chunk) PROVE Tells(u)
  <2>1. GoesForward(u) /\ (u = q.user => Told(u))
    BY <1>1, <1>6 DEF ImportChunk, GoesForward, Told
  <2> QED BY <1>5, <1>6, <2>1 DEF ImportChunk
<1>7. CASE ImportLastChunk(r)
  <2>1. Announce({q.user}, q.ts, {})
    BY <1>7 DEF ImportLastChunk
  <2>2. GoesForward(u) /\ (u = q.user => Told(u))
    BY <1>1, <2>1, AnnounceTells
  <2> QED BY <1>5, <1>7, <2>2 DEF ImportLastChunk
<1>8. ASSUME NEW c \in Ciphers, CommitCreate(r, c) PROVE Tells(u)
  <2> DEFINE row == NewRow(q, q.owner,
                      IF q.owner = Organization THEN None ELSE q.folder)
  <2>1. /\ ciphers' = [ciphers EXCEPT ![c] = row] /\ c \in q.ids
        /\ q.kind = "create"
        /\ Announce(Audience(q.owner), q.ts, {})
    BY <1>8 DEF CommitCreate
  <2>2. row.owner = q.owner /\ ciphers[c].owner = None
        /\ q.owner \in {q.user, Organization}
    BY <1>1, <1>3, <1>4, <2>1 DEF RequestOwns
  <2> HIDE DEF row
  <2>3. \A d \in Ciphers : ciphers'[d] = IF d = c THEN row ELSE ciphers[d]
    BY <1>1, <2>1 DEF TypeOK
  <2>4. GoesForward(u) /\ (u \in Audience(q.owner) => Told(u))
    BY <1>1, <2>1, AnnounceTells
  <2>5. CASE q.owner = q.user
    <3>1. UNCHANGED views /\ (u = q.user => Told(u))
      BY <1>1, <1>8, <2>4, <2>5 DEF CommitCreate, Audience
    <3> QED BY <1>1, <1>2, <2>2, <2>3, <2>4, <2>5, <3>1, OneUserTold
  <2>6. CASE q.owner = Organization /\ u \notin members
    <3>1. views' = [views EXCEPT ![q.user] = [views[q.user] EXCEPT ![c] =
                      [folder |-> q.folder, archived |-> 0]]]
      BY <1>8, <2>6 DEF CommitCreate
    <3>2. views[q.user] \in [Ciphers -> View] /\ views \in [Users -> [Ciphers -> View]]
      BY <1>1 DEF TypeOK
    <3>3. \A d \in Ciphers : d # c => views'[u][d] = views[u][d]
      BY <1>1, <3>1, <3>2
    <3>4. Unseen(u, c) /\ Unseen(u, c)'
      BY <1>2, <2>2, <2>3, <2>6 DEF Unseen
    <3> QED BY <1>2, <2>3, <2>4, <3>3, <3>4 DEF Tells, KeptFor
  <2>7. CASE u \in members /\ q.owner = Organization
    BY <2>4, <2>7 DEF Tells, Audience
  <2> QED BY <2>2, <2>5, <2>6, <2>7
<1> QED BY <1>6, <1>7, <1>8

LEMMA AttachTells ==
  ASSUME Filing, NEW r \in Requests, NEW c \in Ciphers, CommitAttach(r, c),
         NEW u \in Users
  PROVE  Tells(u)
<1>1. TypeOK /\ UNCHANGED <<views, folders, members, organization>>
  BY DEF Filing, Inv, CommitAttach
<1>2. PICK date \in Nat : Announce(Audience(ciphers[c].owner), date, {})
  BY <1>1, AttachEffect
<1>3. /\ \A d \in Ciphers : d # c => ciphers'[d] = ciphers[d]
      /\ ciphers'[c].owner = ciphers[c].owner
  BY <1>1, AttachEffect DEF SameItem
<1>4. GoesForward(u) /\ (u \in Audience(ciphers[c].owner) => Told(u))
  BY <1>1, <1>2, AnnounceTells
<1>5. u \notin Audience(ciphers[c].owner) => Unseen(u, c) /\ Unseen(u, c)'
  BY <1>1, <1>3, VaultAssumption DEF Audience, Unseen
<1> QED BY <1>1, <1>3, <1>4, <1>5 DEF Tells, KeptFor

LEMMA PurgesTell ==
  ASSUME Filing, NEW owner \in Users \cup {Organization}, NEW ts \in Nat,
         ciphers' = PurgedAll(owner, ts), Announce(Audience(owner), ts, {}),
         owner # Organization => UNCHANGED organization,
         owner = Organization =>
           UNCHANGED organization \/ Audience(owner) = members,
         UNCHANGED <<views, folders, members>>, NEW u \in Users
  PROVE  Tells(u)
<1> USE VaultAssumption
<1>1. TypeOK
  BY DEF Filing, Inv
<1>2. GoesForward(u) /\ (u \in Audience(owner) => Told(u))
  BY <1>1, AnnounceTells
<1>3. ASSUME u \notin Audience(owner), NEW c \in Ciphers
      PROVE  \/ Unseen(u, c) /\ Unseen(u, c)'
             \/ ciphers'[c] = ciphers[c]
  <2>1. ciphers[c] \in Row
        /\ ciphers'[c] = IF ciphers[c].owner = owner
                         THEN PurgedRow(ciphers[c], ts, writes + 1)
                         ELSE ciphers[c]
    BY <1>1 DEF TypeOK, PurgedAll
  <2>2. ciphers'[c].owner = ciphers[c].owner
    BY <2>1 DEF PurgedRow, Row
  <2> QED BY <1>3, <2>1, <2>2 DEF Unseen, Audience
<1>4. ASSUME u \notin Audience(owner)
      PROVE  u \in members => organization' = organization
  BY <1>4 DEF Audience
<1> QED BY <1>2, <1>3, <1>4 DEF Tells, KeptFor

LEMMA FoldersTell ==
  ASSUME Filing, NEW u \in Users,
         \/ \E f \in Folders : CreateFolder(f)
         \/ \E r \in FolderRequests : CommitRename(r) \/ CommitDeleteFolder(r)
  PROVE  Tells(u)
<1> USE VaultAssumption
<1>1. TypeOK
  BY DEF Filing, Inv
<1>2. ASSUME NEW f \in Folders, CreateFolder(f) PROVE Tells(u)
  <2>1. /\ UNCHANGED <<ciphers, views, members, organization>>
        /\ now \in Nat /\ FolderOwner[f] \in Users
        /\ Announce({FolderOwner[f]}, now, {})
        /\ \A g \in Folders : g # f => folders'[g] = folders[g]
    BY <1>1, <1>2 DEF CreateFolder, TypeOK
  <2>2. GoesForward(u) /\ (u = FolderOwner[f] => Told(u))
    BY <1>1, <2>1, AnnounceTells
  <2> QED BY <2>1, <2>2, OneUserTold
<1>3. ASSUME NEW r \in FolderRequests, CommitRename(r) \/ CommitDeleteFolder(r)
      PROVE  Tells(u)
  <2> DEFINE q == folderRequest[r]
  <2>1. /\ q \in FolderRequest /\ q.user \in Users /\ q.folder \in Folders
        /\ q.ts \in Nat /\ q.user = FolderOwner[q.folder]
    BY <1>1, <1>3 DEF Filing, TypeOK, CommitRename, CommitDeleteFolder,
       FolderRequest, RequestsOwn
  <2>2. /\ UNCHANGED <<members, organization>>
        /\ Announce({q.user}, q.ts, {})
        /\ \A f \in Folders : f # q.folder => folders'[f] = folders[f]
    BY <1>1, <1>3, <2>1 DEF CommitRename, CommitDeleteFolder, TypeOK
  <2>3. GoesForward(u) /\ (u = q.user => Told(u))
    BY <1>1, <2>1, <2>2, AnnounceTells
  <2>4. ASSUME NEW c \in Ciphers
        PROVE  \/ ciphers'[c] = ciphers[c]
               \/ ciphers[c].owner \in {q.user, None}
                  /\ ciphers'[c].owner \in {q.user, None}
    <3>1. ciphers[c] \in Row
      BY <1>1 DEF TypeOK
    <3>2. ciphers'[c] = ciphers[c] \/ ciphers'[c] = Unfiled(ciphers[c], q)
      BY <1>3 DEF CommitRename, CommitDeleteFolder
    <3> QED BY <3>1, <3>2 DEF Unfiled, Row
  <2>5. u # q.user => views'[u] = views[u]
    BY <1>1, <1>3, <2>1 DEF CommitRename, CommitDeleteFolder, TypeOK
  <2> QED BY <2>1, <2>2, <2>3, <2>4, <2>5, OneUserTold
<1> QED BY <1>2, <1>3

LEMMA ElsewhereTells ==
  ASSUME Filing, NEW u \in Users, Elsewhere
  PROVE  Tells(u)
<1> USE VaultAssumption
<1>1. TypeOK /\ now \in Nat /\ revision[u] \in Nat
  BY DEF Filing, Inv, TypeOK
<1>3. ASSUME NEW v \in Users, JoinOrganization(v) PROVE Tells(u)
  <2>1. /\ UNCHANGED <<ciphers, views, folders, organization>>
        /\ Announce({v, OrgOwner}, now, {}) /\ members' = members \cup {v}
    BY <1>3 DEF JoinOrganization
  <2>2. GoesForward(u) /\ (u = v => Told(u))
    BY <1>1, <2>1, AnnounceTells
  <2> QED BY <2>1, <2>2 DEF Tells, KeptFor
<1>4. ASSUME NEW v \in Users, LeaveOrganization(v) PROVE Tells(u)
  <2>1. /\ UNCHANGED <<ciphers, views, folders, organization>>
        /\ Announce({v}, now, {}) /\ members' = members \ {v}
    BY <1>4 DEF LeaveOrganization
  <2>2. GoesForward(u) /\ (u = v => Told(u))
    BY <1>1, <2>1, AnnounceTells
  <2> QED BY <2>1, <2>2 DEF Tells, KeptFor
<1>5. CASE DeleteOrganization
  <2>1. Audience(Organization) = members
    BY DEF Audience
  <2>2. Announce(Audience(Organization), now, {})
        /\ ciphers' = PurgedAll(Organization, now)
        /\ UNCHANGED <<views, folders, members>>
    BY <1>5, <2>1 DEF DeleteOrganization
  <2> QED BY <1>1, <2>1, <2>2, PurgesTell
<1>6. CASE Tick
  BY <1>1, <1>6 DEF Tick, Tells, KeptFor, GoesForward, Told
<1> QED BY <1>3, <1>4, <1>5, <1>6, FoldersTell DEF Elsewhere

\* The same of a step that changes nothing anybody sees.
LEMMA SilenceTells ==
  ASSUME Filing, NEW u \in Users,
         UNCHANGED <<ciphers, views, folders, members, organization, revision,
                     unannounced>>
  PROVE  Tells(u)
BY DEF Filing, Inv, TypeOK, Tells, KeptFor, GoesForward, Told

LEMMA StepsTell ==
  ASSUME Filing, [VaultNext]_vars, NEW u \in Users
  PROVE  Tells(u)
<1>1. ASSUME NEW r \in Requests, ItemRequest(r) PROVE Tells(u)
  <2>1. CASE Reads(r)
    BY <2>1, ReadsOnly, SilenceTells
  <2>2. CASE CommitPurge(r)
    <3>1. /\ request[r].owner \in Users \cup {Organization}
          /\ request[r].ts \in Nat
      BY <2>2, RequestType DEF CommitPurge, Busy, Filing, Inv
    <3> QED BY <2>2, <3>1, PurgesTell DEF CommitPurge
  <2> QED BY <1>1, <2>1, <2>2, ItemsTell, ViewsTell, MakersTell, AttachTells
          DEF ItemRequest, Reads
<1>2. ASSUME NEW r \in FolderRequests, FolderStep(r) PROVE Tells(u)
  BY <1>2, FoldersTell, SilenceTells DEF FolderStep, StartFolder, GiveUpFolder
<1>3. CASE UNCHANGED vars
  BY <1>3, SilenceTells DEF vars
<1> QED BY <1>1, <1>2, <1>3, ElsewhereTells DEF VaultNext

-----------------------------------------------------------------------------
(* Synchronization.  While the revision is the one a synchronization began *)
(* with and nothing is left to announce, what it has read is the vault.    *)

\* What is read at one step, and kept at the later ones.
ReadSoFar(u, s) ==
  /\ s.step \in {"folders", "membership", "shared", "check"}
       => s.read.items = PersonalItems(u)
  /\ s.step \in {"membership", "shared", "check"}
       => s.read.folders = FoldersOf(u)
  /\ s.step \in {"shared", "check"} => s.read.member = Membership(u)
  /\ s.step = "check" => s.read.shared = SharedItems(u, s.read.member)

ReadsHold ==
  \A u \in Readers : sync[u] # None =>
    /\ sync[u].before <= revision[u]
    /\ sync[u].before = revision[u] /\ u \notin unannounced
         => ReadSoFar(u, sync[u])

AnswersBehind ==
  \A u \in Readers : synced[u] # None => synced[u].revision <= revision[u]

SyncInv ==
  /\ Filing
  /\ SyncTypeOK
  /\ ReadsHold
  /\ AnswersBehind
  /\ SyncedVaultIsCurrent

LEMMA PartTypes ==
  ASSUME TypeOK, NEW u \in Users, NEW member \in BOOLEAN
  PROVE  /\ PersonalItems(u) \in [Ciphers -> Row]
         /\ FoldersOf(u) \in [Folders -> Nat \cup {None}]
         /\ Membership(u) \in BOOLEAN
         /\ SharedItems(u, member) \in [Ciphers -> Row \X View]
BY NoRowType DEF TypeOK, PersonalItems, FoldersOf, FolderRow, Membership,
   SharedItems

\* What a user cannot tell from an unchanged vault is the same vault.
LEMMA PartsKept ==
  ASSUME NEW u \in Users, KeptFor(u)
  PROVE  /\ PersonalItems(u)' = PersonalItems(u)
         /\ FoldersOf(u)' = FoldersOf(u)
         /\ Membership(u)' = Membership(u)
         /\ SharedItems(u, Membership(u))' = SharedItems(u, Membership(u))
<1>1. PersonalItems(u)' = PersonalItems(u)
  BY DEF KeptFor, Unseen, PersonalItems
<1>2. FoldersOf(u)' = FoldersOf(u)
  BY DEF KeptFor, FoldersOf
<1>3. Membership(u)' = Membership(u)
  BY DEF KeptFor, Membership
<1>4. ASSUME NEW c \in Ciphers, Membership(u)
      PROVE  \/ ciphers'[c] = ciphers[c] /\ views'[u][c] = views[u][c]
             \/ ciphers'[c].owner # Organization /\ ciphers[c].owner # Organization
  BY <1>3, <1>4 DEF KeptFor, Unseen, Membership
<1>5. SharedItems(u, Membership(u))' = SharedItems(u, Membership(u))
  <2>1. CASE Membership(u)
    BY <1>3, <1>4, <2>1 DEF SharedItems
  <2>2. CASE ~Membership(u)
    BY <1>3, <2>2 DEF SharedItems
  <2> QED BY <2>1, <2>2
<1> QED BY <1>1, <1>2, <1>3, <1>5

LEMMA SyncTypes ==
  ASSUME TypeOK, SyncTypeOK, NEW u \in Readers, SyncStep(u)
  PROVE  SyncTypeOK'
<1> USE ReaderAssumption
<1>1. u \in Users /\ revision[u] \in Nat
  BY DEF TypeOK
<1>2. ASSUME NEW attempt \in 1 .. MaxAttempts
      PROVE  Begin(u, attempt) \in Reading
  BY <1>1, <1>2, NoRowType DEF Begin, Reading, Vaults, Steps
<1>3. CASE StartSync(u)
  BY <1>2, <1>3 DEF StartSync, SyncTypeOK
<1>4. CASE RetrySync(u)
  <2>1. sync[u] \in Reading
    BY <1>4 DEF RetrySync, At, SyncTypeOK
  <2>2. sync[u].attempt < MaxAttempts => sync[u].attempt + 1 \in 1 .. MaxAttempts
    BY <2>1 DEF Reading
  <2> QED BY <1>2, <1>4, <2>2 DEF RetrySync, SyncTypeOK
<1>5. CASE AnswerSync(u)
  BY <1>5 DEF AnswerSync, At, SyncTypeOK, Reading, Answer
<1>6. CASE ReadItems(u)
  <2> DEFINE s == sync[u]
             new == [s EXCEPT !.step = "folders", !.read.items = PersonalItems(u)]
  <2>1. s \in Reading /\ PersonalItems(u) \in [Ciphers -> Row]
    BY <1>1, <1>6, PartTypes DEF ReadItems, At, SyncTypeOK
  <2>2. new \in Reading
    BY <2>1 DEF Reading, Vaults, Steps
  <2>3. sync' = [sync EXCEPT ![u] = new] /\ UNCHANGED synced
    BY <1>6 DEF ReadItems
  <2> HIDE DEF new
  <2> QED BY <2>2, <2>3 DEF SyncTypeOK
<1>7. CASE ReadFolders(u)
  <2> DEFINE s == sync[u]
             new == [s EXCEPT !.step = "membership", !.read.folders = FoldersOf(u)]
  <2>1. s \in Reading /\ FoldersOf(u) \in [Folders -> Nat \cup {None}]
    BY <1>1, <1>7, PartTypes DEF ReadFolders, At, SyncTypeOK
  <2>2. new \in Reading
    BY <2>1 DEF Reading, Vaults, Steps
  <2>3. sync' = [sync EXCEPT ![u] = new] /\ UNCHANGED synced
    BY <1>7 DEF ReadFolders
  <2> HIDE DEF new
  <2> QED BY <2>2, <2>3 DEF SyncTypeOK
<1>8. CASE ReadMembership(u)
  <2> DEFINE s == sync[u]
             new == [s EXCEPT !.step = "shared", !.read.member = Membership(u)]
  <2>1. s \in Reading /\ Membership(u) \in BOOLEAN
    BY <1>1, <1>8, PartTypes DEF ReadMembership, At, SyncTypeOK
  <2>2. new \in Reading
    BY <2>1 DEF Reading, Vaults, Steps
  <2>3. sync' = [sync EXCEPT ![u] = new] /\ UNCHANGED synced
    BY <1>8 DEF ReadMembership
  <2> HIDE DEF new
  <2> QED BY <2>2, <2>3 DEF SyncTypeOK
<1>9. CASE ReadShared(u)
  <2> DEFINE s == sync[u]
             new == [s EXCEPT !.step = "check",
                              !.read.shared = SharedItems(u, s.read.member)]
  <2>1. s \in Reading /\ s.read.member \in BOOLEAN
    BY <1>9 DEF ReadShared, At, SyncTypeOK, Reading, Vaults
  <2>2. SharedItems(u, s.read.member) \in [Ciphers -> Row \X View]
    BY <1>1, <2>1, PartTypes
  <2>3. new \in Reading
    BY <2>1, <2>2 DEF Reading, Vaults, Steps
  <2>4. sync' = [sync EXCEPT ![u] = new] /\ UNCHANGED synced
    BY <1>9 DEF ReadShared
  <2> HIDE DEF new
  <2> QED BY <2>3, <2>4 DEF SyncTypeOK
<1> QED BY <1>3, <1>4, <1>5, <1>6, <1>7, <1>8, <1>9 DEF SyncStep

\* What a synchronization's next step makes of what it has read.
LEMMA SyncEffect ==
  ASSUME TypeOK, SyncTypeOK, NEW u \in Readers, SyncStep(u)
  PROVE  /\ UNCHANGED vars
         /\ \A o \in Readers : o # u =>
              sync'[o] = sync[o] /\ synced'[o] = synced[o]
         /\ sync'[u] # None =>
              \/ sync'[u].before = revision[u] /\ sync'[u].step = "items"
              \/ /\ sync[u] # None /\ sync'[u].before = sync[u].before
                 /\ ReadSoFar(u, sync[u]) => ReadSoFar(u, sync'[u])
         /\ \/ synced'[u] = synced[u]
            \/ /\ sync[u] # None /\ sync[u].step = "check" /\ Stable(u)
               /\ synced'[u] = [revision |-> sync[u].before,
                                vault |-> sync[u].read]
<1> USE ReaderAssumption DEF At
<1>1. u \in Users /\ revision[u] \in Nat
  BY DEF TypeOK
<1>2. CASE StartSync(u) \/ RetrySync(u)
  BY <1>1, <1>2 DEF StartSync, RetrySync, Begin, SyncTypeOK
<1>3. CASE AnswerSync(u)
  BY <1>1, <1>3 DEF AnswerSync, SyncTypeOK
<1>4. CASE ReadItems(u)
  <2> DEFINE s == sync[u]
             new == [s EXCEPT !.step = "folders", !.read.items = PersonalItems(u)]
  <2>1. s \in Reading /\ s # None
    BY <1>4 DEF ReadItems, SyncTypeOK
  <2>2. /\ new.before = s.before /\ new.step = "folders"
        /\ new.read.items = PersonalItems(u)
    BY <2>1 DEF Reading, Vaults
  <2>3. sync' = [sync EXCEPT ![u] = new] /\ UNCHANGED <<vars, synced>>
    BY <1>4 DEF ReadItems
  <2> HIDE DEF new
  <2> QED BY <2>1, <2>2, <2>3 DEF SyncTypeOK, ReadSoFar
<1>5. CASE ReadFolders(u)
  <2> DEFINE s == sync[u]
             new == [s EXCEPT !.step = "membership", !.read.folders = FoldersOf(u)]
  <2>1. s \in Reading /\ s # None /\ s.step = "folders"
    BY <1>5 DEF ReadFolders, SyncTypeOK
  <2>2. /\ new.before = s.before /\ new.step = "membership"
        /\ new.read.items = s.read.items /\ new.read.folders = FoldersOf(u)
    BY <2>1 DEF Reading, Vaults
  <2>3. sync' = [sync EXCEPT ![u] = new] /\ UNCHANGED <<vars, synced>>
    BY <1>5 DEF ReadFolders
  <2> HIDE DEF new
  <2> QED BY <2>1, <2>2, <2>3 DEF SyncTypeOK, ReadSoFar
<1>6. CASE ReadMembership(u)
  <2> DEFINE s == sync[u]
             new == [s EXCEPT !.step = "shared", !.read.member = Membership(u)]
  <2>1. s \in Reading /\ s # None /\ s.step = "membership"
    BY <1>6 DEF ReadMembership, SyncTypeOK
  <2>2. /\ new.before = s.before /\ new.step = "shared"
        /\ new.read.items = s.read.items /\ new.read.folders = s.read.folders
        /\ new.read.member = Membership(u)
    BY <2>1 DEF Reading, Vaults
  <2>3. sync' = [sync EXCEPT ![u] = new] /\ UNCHANGED <<vars, synced>>
    BY <1>6 DEF ReadMembership
  <2> HIDE DEF new
  <2> QED BY <2>1, <2>2, <2>3 DEF SyncTypeOK, ReadSoFar
<1>7. CASE ReadShared(u)
  <2> DEFINE s == sync[u]
             new == [s EXCEPT !.step = "check",
                              !.read.shared = SharedItems(u, s.read.member)]
  <2>1. s \in Reading /\ s # None /\ s.step = "shared"
    BY <1>7 DEF ReadShared, SyncTypeOK
  <2>2. /\ new.before = s.before /\ new.step = "check"
        /\ new.read.items = s.read.items /\ new.read.folders = s.read.folders
        /\ new.read.member = s.read.member
        /\ new.read.shared = SharedItems(u, s.read.member)
    BY <2>1 DEF Reading, Vaults
  <2>3. sync' = [sync EXCEPT ![u] = new] /\ UNCHANGED <<vars, synced>>
    BY <1>7 DEF ReadShared
  <2> HIDE DEF new
  <2> QED BY <2>1, <2>2, <2>3 DEF SyncTypeOK, ReadSoFar
<1> QED BY <1>2, <1>3, <1>4, <1>5, <1>6, <1>7 DEF SyncStep

\* A step of the vault leaves of the answers and the readings what it should.
LEMMA VaultStepKeeps ==
  ASSUME SyncInv, [VaultNext]_vars, UNCHANGED <<sync, synced>>
  PROVE  ReadsHold' /\ AnswersBehind' /\ SyncedVaultIsCurrent'
<1> SUFFICES ASSUME NEW u \in Readers
             PROVE  /\ sync[u] # None =>
                         /\ sync[u].before <= revision'[u]
                         /\ sync[u].before = revision'[u] /\ u \notin unannounced'
                              => ReadSoFar(u, sync[u])'
                    /\ synced[u] # None =>
                         /\ synced[u].revision <= revision'[u]
                         /\ synced[u].revision = revision'[u] /\ u \notin unannounced'
                              => synced[u].vault = Current(u)'
  BY DEF ReadsHold, AnswersBehind, SyncedVaultIsCurrent
<1>1. u \in Users /\ Tells(u)
  BY ReaderAssumption, StepsTell DEF SyncInv
<1>2. revision[u] \in Nat /\ revision'[u] \in Nat
  <2>1. TypeOK'
    BY FilingNext DEF SyncInv, Filing, Inv
  <2> QED BY <1>1, <2>1 DEF SyncInv, Filing, Inv, TypeOK
<1>3. /\ sync[u] # None => sync[u].before \in Nat
      /\ synced[u] # None => synced[u].revision \in Nat
  BY DEF SyncInv, SyncTypeOK, Reading, Answer
<1>4. /\ sync[u] # None => sync[u].before <= revision[u]
      /\ synced[u] # None => synced[u].revision <= revision[u]
  BY DEF SyncInv, ReadsHold, AnswersBehind
<1>5. revision'[u] >= revision[u]
  BY <1>1 DEF Tells, GoesForward
<1>6. CASE Told(u)
  BY <1>2, <1>3, <1>4, <1>5, <1>6 DEF Told
<1>7. CASE ~Told(u)
  <2>1. KeptFor(u) /\ revision'[u] = revision[u] /\ u \notin unannounced
    BY <1>1, <1>2, <1>5, <1>7 DEF Tells, GoesForward, Told
  <2>2. /\ PersonalItems(u)' = PersonalItems(u)
        /\ FoldersOf(u)' = FoldersOf(u)
        /\ Membership(u)' = Membership(u)
        /\ SharedItems(u, Membership(u))' = SharedItems(u, Membership(u))
    BY <1>1, <2>1, PartsKept
  <2>3. Current(u)' = Current(u)
    BY <2>2 DEF Current
  <2>4. sync[u] # None /\ sync[u].before = revision[u] => ReadSoFar(u, sync[u])
    BY <2>1 DEF SyncInv, ReadsHold
  <2>5. synced[u] # None /\ synced[u].revision = revision[u]
          => synced[u].vault = Current(u)
    BY <2>1 DEF SyncInv, SyncedVaultIsCurrent
  <2>6. sync[u].read.member = Membership(u) =>
          SharedItems(u, sync[u].read.member)' = SharedItems(u, sync[u].read.member)
    BY <2>2
  <2>7. ReadSoFar(u, sync[u]) => ReadSoFar(u, sync[u])'
    BY <2>2, <2>6 DEF ReadSoFar
  <2> QED BY <1>4, <1>5, <2>1, <2>3, <2>4, <2>5, <2>7
<1> QED BY <1>6, <1>7

LEMMA WholeRead ==
  ASSUME SyncTypeOK, NEW u \in Readers, sync[u] # None, sync[u].step = "check",
         ReadSoFar(u, sync[u])
  PROVE  sync[u].read = Current(u)
<1>1. sync[u].read \in Vaults
  BY DEF SyncTypeOK, Reading
<1> QED BY <1>1 DEF ReadSoFar, Current, Vaults

LEMMA SyncStepKeeps ==
  ASSUME SyncInv, NEW u \in Readers, SyncStep(u)
  PROVE  ReadsHold' /\ AnswersBehind' /\ SyncedVaultIsCurrent'
<1> USE DEF SyncInv, Filing, Inv
<1>1. /\ UNCHANGED vars
      /\ \A o \in Readers : o # u =>
           sync'[o] = sync[o] /\ synced'[o] = synced[o]
      /\ sync'[u] # None =>
           \/ sync'[u].before = revision[u] /\ sync'[u].step = "items"
           \/ /\ sync[u] # None /\ sync'[u].before = sync[u].before
              /\ ReadSoFar(u, sync[u]) => ReadSoFar(u, sync'[u])
      /\ \/ synced'[u] = synced[u]
         \/ /\ sync[u] # None /\ sync[u].step = "check" /\ Stable(u)
            /\ synced'[u] = [revision |-> sync[u].before,
                             vault |-> sync[u].read]
  BY SyncEffect
<1>2. UNCHANGED <<ciphers, views, folders, members, organization, revision,
                  unannounced>>
  BY <1>1 DEF vars
<1>3. \A o \in Readers : revision[o] \in Nat
  BY ReaderAssumption DEF TypeOK
<1>4. ASSUME NEW o
      PROVE  /\ ReadSoFar(o, sync[o])' <=> ReadSoFar(o, sync'[o])
             /\ Current(o)' = Current(o)
  BY <1>2 DEF ReadSoFar, Current, PersonalItems, FoldersOf, Membership, SharedItems
<1>5. ReadsHold'
  <2> SUFFICES ASSUME NEW o \in Readers, sync'[o] # None
               PROVE  /\ sync'[o].before <= revision[o]
                      /\ sync'[o].before = revision[o] /\ o \notin unannounced
                           => ReadSoFar(o, sync'[o])
    BY <1>2, <1>4 DEF ReadsHold
  <2>1. CASE o # u
    BY <1>1, <2>1 DEF ReadsHold
  <2>2. CASE o = u /\ sync'[u].before = revision[u] /\ sync'[u].step = "items"
    BY <1>3, <2>2 DEF ReadSoFar
  <2>3. CASE o = u /\ sync[u] # None /\ sync'[u].before = sync[u].before
             /\ (ReadSoFar(u, sync[u]) => ReadSoFar(u, sync'[u]))
    BY <2>3 DEF ReadsHold
  <2> QED BY <1>1, <2>1, <2>2, <2>3
<1>6. ASSUME NEW o \in Readers, synced'[o] # None
      PROVE  /\ synced'[o].revision <= revision[o]
             /\ synced'[o].revision = revision[o] /\ o \notin unannounced
                  => synced'[o].vault = Current(o)
  <2>1. CASE synced'[o] = synced[o]
    BY <1>6, <2>1 DEF AnswersBehind, SyncedVaultIsCurrent
  <2>2. CASE o = u /\ synced'[u] # synced[u]
    <3>1. /\ sync[u] # None /\ sync[u].step = "check"
          /\ synced'[u].revision = sync[u].before
          /\ synced'[u].vault = sync[u].read
      BY <1>1, <2>2
    <3>2. /\ sync[u].before <= revision[u]
          /\ sync[u].before = revision[u] /\ u \notin unannounced
               => ReadSoFar(u, sync[u])
      BY <3>1 DEF ReadsHold
    <3> QED BY <2>2, <3>1, <3>2, WholeRead
  <2> QED BY <1>1, <2>1, <2>2
<1> QED BY <1>2, <1>4, <1>5, <1>6 DEF AnswersBehind, SyncedVaultIsCurrent

LEMMA SyncInvInit == ASSUME SyncInit PROVE SyncInv
<1>1. Filing
  BY FilingInit DEF SyncInit
<1> QED BY <1>1 DEF SyncInit, SyncInv, SyncTypeOK, ReadsHold, AnswersBehind,
           SyncedVaultIsCurrent

LEMMA SyncInvNext ==
  ASSUME SyncInv, [SyncNext]_syncVars
  PROVE  SyncInv'
<1>1. CASE [VaultNext]_vars /\ UNCHANGED <<sync, synced>>
  <2>1. Filing'
    BY <1>1, FilingNext DEF SyncInv
  <2>2. SyncTypeOK'
    BY <1>1 DEF SyncInv, SyncTypeOK
  <2> QED BY <1>1, <2>1, <2>2, VaultStepKeeps DEF SyncInv
<1>2. ASSUME NEW u \in Readers, SyncStep(u) PROVE SyncInv'
  <2>1. UNCHANGED vars /\ SyncTypeOK'
    BY <1>2, SyncEffect, SyncTypes DEF SyncInv, Filing, Inv
  <2>2. Filing'
    BY <2>1, FilingNext DEF SyncInv
  <2> QED BY <1>2, <2>1, <2>2, SyncStepKeeps DEF SyncInv
<1> QED BY <1>1, <1>2 DEF SyncNext, syncVars, vars

-----------------------------------------------------------------------------
\* Synchronization reads and answers values of its types (handlers/sync.ts).
THEOREM SyncTypeSafety == SyncSpec => []SyncTypeOK
<1>1. SyncSpec => []SyncInv
  BY SyncInvInit, SyncInvNext, PTL DEF SyncSpec
<1>2. SyncInv => SyncTypeOK
  BY DEF SyncInv
<1> QED BY <1>1, <1>2, PTL

\* As long as the revision is that of the answer, the answer is the vault
\* (services/db/revisions.ts).
THEOREM SyncedSafety == SyncSpec => []SyncedVaultIsCurrent
<1>1. SyncSpec => []SyncInv
  BY SyncInvInit, SyncInvNext, PTL DEF SyncSpec
<1>2. SyncInv => SyncedVaultIsCurrent
  BY DEF SyncInv
<1> QED BY <1>1, <1>2, PTL

\* No answer is torn by a write between its reads (readAtStableRevision).
THEOREM AnswerSafety == SyncSpec => AnswersAreWhole
<1>1. SyncSpec => []SyncInv
  BY SyncInvInit, SyncInvNext, PTL DEF SyncSpec
<1>2. ASSUME SyncInv, [SyncNext]_syncVars
      PROVE  [\A u \in Readers :
                synced'[u] # synced[u] /\ u \notin unannounced
                  => synced'[u].vault = Current(u)]_syncVars
  <2> SUFFICES ASSUME NEW u \in Readers, synced'[u] # synced[u],
                      u \notin unannounced
               PROVE  synced'[u].vault = Current(u)
    OBVIOUS
  <2>1. PICK o \in Readers : SyncStep(o)
    BY <1>2 DEF SyncNext, syncVars
  <2>2. /\ \A v \in Readers : v # o => synced'[v] = synced[v]
        /\ \/ synced'[o] = synced[o]
           \/ /\ sync[o] # None /\ sync[o].step = "check" /\ Stable(o)
              /\ synced'[o] = [revision |-> sync[o].before,
                               vault |-> sync[o].read]
    BY <1>2, <2>1, SyncEffect DEF SyncInv, Filing, Inv
  <2>3. /\ sync[u] # None /\ sync[u].step = "check"
        /\ sync[u].before = revision[u] /\ synced'[u].vault = sync[u].read
    BY <2>2 DEF Stable
  <2>4. ReadSoFar(u, sync[u])
    BY <1>2, <2>3 DEF SyncInv, ReadsHold
  <2> QED BY <1>2, <2>3, <2>4, WholeRead DEF SyncInv
<1> QED BY <1>1, <1>2, PTL DEF SyncSpec, AnswersAreWhole
=============================================================================
