---- MODULE Vault ----
(***************************************************************************)
(* The vault rows of the API and the requests that change them.  A request *)
(* reads the rows it is about in one query and commits in a later batch,   *)
(* which D1 runs as one transaction.  Between the two anything may happen  *)
(* to the rows: the batch is fenced by the mutation token the request read *)
(* (services/ciphers/access.ts, handlers/ciphers/*.ts, ciphers-bulk.ts,    *)
(* folders.ts).                                                            *)
(*                                                                         *)
(* There is one organization, whose members reach all of its items, and    *)
(* one collection.  An item's encrypted fields are one value, content,     *)
(* named after the write that stored them; tokens are named the same way.  *)
(* Time is in whole seconds, as utils/time.ts now() gives it.              *)
(***************************************************************************)
EXTENDS Integers

CONSTANTS
  Users, Ciphers, Folders,
  FolderOwner,      \* the user each folder belongs to
  Organization,     \* the organization, as an owner of items
  OrgOwner,         \* its owner, who cannot be removed from it
  None,
  Requests,         \* requests on items that may be in progress at once
  FolderRequests,   \* requests on folders that may be in progress at once
  Operations,       \* which operations the requests and the rest ask for
  MaxWrites,        \* bound: batches committed
  MaxNow            \* bound: the clock

ItemKinds ==
  {"update", "share", "trash", "erase", "restore", "archive", "unarchive",
   "file"}
\* The operations on many items that go on to the views of shared ones.
FilingKinds == {"archive", "unarchive", "file"}
BulkKinds == FilingKinds \cup {"share", "trash", "erase", "restore"}

ASSUME VaultAssumption ==
  /\ FolderOwner \in [Folders -> Users]
  /\ OrgOwner \in Users
  /\ Organization \notin Users
  /\ None \notin Users \cup Folders \cup Nat \cup {Organization}
  /\ MaxWrites \in Nat /\ MaxNow \in Nat

VARIABLES
  ciphers,       \* the table of items
  views,         \* views[u][c]: u's folder and archive mark of a shared item
  folders,       \* the table of folders
  members,       \* the confirmed members of the organization
  organization,  \* "live" or "deleted"
  revision,      \* user_revisions
  unannounced,   \* ghost: users with a visible change no revision announced
  request,       \* the request in progress on items
  folderRequest, \* the request in progress on a folder
  now,           \* the clock, in seconds
  writes         \* batches committed so far; names tokens and contents

vars == <<ciphers, views, folders, members, organization, revision,
          unannounced, request, folderRequest, now, writes>>

MaybeFolder == Folders \cup {None}
Row == [owner : Users \cup {Organization, None},
        state : {"absent", "live", "trash", "purged"},
        folder : MaybeFolder, archived : Nat, content : Nat, updated : Nat,
        token : Nat]
View == [folder : MaybeFolder, archived : Nat]
FolderRow == [state : {"absent", "live", "deleted"}, token : Nat]

NoRow == [owner |-> None, state |-> "absent", folder |-> None, archived |-> 0,
          content |-> 0, updated |-> 0, token |-> 0]
NoView == [folder |-> None, archived |-> 0]

Request ==
  [phase : {"editing", "ready", "views", "announce"},
   kind : ItemKinds \cup {"attach", "create", "import", "purge"},
   bulk : BOOLEAN, user : Users, owner : Users \cup {Organization},
   ids : SUBSET Ciphers, seen : [Ciphers -> Row], view : View,
   folder : MaybeFolder, base : Nat \cup {None}, ts : Nat]
FolderRequest ==
  [kind : {"rename", "delete"}, user : Users, folder : Folders, token : Nat,
   ts : Nat]

\* Invariant: every variable has its type.
TypeOK ==
  /\ ciphers \in [Ciphers -> Row]
  /\ views \in [Users -> [Ciphers -> View]]
  /\ folders \in [Folders -> FolderRow]
  /\ members \subseteq Users
  /\ organization \in {"live", "deleted"}
  /\ revision \in [Users -> Nat]
  /\ unannounced \subseteq Users
  /\ request \in [Requests -> Request \cup {None}]
  /\ folderRequest \in [FolderRequests -> FolderRequest \cup {None}]
  /\ now \in Nat
  /\ writes \in Nat

\* Items of the users, in folders of theirs or none, items of the organization,
\* and ids not yet given to one.
Init ==
  /\ \E S \in SUBSET Folders :
       folders = [f \in Folders |->
         [state |-> IF f \in S THEN "live" ELSE "absent", token |-> 0]]
  /\ \E own \in [Ciphers -> Users \cup {Organization, None}],
        filed \in [Ciphers -> MaybeFolder] :
       /\ \A c \in Ciphers : filed[c] # None =>
            own[c] = FolderOwner[filed[c]] /\ folders[filed[c]].state = "live"
       /\ ciphers = [c \in Ciphers |->
            IF own[c] = None THEN NoRow
            ELSE [NoRow EXCEPT !.owner = own[c], !.state = "live",
                               !.folder = filed[c]]]
  /\ views = [u \in Users |-> [c \in Ciphers |-> NoView]]
  /\ \E S \in SUBSET Users : members = S \cup {OrgOwner}
  /\ organization = "live"
  /\ revision = [u \in Users |-> 0]
  /\ unannounced = {}
  /\ request = [r \in Requests |-> None]
  /\ folderRequest = [r \in FolderRequests |-> None]
  /\ now = 1
  /\ writes = 0

-----------------------------------------------------------------------------
(* Helpers of the batches *)

Maximum(a, b) == IF a >= b THEN a ELSE b

\* Math.max(now(), updated_at + 1), with the time the request took.
Later(updated, ts) == Maximum(ts, updated + 1)

\* A batch is one transaction, and there are only so many of them here.
Commits == writes < MaxWrites /\ writes' = writes + 1

\* The users whose revision a change of an item of this owner moves.
Audience(owner) ==
  IF owner = Organization THEN members
  ELSE IF owner \in Users THEN {owner} ELSE {}

\* Deviation: the revision of two batches in one second is the same.
RevisionOfClock(u, ts) == Maximum(revision[u], ts)

\* The revision a batch stores: it moves on by at least one, whatever the
\* clock says.
NextRevision(u, ts) == Maximum(revision[u] + 1, ts)

\* A batch that changes what the users in seers see moves the revisions of us.
Announce(us, ts, seers) ==
  /\ revision' = [u \in Users |->
       IF u \in us THEN NextRevision(u, ts) ELSE revision[u]]
  /\ unannounced' = (unannounced \cup seers) \ us

\* A folder of this user, or none: what the handlers look up, and what the
\* foreign key (folder_id, user_id) demands of a row with a user_id.
OwnFolder(u, f) ==
  f # None /\ u \in Users => folders[f].state = "live" /\ FolderOwner[f] = u

Present(row) == row.state \in {"live", "trash"}

\* middleware/resources.ts requireCipher: the owner, or any member of the
\* organization that owns the item, whether that was deleted or not.
Reaches(u, c) ==
  /\ Present(ciphers[c])
  /\ \/ ciphers[c].owner = u
     \/ ciphers[c].owner = Organization /\ u \in members

\* An item as its user has filed it.
OwnView(u, c) ==
  IF ciphers[c].owner = Organization THEN views[u][c]
  ELSE [folder |-> ciphers[c].folder, archived |-> ciphers[c].archived]

Idle(r) == request[r] = None
Busy(r, phase) == request[r] # None /\ request[r].phase = phase

-----------------------------------------------------------------------------
(* What a request reads *)

SeenRows(ids) == [c \in Ciphers |-> IF c \in ids THEN ciphers[c] ELSE NoRow]

\* The early returns of the handlers of one item.
Accepts(kind, u, c, f) ==
  /\ kind \in {"update", "file", "share"} => OwnFolder(u, f)
  /\ kind \notin {"update", "file", "share"} => f = None
  /\ kind = "share" => ciphers[c].owner = u /\ u \in members
  /\ kind = "trash" => ciphers[c].state = "live"
  /\ kind = "archive" => ciphers[c].state = "live" /\ OwnView(u, c).archived = 0
  /\ kind = "unarchive" =>
       ciphers[c].state = "live" /\ OwnView(u, c).archived # 0

\* A request on one item, or on an attachment of it, reads the item's row.
StartItem(r, u, c, kind, f) ==
  /\ Idle(r) /\ Reaches(u, c)
  /\ Accepts(kind, u, c, f)
  /\ request' = [request EXCEPT ![r] =
       [phase |-> "ready", kind |-> kind, bulk |-> FALSE, user |-> u,
        owner |-> u, ids |-> {c}, seen |-> SeenRows({c}),
        view |-> OwnView(u, c), folder |-> f, base |-> None,
        ts |-> now]]
  /\ UNCHANGED <<ciphers, views, folders, members, organization, revision,
                 unannounced, folderRequest, now, writes>>

\* A client opens an item to edit it: it is told the revision date it will
\* hand back as lastKnownRevisionDate.
OpenItem(r, u, c) ==
  /\ Idle(r) /\ "edit" \in Operations /\ Reaches(u, c)
  /\ request' = [request EXCEPT ![r] =
       [phase |-> "editing", kind |-> "update", bulk |-> FALSE, user |-> u,
        owner |-> u, ids |-> {c}, seen |-> SeenRows({c}),
        view |-> OwnView(u, c), folder |-> None, base |-> None,
        ts |-> now]]
  /\ UNCHANGED <<ciphers, views, folders, members, organization, revision,
                 unannounced, folderRequest, now, writes>>

\* Deviation: a known revision date is not compared with the item's.
SubmitEditAnyway(r, c, f) ==
  LET q == request[r]
  IN  /\ Busy(r, "editing") /\ c \in q.ids
      /\ Reaches(q.user, c)
      /\ Accepts("update", q.user, c, f)
      /\ request' = [request EXCEPT ![r] =
           [q EXCEPT !.phase = "ready", !.seen = SeenRows({c}),
                     !.view = OwnView(q.user, c), !.folder = f,
                     !.base = q.seen[c].content, !.ts = now]]
      /\ UNCHANGED <<ciphers, views, folders, members, organization, revision,
                     unannounced, folderRequest, now, writes>>

\* The edit is sent with that date and refused unless the item still has it.
SubmitEdit(r, c, f) ==
  LET q == request[r]
  IN  /\ Busy(r, "editing") /\ c \in q.ids
      /\ Reaches(q.user, c)
      /\ ciphers[c].updated = q.seen[c].updated
      /\ Accepts("update", q.user, c, f)
      /\ request' = [request EXCEPT ![r] =
           [q EXCEPT !.phase = "ready", !.seen = SeenRows({c}),
                     !.view = OwnView(q.user, c), !.folder = f,
                     !.base = q.seen[c].content, !.ts = now]]
      /\ UNCHANGED <<ciphers, views, folders, members, organization, revision,
                     unannounced, folderRequest, now, writes>>

\* The items of a request on many that are candidates for it.
Candidate(kind, u, c, f) ==
  /\ ciphers[c].owner = u
  /\ CASE kind = "erase" -> Present(ciphers[c])
       [] kind = "restore" -> ciphers[c].state = "trash"
       [] kind = "archive" ->
            ciphers[c].state = "live" /\ ciphers[c].archived = 0
       [] kind = "unarchive" ->
            ciphers[c].state = "live" /\ ciphers[c].archived # 0
       [] kind = "file" -> ciphers[c].state = "live" /\ ciphers[c].folder # f
       [] OTHER -> ciphers[c].state = "live"

\* A request on many items reads those of them it will try to change.
StartBulk(r, u, ids, kind, f) ==
  LET mine == {c \in ids : Candidate(kind, u, c, f)}
  IN  /\ Idle(r) /\ "bulk" \in Operations
      /\ kind \in {"file", "share"} => OwnFolder(u, f)
      /\ kind \notin {"file", "share"} => f = None
      /\ kind = "share" => mine = ids /\ u \in members
      /\ request' = [request EXCEPT ![r] =
           [phase |-> "ready", kind |-> kind, bulk |-> TRUE, user |-> u,
            owner |-> u, ids |-> ids, seen |-> SeenRows(mine),
            view |-> NoView, folder |-> f, base |-> None,
        ts |-> now]]
      /\ UNCHANGED <<ciphers, views, folders, members, organization, revision,
                     unannounced, folderRequest, now, writes>>

\* A 409, a 500 because a folder is gone, or a Worker that died: the batch
\* that was to come changes nothing.
GiveUp(r) ==
  /\ ~Idle(r)
  /\ request' = [request EXCEPT ![r] = None]
  /\ UNCHANGED <<ciphers, views, folders, members, organization, revision,
                 unannounced, folderRequest, now, writes>>

-----------------------------------------------------------------------------
(* The batches of the requests on items *)

\* Deviation: the batch is not fenced by the token.
FencedAnyway(q, c) == TRUE

\* mutation_token IS <the one the request read>
Fenced(q, c) == ciphers[c].token = q.seen[c].token

\* The other conditions on the row the batch finds.
Fits(q, c) ==
  LET row == ciphers[c]
  IN  /\ q.kind = "trash" => row.state = "live"
      /\ q.kind = "restore" =>
           row.state \in IF q.bulk THEN {"trash"} ELSE {"trash", "purged"}
      /\ q.kind \in {"archive", "unarchive"} =>
           /\ row.state = "live"
           /\ row.owner # Organization =>
                (row.archived = 0 <=> q.kind = "archive")
      /\ q.kind = "file" /\ q.bulk => row.state = "live"
      /\ q.base # None => row.updated = q.seen[c].updated

Candidates(q) == {c \in q.ids : q.seen[c].state # "absent"}

\* Deviation: of several items to be shared, those that fit.
ClaimedPartly(q) == {c \in Candidates(q) : Fenced(q, c) /\ Fits(q, c)}

\* The rows the batch changes: of several items to be shared, all or none.
Claimed(q) ==
  LET fit == {c \in Candidates(q) : Fenced(q, c) /\ Fits(q, c)}
  IN  IF q.kind = "share" /\ fit # Candidates(q) THEN {} ELSE fit

\* A claimed row after the batch.  A request on one item moves updated_at on
\* from the one it read, a request on many from the one it finds.
After(q, c, ts) ==
  LET row == ciphers[c]
      base == IF q.bulk /\ q.kind # "share" THEN row.updated
              ELSE q.seen[c].updated
      new == [row EXCEPT !.token = writes + 1, !.updated = Later(base, ts)]
      shared == q.seen[c].owner = Organization
  IN  CASE q.kind = "update" ->
             [new EXCEPT !.owner = q.seen[c].owner, !.content = writes + 1,
                         !.folder = IF shared THEN None ELSE q.folder]
        [] q.kind = "share" ->
             [new EXCEPT !.owner = Organization, !.content = writes + 1,
                         !.folder = None]
        [] q.kind = "trash" -> [new EXCEPT !.state = "trash"]
        [] q.kind = "erase" -> [new EXCEPT !.state = "purged"]
        [] q.kind = "restore" -> [new EXCEPT !.state = "live"]
        [] q.kind = "archive" ->
             [new EXCEPT !.archived = IF shared THEN 0 ELSE ts]
        [] q.kind = "unarchive" -> [new EXCEPT !.archived = 0]
        [] q.kind = "file" -> [new EXCEPT !.folder = q.folder]

\* The user's view the batch writes along with a shared item: its folder and
\* archive mark are the ones the request read, but for what it is about.
ViewAfter(q, c, ts) ==
  LET archived == IF q.seen[c].owner = Organization THEN q.view.archived
                  ELSE q.seen[c].archived
  IN  IF q.kind \in {"update", "share"}
      THEN [folder |-> q.folder, archived |-> archived]
      ELSE [folder |-> q.view.folder,
            archived |-> IF q.kind = "archive" THEN Later(q.seen[c].updated, ts)
                         ELSE 0]

\* Whether the batch writes a view as well (organizationCipherViewStateQuery).
WritesView(q, c) ==
  \/ q.kind = "share"
  \/ /\ q.kind \in {"update", "archive", "unarchive"}
     /\ ~q.bulk /\ q.seen[c].owner = Organization

\* Only a request's own view of a shared item changes, not the item.
FilesView(q) ==
  q.kind = "file" /\ ~q.bulk /\ \E c \in q.ids : q.seen[c].owner = Organization

\* The time a request takes is read while it runs, and by one on many items
\* when it starts.
Times(q) == IF q.bulk THEN {q.ts} ELSE q.ts .. now

\* The batch of a request on one item, or the first of one on many.
CommitItems(r) ==
  LET q == request[r]
      claimed == Claimed(q)
  IN  /\ Busy(r, "ready") /\ q.kind \in ItemKinds /\ ~FilesView(q)
      /\ claimed # {}
      /\ \E ts \in Times(q) :
           /\ ciphers' = [c \in Ciphers |->
                IF c \in claimed THEN After(q, c, ts) ELSE ciphers[c]]
           /\ views' = [views EXCEPT ![q.user] = [c \in Ciphers |->
                IF c \in claimed /\ WritesView(q, c) THEN ViewAfter(q, c, ts)
                ELSE @[c]]]
           /\ \A c \in claimed :
                /\ OwnFolder(ciphers'[c].owner, ciphers'[c].folder)
                /\ WritesView(q, c) =>
                     OwnFolder(q.user, views'[q.user][c].folder)
           /\ Announce(UNION {Audience(ciphers'[c].owner) : c \in claimed}, ts,
                       IF q.kind = "share" THEN {q.user} ELSE {})
      /\ Commits
      /\ request' = [request EXCEPT ![r] =
           IF q.bulk /\ q.kind \in FilingKinds THEN [q EXCEPT !.phase = "views"]
           ELSE None]
      /\ UNCHANGED <<folders, members, organization, folderRequest, now>>

\* A request on many items whose first batch has nothing to change goes on.
SkipItems(r) ==
  LET q == request[r]
  IN  /\ Busy(r, "ready") /\ q.bulk /\ q.kind \in FilingKinds
      /\ Claimed(q) = {}
      /\ request' = [request EXCEPT ![r] = [q EXCEPT !.phase = "views"]]
      /\ UNCHANGED <<ciphers, views, folders, members, organization, revision,
                     unannounced, folderRequest, now, writes>>

\* Its second batch: the user's views of the shared items among them.
UpdateViews(r) ==
  LET q == request[r]
      new(c) == IF q.kind = "file" THEN [views[q.user][c] EXCEPT !.folder = q.folder]
                ELSE [views[q.user][c] EXCEPT
                        !.archived = IF q.kind = "archive" THEN q.ts ELSE 0]
      changed == {c \in q.ids :
                    /\ ciphers[c].owner = Organization /\ q.user \in members
                    /\ ciphers[c].state = "live" /\ views[q.user][c] # new(c)}
  IN  /\ Busy(r, "views")
      /\ changed # {} => OwnFolder(q.user, q.folder) /\ Commits
      /\ changed = {} => UNCHANGED writes
      /\ views' = [views EXCEPT ![q.user] = [c \in Ciphers |->
           IF c \in changed THEN new(c) ELSE @[c]]]
      /\ unannounced' = IF changed = {} THEN unannounced
                        ELSE unannounced \cup {q.user}
      /\ request' = [request EXCEPT ![r] =
           IF changed = {} THEN None ELSE [q EXCEPT !.phase = "announce"]]
      /\ UNCHANGED <<ciphers, folders, members, organization, revision,
                     folderRequest, now>>

\* And its third, which moves the user's revision.
AnnounceViews(r) ==
  LET q == request[r]
  IN  /\ Busy(r, "announce")
      /\ Announce({q.user}, q.ts, {})
      /\ request' = [request EXCEPT ![r] = None]
      /\ UNCHANGED <<ciphers, views, folders, members, organization,
                     folderRequest, now, writes>>

\* Filing a shared item changes the user's view only, and is not fenced.
FileView(r, c) ==
  LET q == request[r]
  IN  /\ Busy(r, "ready") /\ FilesView(q) /\ c \in q.ids
      /\ OwnFolder(q.user, q.folder)
      /\ views' = [views EXCEPT ![q.user][c].folder = q.folder]
      /\ \E ts \in Times(q) :
           Announce({q.user}, Later(q.seen[c].updated, ts), {})
      /\ Commits
      /\ request' = [request EXCEPT ![r] = None]
      /\ UNCHANGED <<ciphers, folders, members, organization, folderRequest,
                     now>>

\* An attachment is published or deleted: its item's date becomes the later of
\* the clock and the date after the one the request read, whatever happened to
\* the item since the handler read it; the item's token is not asked for and
\* stays (handlers/attachments.ts:247, 387).
CommitAttach(r, c) ==
  LET q == request[r]
  IN  /\ Busy(r, "ready") /\ q.kind = "attach" /\ c \in q.ids
      /\ ciphers[c].state # "absent"
      /\ \E ts \in Times(q) :
           LET date == Later(q.seen[c].updated, ts)
           IN  /\ ciphers' = [ciphers EXCEPT ![c].updated = date]
               /\ Announce(Audience(ciphers[c].owner), date, {})
      /\ Commits
      /\ request' = [request EXCEPT ![r] = None]
      /\ UNCHANGED <<views, folders, members, organization, folderRequest, now>>

-----------------------------------------------------------------------------
(* Requests that make items, or remove all of an owner's *)

\* An id no item has and no other request is about to give one.
Fresh(c) ==
  /\ ciphers[c].state = "absent"
  /\ \A r \in Requests :
       request[r] # None /\ request[r].kind \in {"create", "import"}
         => c \notin request[r].ids

Making(kind, u, owner, ids, f) ==
  [phase |-> "ready", kind |-> kind, bulk |-> FALSE, user |-> u, owner |-> owner,
   ids |-> ids, seen |-> [c \in Ciphers |-> NoRow], view |-> NoView,
   folder |-> f, base |-> None, ts |-> now]

NewRow(q, owner, f) ==
  [owner |-> owner, state |-> "live", folder |-> f, archived |-> 0,
   content |-> writes + 1, updated |-> q.ts, token |-> 0]

\* The folder is the user's, and the user a member of the organization the
\* item is for, when they are looked up.
StartCreate(r, u, owner, c, f) ==
  /\ Idle(r) /\ "create" \in Operations
  /\ owner \in {u, Organization} /\ Fresh(c)
  /\ OwnFolder(u, f)
  /\ owner = Organization => u \in members
  /\ request' = [request EXCEPT ![r] =
       Making("create", u, owner, {c}, f)]
  /\ UNCHANGED <<ciphers, views, folders, members, organization, revision,
                 unannounced, folderRequest, now, writes>>

CommitCreate(r, c) ==
  LET q == request[r]
      shared == q.owner = Organization
  IN  /\ Busy(r, "ready") /\ q.kind = "create" /\ c \in q.ids
      /\ OwnFolder(q.user, q.folder)
      /\ ciphers' = [ciphers EXCEPT ![c] =
           NewRow(q, q.owner, IF shared THEN None ELSE q.folder)]
      /\ views' = IF shared
           THEN [views EXCEPT ![q.user][c] =
                   [folder |-> q.folder, archived |-> 0]]
           ELSE views
      /\ Announce(Audience(q.owner), q.ts, {})
      /\ Commits
      /\ request' = [request EXCEPT ![r] = None]
      /\ UNCHANGED <<folders, members, organization, folderRequest, now>>

\* An import inserts its items in as many batches as they need; the last one
\* moves the revision.
StartImport(r, u, ids, f) ==
  /\ Idle(r) /\ "import" \in Operations
  /\ \A c \in ids : Fresh(c)
  /\ OwnFolder(u, f)
  /\ request' = [request EXCEPT ![r] =
       Making("import", u, u, ids, f)]
  /\ UNCHANGED <<ciphers, views, folders, members, organization, revision,
                 unannounced, folderRequest, now, writes>>

Imported(q, chunk) ==
  [c \in Ciphers |-> IF c \in chunk THEN NewRow(q, q.owner, q.folder)
                     ELSE ciphers[c]]

ImportChunk(r, chunk) ==
  LET q == request[r]
  IN  /\ Busy(r, "ready") /\ q.kind = "import"
      /\ chunk # {} /\ chunk \subseteq q.ids
      /\ OwnFolder(q.user, q.folder)
      /\ ciphers' = Imported(q, chunk)
      /\ unannounced' = unannounced \cup {q.user}
      /\ Commits
      /\ request' = [request EXCEPT ![r].ids = @ \ chunk]
      /\ UNCHANGED <<views, folders, members, organization, revision,
                     folderRequest, now>>

ImportLastChunk(r) ==
  LET q == request[r]
  IN  /\ Busy(r, "ready") /\ q.kind = "import"
      /\ q.ids # {} => OwnFolder(q.user, q.folder)
      /\ ciphers' = Imported(q, q.ids)
      /\ Announce({q.user}, q.ts, {})
      /\ Commits
      /\ request' = [request EXCEPT ![r] = None]
      /\ UNCHANGED <<views, folders, members, organization, folderRequest, now>>

\* Every item of a user, or of the organization the user is a member of.
StartPurge(r, u, owner) ==
  /\ Idle(r) /\ "purge" \in Operations
  /\ owner \in {u, Organization}
  /\ owner = Organization => u \in members
  /\ request' = [request EXCEPT ![r] =
       Making("purge", u, owner, {}, None)]
  /\ UNCHANGED <<ciphers, views, folders, members, organization, revision,
                 unannounced, folderRequest, now, writes>>

\* Deviation: the purge does not take the items' tokens.
PurgedUnmarked(row, ts, token) ==
  [row EXCEPT !.state = "purged", !.updated = Later(row.updated, ts)]

PurgedRow(row, ts, token) ==
  [row EXCEPT !.state = "purged", !.updated = Later(row.updated, ts),
              !.token = token]

PurgedAll(owner, ts) ==
  [c \in Ciphers |->
     IF ciphers[c].owner = owner THEN PurgedRow(ciphers[c], ts, writes + 1)
     ELSE ciphers[c]]

CommitPurge(r) ==
  LET q == request[r]
  IN  /\ Busy(r, "ready") /\ q.kind = "purge"
      /\ ciphers' = PurgedAll(q.owner, q.ts)
      /\ Announce(Audience(q.owner), q.ts, {})
      /\ Commits
      /\ request' = [request EXCEPT ![r] = None]
      /\ UNCHANGED <<views, folders, members, organization, folderRequest, now>>

-----------------------------------------------------------------------------
(* Folders *)

CreateFolder(f) ==
  /\ "folder" \in Operations /\ folders[f].state = "absent"
  /\ folders' = [folders EXCEPT ![f].state = "live"]
  /\ Announce({FolderOwner[f]}, now, {})
  /\ Commits
  /\ UNCHANGED <<ciphers, views, members, organization, request, folderRequest,
                 now>>

StartFolder(r, f, kind) ==
  /\ folderRequest[r] = None /\ "folder" \in Operations
  /\ folders[f].state = "live"
  /\ folderRequest' = [folderRequest EXCEPT ![r] =
       [kind |-> kind, user |-> FolderOwner[f], folder |-> f,
        token |-> folders[f].token, ts |-> now]]
  /\ UNCHANGED <<ciphers, views, folders, members, organization, revision,
                 unannounced, request, now, writes>>

FolderFenced(q) ==
  folders[q.folder].state = "live" /\ folders[q.folder].token = q.token

CommitRename(r) ==
  LET q == folderRequest[r]
  IN  /\ q # None /\ q.kind = "rename" /\ FolderFenced(q)
      /\ folders' = [folders EXCEPT ![q.folder].token = writes + 1]
      /\ Announce({q.user}, q.ts, {})
      /\ Commits
      /\ folderRequest' = [folderRequest EXCEPT ![r] = None]
      /\ UNCHANGED <<ciphers, views, members, organization, request, now>>

\* Deviation: the items of a deleted folder stay in it.
StillFiled(row, q) == row

Unfiled(row, q) ==
  IF row.owner = q.user /\ row.folder = q.folder
  THEN [row EXCEPT !.folder = None, !.updated = Later(row.updated, q.ts)]
  ELSE row

\* The folder's items and shared items leave it before it goes; the items'
\* tokens stay.
CommitDeleteFolder(r) ==
  LET q == folderRequest[r]
  IN  /\ q # None /\ q.kind = "delete" /\ FolderFenced(q)
      /\ ciphers' = [c \in Ciphers |-> Unfiled(ciphers[c], q)]
      /\ views' = [views EXCEPT ![q.user] = [c \in Ciphers |->
           IF @[c].folder = q.folder THEN [@[c] EXCEPT !.folder = None]
           ELSE @[c]]]
      /\ folders' = [folders EXCEPT ![q.folder] =
           [state |-> "deleted", token |-> writes + 1]]
      /\ Announce({q.user}, q.ts, {})
      /\ Commits
      /\ folderRequest' = [folderRequest EXCEPT ![r] = None]
      /\ UNCHANGED <<members, organization, request, now>>

\* A 409, a deletion whose fence is gone (which answers 200), or a dead Worker.
GiveUpFolder(r) ==
  /\ folderRequest[r] # None
  /\ folderRequest' = [folderRequest EXCEPT ![r] = None]
  /\ UNCHANGED <<ciphers, views, folders, members, organization, revision,
                 unannounced, request, now, writes>>

-----------------------------------------------------------------------------
(* The organization, as far as the items go *)

\* The check that the organization is not deleted is an earlier read.
JoinOrganization(u) ==
  /\ "members" \in Operations /\ u \notin members
  /\ members' = members \cup {u}
  /\ Announce({u, OrgOwner}, now, {})
  /\ Commits
  /\ UNCHANGED <<ciphers, views, folders, organization, request, folderRequest,
                 now>>

\* The members' own views of the items stay behind.
LeaveOrganization(u) ==
  /\ "members" \in Operations /\ u \in members \ {OrgOwner}
  /\ members' = members \ {u}
  /\ Announce({u}, now, {})
  /\ Commits
  /\ UNCHANGED <<ciphers, views, folders, organization, request, folderRequest,
                 now>>

DeleteOrganization ==
  /\ "disband" \in Operations /\ organization = "live"
  /\ organization' = "deleted"
  /\ ciphers' = PurgedAll(Organization, now)
  /\ Announce(members, now, {})
  /\ Commits
  /\ UNCHANGED <<views, folders, members, request, folderRequest, now>>

Tick ==
  /\ now < MaxNow
  /\ now' = now + 1
  /\ UNCHANGED <<ciphers, views, folders, members, organization, revision,
                 unannounced, request, folderRequest, writes>>

-----------------------------------------------------------------------------
StartSome(r) ==
  \/ \E u \in Users, c \in Ciphers, f \in MaybeFolder,
       kind \in (ItemKinds \cup {"attach"}) \cap Operations :
       StartItem(r, u, c, kind, f)
  \/ \E u \in Users, c \in Ciphers : OpenItem(r, u, c)
  \/ \E c \in Ciphers, f \in MaybeFolder : SubmitEdit(r, c, f)
  \/ \E u \in Users, owner \in Users \cup {Organization}, c \in Ciphers,
       f \in MaybeFolder : StartCreate(r, u, owner, c, f)

StartMany(r) ==
  \E u \in Users, ids \in SUBSET Ciphers \ {{}}, f \in MaybeFolder :
    \/ \E kind \in BulkKinds \cap Operations : StartBulk(r, u, ids, kind, f)
    \/ StartImport(r, u, ids, f)

ItemRequest(r) ==
  \/ StartSome(r)
  \/ StartMany(r)
  \/ \E u \in Users, owner \in Users \cup {Organization} :
       StartPurge(r, u, owner)
  \/ CommitItems(r)
  \/ SkipItems(r)
  \/ UpdateViews(r)
  \/ AnnounceViews(r)
  \/ \E c \in Ciphers :
       FileView(r, c) \/ CommitAttach(r, c) \/ CommitCreate(r, c)
  \/ \E chunk \in SUBSET Ciphers : ImportChunk(r, chunk)
  \/ ImportLastChunk(r)
  \/ CommitPurge(r)
  \/ GiveUp(r)

FolderStep(r) ==
  \/ \E f \in Folders, kind \in {"rename", "delete"} : StartFolder(r, f, kind)
  \/ CommitRename(r)
  \/ CommitDeleteFolder(r)
  \/ GiveUpFolder(r)

Elsewhere ==
  \/ \E f \in Folders : CreateFolder(f)
  \/ \E u \in Users : JoinOrganization(u) \/ LeaveOrganization(u)
  \/ DeleteOrganization
  \/ Tick

VaultNext ==
  \/ \E r \in Requests : ItemRequest(r)
  \/ \E r \in FolderRequests : FolderStep(r)
  \/ Elsewhere

VaultSpec == Init /\ [][VaultNext]_vars

-----------------------------------------------------------------------------
(* What the fences are for *)

SameItem(a, b) ==
  a.owner = b.owner /\ a.state = b.state /\ a.content = b.content
  /\ a.archived = b.archived

\* Invariant: a token names one version of an item.  While an item still has
\* the token a request read, its owner, state, contents and archive mark are
\* the ones the request read (its folder and its time may not be).
TokensNameVersions ==
  \A r \in Requests, c \in Ciphers :
    request[r] # None /\ request[r].seen[c].state # "absent"
      /\ request[r].seen[c].token = ciphers[c].token
    => SameItem(request[r].seen[c], ciphers[c])

\* A purged item stays purged: no request that saw it before brings it back
\* (handlers/ciphers/purge.ts, lifecycle.ts hardDeleteCipher).
PurgeIsFinal ==
  [][\A c \in Ciphers :
       ciphers[c].state = "purged" => ciphers'[c].state = "purged"]_vars

\* Invariant: an edit that was sent with the revision date of what its client
\* had overwrites that and nothing newer (handlers/ciphers/update.ts).
EditsKeepNewer ==
  \A r \in Requests, c \in Ciphers :
    LET q == request[r]
    IN  q # None /\ q.phase = "ready" /\ q.base # None /\ c \in Claimed(q)
        => ciphers[c].content = q.base

\* Invariant: what is filed in a folder belongs to the folder's user, and the
\* folder exists, whoever deleted or shared what in between.
FoldersHoldOwnItems ==
  /\ \A c \in Ciphers : LET f == ciphers[c].folder IN
       f # None => /\ ciphers[c].owner = FolderOwner[f]
                   /\ folders[f].state = "live"
  /\ \A u \in Users, c \in Ciphers : OwnFolder(u, views[u][c].folder)

\* Items shared in one request change their owner together or not at all
\* (handlers/ciphers/sharing.ts:97), whatever happens to one of them meanwhile.
SharedTogether ==
  [][\A r \in Requests :
       /\ request[r] # None /\ request[r].kind = "share"
       /\ request'[r] = None
       /\ \E c \in request[r].ids : ciphers'[c].owner # ciphers[c].owner
       => \A c \in request[r].ids : ciphers'[c].owner = Organization]_vars

====
