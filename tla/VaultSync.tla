---- MODULE VaultSync ----
(***************************************************************************)
(* Reading the vault: GET /api/sync, which reads the tables one query      *)
(* after the other while the requests of Vault write them, and answers     *)
(* only if the user's revision was the same before and after               *)
(* (handlers/sync.ts, services/db/revisions.ts readAtStableRevision).      *)
(***************************************************************************)
EXTENDS Vault

CONSTANTS
  Readers,     \* the users that synchronize
  MaxAttempts  \* the times one synchronization reads before it answers 503

ASSUME ReaderAssumption ==
  Readers \subseteq Users /\ MaxAttempts \in Nat \ {0}

VARIABLES
  sync,   \* the synchronization in progress
  synced  \* the last answer: the revision it was read at, and what was read

syncVars == <<ciphers, views, folders, members, organization, revision,
              unannounced, request, folderRequest, now, writes, sync, synced>>

-----------------------------------------------------------------------------
(* The four reads *)

PersonalItems(u) ==
  [c \in Ciphers |->
     IF ciphers[c].owner = u /\ Present(ciphers[c]) THEN ciphers[c] ELSE NoRow]

FoldersOf(u) ==
  [f \in Folders |->
     IF FolderOwner[f] = u /\ folders[f].state = "live" THEN folders[f].token
     ELSE None]

Membership(u) == u \in members /\ organization = "live"

\* What the membership just read lets the user see.
SharedItems(u, member) ==
  [c \in Ciphers |->
     IF member /\ ciphers[c].owner = Organization /\ Present(ciphers[c])
     THEN <<ciphers[c], views[u][c]>> ELSE <<NoRow, NoView>>]

Current(u) ==
  [items |-> PersonalItems(u), folders |-> FoldersOf(u),
   member |-> Membership(u), shared |-> SharedItems(u, Membership(u))]

Vaults == [items : [Ciphers -> Row], folders : [Folders -> Nat \cup {None}],
           member : BOOLEAN, shared : [Ciphers -> Row \X View]]

Steps == {"items", "folders", "membership", "shared", "check"}
Reading == [step : Steps, attempt : 1 .. MaxAttempts, before : Nat,
            read : Vaults]
Answer == [revision : Nat, vault : Vaults]

\* Invariant: the readers' state has its type.
SyncTypeOK ==
  /\ sync \in [Readers -> Reading \cup {None}]
  /\ synced \in [Readers -> Answer \cup {None}]

SyncInit ==
  /\ Init
  /\ sync = [u \in Readers |-> None]
  /\ synced = [u \in Readers |-> None]

-----------------------------------------------------------------------------
Begin(u, attempt) ==
  [step |-> "items", attempt |-> attempt, before |-> revision[u],
   read |-> [items |-> [c \in Ciphers |-> NoRow],
             folders |-> [f \in Folders |-> None], member |-> FALSE,
             shared |-> [c \in Ciphers |-> <<NoRow, NoView>>]]]

StartSync(u) ==
  /\ sync[u] = None
  /\ sync' = [sync EXCEPT ![u] = Begin(u, 1)]
  /\ UNCHANGED <<vars, synced>>

At(u, step) == sync[u] # None /\ sync[u].step = step

ReadItems(u) ==
  /\ At(u, "items")
  /\ sync' = [sync EXCEPT ![u].step = "folders",
                          ![u].read.items = PersonalItems(u)]
  /\ UNCHANGED <<vars, synced>>

ReadFolders(u) ==
  /\ At(u, "folders")
  /\ sync' = [sync EXCEPT ![u].step = "membership",
                          ![u].read.folders = FoldersOf(u)]
  /\ UNCHANGED <<vars, synced>>

ReadMembership(u) ==
  /\ At(u, "membership")
  /\ sync' = [sync EXCEPT ![u].step = "shared",
                          ![u].read.member = Membership(u)]
  /\ UNCHANGED <<vars, synced>>

ReadShared(u) ==
  /\ At(u, "shared")
  /\ sync' = [sync EXCEPT ![u].step = "check",
                ![u].read.shared = SharedItems(u, sync[u].read.member)]
  /\ UNCHANGED <<vars, synced>>

\* Deviation: the revision is not read a second time.
StableAnyway(u) == TRUE

Stable(u) == revision[u] = sync[u].before

AnswerSync(u) ==
  /\ At(u, "check") /\ Stable(u)
  /\ synced' = [synced EXCEPT ![u] =
       [revision |-> sync[u].before, vault |-> sync[u].read]]
  /\ sync' = [sync EXCEPT ![u] = None]
  /\ UNCHANGED vars

\* Another attempt, which reads the revision again, or 503.
RetrySync(u) ==
  /\ At(u, "check") /\ ~Stable(u)
  /\ sync' = [sync EXCEPT ![u] =
       IF sync[u].attempt < MaxAttempts THEN Begin(u, sync[u].attempt + 1)
       ELSE None]
  /\ UNCHANGED <<vars, synced>>

SyncStep(u) ==
  \/ StartSync(u)
  \/ ReadItems(u)
  \/ ReadFolders(u)
  \/ ReadMembership(u)
  \/ ReadShared(u)
  \/ AnswerSync(u)
  \/ RetrySync(u)

SyncNext ==
  \/ VaultNext /\ UNCHANGED <<sync, synced>>
  \/ \E u \in Readers : SyncStep(u)

SyncSpec == SyncInit /\ [][SyncNext]_syncVars

-----------------------------------------------------------------------------
(* Properties *)

\* An answer is the vault as it is at the moment of the answer, torn by no
\* write between its reads (readAtStableRevision), unless some write has not
\* been announced yet (see unannounced).
AnswersAreWhole ==
  [][\A u \in Readers :
       synced'[u] # synced[u] /\ u \notin unannounced
         => synced'[u].vault = Current(u)]_syncVars

\* Invariant: as long as the user's revision is that of the answer, the answer
\* is still the vault: a client that only compares revisions misses nothing
\* but what no batch announced.
SyncedVaultIsCurrent ==
  \A u \in Readers :
    synced[u] # None /\ synced[u].revision = revision[u] /\ u \notin unannounced
      => synced[u].vault = Current(u)

====
