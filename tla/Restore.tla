------------------------------ MODULE Restore ------------------------------
(***************************************************************************)
(* Restoring an archive.  A restore builds the database anew in shadow     *)
(* tables, in one D1 batch per step, and replaces the live tables by them  *)
(* in a last one.  It runs under the data operation lease and asks for it  *)
(* again before each part of the work; but the shadow tables have the same *)
(* names for every restore, and the remote calls may last longer than the  *)
(* lease.  A Worker dies at any step, and any call may fail.               *)
(*                                                                         *)
(* Restores are numbered as they arrive.  A restore's number stands for    *)
(* its archive and its lease's token; a table's contents are the archives  *)
(* whose rows are in it.  The tables are taken together in three groups:   *)
(* the vault's rows, the rows of files that can be stored, and those of    *)
(* files that cannot, whichever restore tries, and which it removes again. *)
(* What becomes of the files is in BlobLifecycle.                          *)
(***************************************************************************)
EXTENDS Naturals

CONSTANTS MaxImports, \* bound: restores in one behaviour
          Vacant      \* no row, no tables

ASSUME RestoreAssumption ==
  /\ MaxImports \in Nat
  /\ Vacant \notin Nat \cup [token : Nat, lapsed : BOOLEAN]

VARIABLES
  lockRow,   \* config: backup.runner.lock.v1
  shadow,    \* the shadow tables
  live,      \* the live tables, and the restore that put them there
  importing  \* the restores in flight

restoreTableVars == <<lockRow, shadow, live, importing>>

Imports == 1..MaxImports

Tables == [vault : SUBSET Imports, files : SUBSET Imports,
           unstorable : SUBSET Imports]
EmptyTables == [vault |-> {}, files |-> {}, unstorable |-> {}]

LockRow == [token : Imports, lapsed : BOOLEAN]

\* "renew" is between two parts of the work: the lease is asked for before
\* the part that "next" names.
ImportParts == {"reset", "create", "insert", "store", "swap"}
ImportStages == {"waiting", "download", "renew", "failing", "clean", "over",
                 "remember", "insertFiles", "count", "remove", "recount"}
                  \cup ImportParts

Importing == [stage : ImportStages, next : ImportParts, flawed : BOOLEAN,
              remembered : Imports \cup {Vacant}]

Unbegun == [stage |-> "waiting", next |-> "reset", flawed |-> FALSE,
            remembered |-> Vacant]

\* Invariant: the tables, the lease and the restores have the shapes the
\* schema and the importer give them.
RestoreTypeOK ==
  /\ lockRow \in LockRow \cup {Vacant}
  /\ shadow \in Tables \cup {Vacant}
  /\ live \in [by : Imports \cup {Vacant}, tables : Tables]
  /\ importing \in [Imports -> Importing]

RestoreInit ==
  /\ lockRow = Vacant
  /\ shadow = Vacant
  /\ live = [by |-> Vacant, tables |-> EmptyTables]
  /\ importing = [n \in Imports |-> Unbegun]

-----------------------------------------------------------------------------
(* The lease, and how a restore goes on or ends. *)

HasLock(n) == lockRow # Vacant /\ lockRow.token = n
LockIsFree == lockRow # Vacant => lockRow.lapsed
Without(n) == IF HasLock(n) THEN Vacant ELSE lockRow

Goes(n, stage) == importing' = [importing EXCEPT ![n].stage = stage]

\* The lease is renewed first.
GoesAfterRenewal(n, part) ==
  importing' = [importing EXCEPT ![n].stage = "renew", ![n].next = part]

\* A local archive came with the request; a remote one is downloaded.
acquireLock(n) ==
  /\ importing[n].stage = "waiting"
  /\ n > 1 => importing[n - 1].stage # "waiting"
  /\ LockIsFree
  /\ lockRow' = [token |-> n, lapsed |-> FALSE]
  /\ \E stage \in {"reset", "download"}, flawed \in BOOLEAN :
       importing' = [importing EXCEPT
         ![n] = [stage |-> stage, next |-> "reset", flawed |-> flawed,
                 remembered |-> Vacant]]
  /\ UNCHANGED <<shadow, live>>

downloadArchive(n) ==
  /\ importing[n].stage = "download"
  /\ GoesAfterRenewal(n, "reset")
  /\ UNCHANGED <<lockRow, shadow, live>>

\* Deviation: the restore goes on without asking for its lease.
MayRenewAnyway(n) == TRUE

\* The row still has the restore's token, lapsed or not.
MayRenew(n) == HasLock(n)

renewLock(n) ==
  /\ importing[n].stage = "renew"
  /\ IF MayRenew(n)
       THEN /\ lockRow' = [token |-> n, lapsed |-> FALSE]
            /\ Goes(n, importing[n].next)
       ELSE Goes(n, "failing") /\ UNCHANGED lockRow
  /\ UNCHANGED <<shadow, live>>

\* Any call throws, and the error path begins.
importFails(n) ==
  /\ importing[n].stage \notin {"waiting", "failing", "clean", "over"}
  /\ Goes(n, "failing")
  /\ UNCHANGED <<lockRow, shadow, live>>

-----------------------------------------------------------------------------
(* The parts of a restore. *)

resetRestoreArtifacts(n) ==
  /\ importing[n].stage = "reset"
  /\ shadow' = Vacant
  /\ Goes(n, "remember")
  /\ UNCHANGED <<lockRow, live>>

\* The lease in force is to be among the restored rows.
readActiveLock(n) ==
  /\ importing[n].stage = "remember"
  /\ importing' = [importing EXCEPT
       ![n].stage = "renew", ![n].next = "create",
       ![n].remembered = IF LockIsFree THEN Vacant ELSE lockRow.token]
  /\ UNCHANGED <<lockRow, shadow, live>>

createShadowTables(n) ==
  /\ importing[n].stage = "create"
  /\ shadow = Vacant
  /\ shadow' = EmptyTables
  /\ GoesAfterRenewal(n, "insert")
  /\ UNCHANGED <<lockRow, live>>

importVaultRows(n) ==
  /\ importing[n].stage = "insert"
  /\ shadow # Vacant
  /\ shadow' = [shadow EXCEPT !.vault = @ \cup {n}]
  /\ Goes(n, "insertFiles")
  /\ UNCHANGED <<lockRow, live>>

importFileRows(n) ==
  /\ importing[n].stage = "insertFiles"
  /\ shadow # Vacant
  /\ shadow' = [shadow EXCEPT
       !.files = @ \cup {n},
       !.unstorable = IF importing[n].flawed THEN @ \cup {n} ELSE @]
  /\ Goes(n, "count")
  /\ UNCHANGED <<lockRow, live>>

\* Each table has as many rows as it should: its own, or those of another
\* archive of the same size, a copy of it perhaps.  (If the sizes differ, the
\* call throws as any other may.)
CountsFor(n, unstorable) ==
  /\ shadow # Vacant
  /\ \E m \in Imports :
       /\ shadow.vault = {m} /\ shadow.files = {m}
       /\ shadow.unstorable = (IF unstorable THEN {m} ELSE {})

validateCounts(n) ==
  /\ importing[n].stage = "count"
  /\ CountsFor(n, importing[n].flawed)
  /\ GoesAfterRenewal(n, "store")
  /\ UNCHANGED <<lockRow, shadow, live>>

storeFiles(n) ==
  /\ importing[n].stage = "store"
  /\ Goes(n, "remove")
  /\ UNCHANGED <<lockRow, shadow, live>>

\* By their ids, which another archive's rows may have too; that it throws
\* goes unnoticed.
removeUnstorable(n) ==
  /\ importing[n].stage = "remove"
  /\ \/ shadow # Vacant /\ importing[n].flawed
        /\ \E others \in SUBSET shadow.unstorable :
             shadow' = [shadow EXCEPT !.unstorable = @ \ (others \cup {n})]
     \/ UNCHANGED shadow
  /\ Goes(n, "recount")
  /\ UNCHANGED <<lockRow, live>>

revalidateCounts(n) ==
  /\ importing[n].stage = "recount"
  /\ CountsFor(n, FALSE)
  /\ GoesAfterRenewal(n, "swap")
  /\ UNCHANGED <<lockRow, shadow, live>>

\* The config table is replaced too, and the lease is back to what it was when
\* it was read: over half an hour ago perhaps.
swapShadowTables(n) ==
  /\ importing[n].stage = "swap"
  /\ shadow # Vacant
  /\ live' = [by |-> n, tables |-> shadow]
  /\ IF importing[n].remembered = Vacant THEN lockRow' = Vacant
     ELSE \E lapsed \in BOOLEAN :
            lockRow' = [token |-> importing[n].remembered, lapsed |-> lapsed]
  /\ Goes(n, "clean")
  /\ UNCHANGED shadow

\* After the switch, or after an error, lease or no lease; what throws here goes
\* unnoticed.
dropRestoreArtifacts(n) ==
  /\ importing[n].stage \in {"clean", "failing"}
  /\ shadow' = Vacant \/ UNCHANGED shadow
  /\ lockRow' = Without(n) \/ UNCHANGED lockRow
  /\ Goes(n, "over")
  /\ UNCHANGED live

-----------------------------------------------------------------------------
(* What happens to a restore. *)

\* The lease of a dead restore lapses, or that of one whose download or files
\* take long.  A part that only asks D1 is over long before the half hour that
\* the renewal ahead of it gives.
LockLapses ==
  /\ lockRow # Vacant /\ ~lockRow.lapsed
  /\ importing[lockRow.token].stage \in {"download", "store", "over"}
  /\ lockRow' = [lockRow EXCEPT !.lapsed = TRUE]
  /\ UNCHANGED <<shadow, live, importing>>

ImporterDies(n) ==
  /\ importing[n].stage \notin {"waiting", "over"}
  /\ Goes(n, "over")
  /\ UNCHANGED <<lockRow, shadow, live>>

RestoreNext ==
  \/ \E n \in Imports :
       \/ acquireLock(n) \/ downloadArchive(n) \/ renewLock(n) \/ importFails(n)
       \/ resetRestoreArtifacts(n) \/ readActiveLock(n) \/ createShadowTables(n)
       \/ importVaultRows(n) \/ importFileRows(n) \/ validateCounts(n)
       \/ storeFiles(n) \/ removeUnstorable(n) \/ revalidateCounts(n)
       \/ swapShadowTables(n) \/ dropRestoreArtifacts(n) \/ ImporterDies(n)
  \/ LockLapses

RestoreSpec == RestoreInit /\ [][RestoreNext]_restoreTableVars

-----------------------------------------------------------------------------
(* Properties. *)

\* Invariant: what a restore puts in the place of the live tables is its own
\* archive, whole, and without rows whose files could not be stored; however
\* many restores have lost their lease in the middle of their work, lag behind
\* or clean up, and although counts are all that is validated
\* (importBackupArchiveBytes, swapShadowTablesIntoPlace).
RestoresAreWhole ==
  live.by # Vacant =>
    live.tables = [vault |-> {live.by}, files |-> {live.by}, unstorable |-> {}]
=============================================================================
