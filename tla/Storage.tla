------------------------------ MODULE Storage -------------------------------
(***************************************************************************)
(* The files, the tables a restore builds, the backups on remote           *)
(* destinations, and the opening of Sends, side by side.  What one of them *)
(* needs of another (the switch of a restore, the lease) is in its own     *)
(* module: a behaviour drives one of them from any of its initial states   *)
(* while the others rest in their first.  Each keeps its own properties.   *)
(***************************************************************************)
EXTENDS BlobLifecycle, Restore, Backups, SendAccess

\* The component a behaviour drives.
VARIABLE driven

StorageParts == {"files", "restore", "backups", "sendAccess"}

storageVars == <<driven, vars, restoreTableVars, backupVars, sendAccessVars>>

\* Invariant: the rows, the objects and the requests of the driven component
\* have the shapes its tables and handlers give them; the others stay as they
\* began.
StorageTypeOK ==
  /\ driven \in StorageParts
  /\ driven = "files" => TypeOK
  /\ driven = "restore" => RestoreTypeOK
  /\ driven = "backups" => BackupsTypeOK
  /\ driven = "sendAccess" => SendAccessTypeOK

\* Where a component that does nothing stands.
QuietBackups ==
  /\ BackupsInit
  /\ settings = FirstSettings(FALSE, Unset)

QuietSendAccess ==
  /\ SendAccessInit
  /\ send.type = "text" /\ send.max = Nothing

StorageInit ==
  /\ driven \in StorageParts
  /\ Init
  /\ RestoreInit
  /\ IF driven = "backups" THEN BackupsInit ELSE QuietBackups
  /\ IF driven = "sendAccess" THEN SendAccessInit ELSE QuietSendAccess

StorageNext ==
  \/ /\ driven = "files"
     /\ UNCHANGED <<driven, restoreTableVars, backupVars, sendAccessVars>>
     /\ Next
  \/ /\ driven = "restore"
     /\ UNCHANGED <<driven, vars, backupVars, sendAccessVars>>
     /\ RestoreNext
  \/ /\ driven = "backups"
     /\ UNCHANGED <<driven, vars, restoreTableVars, sendAccessVars>>
     /\ BackupsNext
  \/ /\ driven = "sendAccess"
     /\ UNCHANGED <<driven, vars, restoreTableVars, backupVars>>
     /\ SendAccessNext

StorageSpec == StorageInit /\ [][StorageNext]_storageVars
=============================================================================
