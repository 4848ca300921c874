--------------------------- MODULE RestoreProofs ---------------------------
(***************************************************************************)
(* What is proved of Restore: the variables' types, and that what replaces *)
(* the live tables is one archive, whole, for any number of restores.      *)
(*                                                                         *)
(* The argument: a part of the work that only asks D1 begins with the      *)
(* lease renewed and ends before it lapses, so that whoever is at such a   *)
(* part has the lease (Steady).  Only the lease's owner makes the tables   *)
(* or fills them.  The others, late or cleaning up, can drop them or take  *)
(* unstorable rows out; so while the owner works, the tables either are    *)
(* gone, and it fails, or hold what it put there (OwnerSees).              *)
(***************************************************************************)
EXTENDS Restore, TLAPS

\* The parts between two renewals in which a restore only asks D1.
AskingD1 == {"reset", "remember", "create", "insert", "insertFiles", "count",
             "swap"}

\* Whoever is at one of them, or about to ask for its lease right after one,
\* has the lease, and it has not lapsed.
Steady ==
  \A n \in Imports :
    \/ importing[n].stage \in AskingD1
    \/ importing[n].stage = "renew" /\ importing[n].next \in {"create", "insert", "store"}
    => HasLock(n) /\ ~lockRow.lapsed

\* A restore remembers its own lease or none.
OwnLock == \A n \in Imports : importing[n].remembered \in {n, Vacant}

Filled(n) == shadow.vault = {n} /\ shadow.files = {n} /\ shadow.unstorable \subseteq {n}

At(n, stage, next) == importing[n].stage = stage /\ importing[n].next = next

\* What the tables hold, if they are there, at each point of the owner's work.
OwnerFinds(n) ==
  /\ importing[n].stage \notin {"remember", "create"}
  /\ ~At(n, "renew", "create")
  /\ importing[n].stage = "insert" \/ At(n, "renew", "insert") => shadow = EmptyTables
  /\ importing[n].stage = "insertFiles" => shadow = [EmptyTables EXCEPT !.vault = {n}]
  /\ importing[n].stage \in {"count", "store", "remove", "recount"}
       \/ At(n, "renew", "store") => Filled(n)
  /\ importing[n].stage = "swap" \/ At(n, "renew", "swap") =>
       Filled(n) /\ shadow.unstorable = {}

OwnerSees == \A n \in Imports : HasLock(n) /\ shadow # Vacant => OwnerFinds(n)

RestoreInv ==
  RestoreTypeOK /\ Steady /\ OwnLock /\ OwnerSees /\ RestoresAreWhole

ImportStep(n) ==
  \/ acquireLock(n) \/ downloadArchive(n) \/ renewLock(n) \/ importFails(n)
  \/ resetRestoreArtifacts(n) \/ readActiveLock(n) \/ createShadowTables(n)
  \/ importVaultRows(n) \/ importFileRows(n) \/ validateCounts(n)
  \/ storeFiles(n) \/ removeUnstorable(n) \/ revalidateCounts(n)
  \/ swapShadowTables(n) \/ dropRestoreArtifacts(n) \/ ImporterDies(n)

-----------------------------------------------------------------------------
(* What a restore's move does to the restores. *)

\* Restore n goes to this stage, the part to come, and the remembered lease;
\* the others stay where they are.
Moved(n, stage, next, remembered) ==
  /\ importing' \in [Imports -> Importing]
  /\ \A m \in Imports : m # n => importing'[m] = importing[m]
  /\ importing'[n].stage = stage
  /\ importing'[n].next = next
  /\ importing'[n].remembered = remembered

LEMMA Names ==
  /\ {"waiting", "download", "renew", "failing", "clean", "over", "remember",
      "insertFiles", "count", "remove", "recount", "reset", "create", "insert",
      "store", "swap"} = ImportStages
  /\ ImportParts \subseteq ImportStages
BY DEF ImportStages, ImportParts

LEMMA GoesMoves ==
  ASSUME RestoreTypeOK, NEW n \in Imports, NEW stage \in ImportStages, Goes(n, stage)
  PROVE  /\ Moved(n, stage, importing[n].next, importing[n].remembered)
         /\ importing'[n].flawed = importing[n].flawed
BY DEF RestoreTypeOK, Importing, Goes, Moved

LEMMA GoesAfterRenewalMoves ==
  ASSUME RestoreTypeOK, NEW n \in Imports, NEW part \in ImportParts,
         GoesAfterRenewal(n, part)
  PROVE  /\ Moved(n, "renew", part, importing[n].remembered)
         /\ importing'[n].flawed = importing[n].flawed
<1>1. importing' = [importing EXCEPT ![n] = [importing[n] EXCEPT !.stage = "renew", !.next = part]]
  BY DEF GoesAfterRenewal, RestoreTypeOK
<1>2. "renew" \in ImportStages
  BY Names
<1>3. [importing[n] EXCEPT !.stage = "renew", !.next = part] \in Importing
  BY <1>2 DEF RestoreTypeOK, Importing
<1>. QED  BY <1>1, <1>3 DEF RestoreTypeOK, Importing, Moved

LEMMA AcquireMoves ==
  ASSUME RestoreTypeOK, NEW n \in Imports, acquireLock(n)
  PROVE  \E stage \in {"reset", "download"} : Moved(n, stage, "reset", Vacant)
<1>. PICK stage \in {"reset", "download"}, flawed \in BOOLEAN :
       importing' = [importing EXCEPT
         ![n] = [stage |-> stage, next |-> "reset", flawed |-> flawed,
                 remembered |-> Vacant]]
  BY DEF acquireLock
<1>2. [stage |-> stage, next |-> "reset", flawed |-> flawed, remembered |-> Vacant] \in Importing
  BY DEF Importing, ImportStages, ImportParts
<1>. HIDE DEF Importing
<1>3. Moved(n, stage, "reset", Vacant)
  BY <1>2 DEF RestoreTypeOK, Moved
<1>. QED  BY <1>3

LEMMA ReadLockMoves ==
  ASSUME RestoreTypeOK, NEW n \in Imports, readActiveLock(n)
  PROVE  /\ Moved(n, "renew", "create", IF LockIsFree THEN Vacant ELSE lockRow.token)
         /\ ~LockIsFree => lockRow.token \in Imports
<1> DEFINE kept == IF LockIsFree THEN Vacant ELSE lockRow.token
           entry == [importing[n] EXCEPT !.stage = "renew", !.next = "create",
                                         !.remembered = kept]
<1>1. ~LockIsFree => lockRow.token \in Imports
  BY DEF RestoreTypeOK, LockIsFree, LockRow
<1>2. importing' = [importing EXCEPT ![n] = entry]
  BY DEF readActiveLock, RestoreTypeOK
<1>3. kept \in Imports \cup {Vacant}
  BY <1>1
<1>. HIDE DEF kept
<1>4. entry \in Importing /\ entry.stage = "renew" /\ entry.next = "create" /\ entry.remembered = kept
  BY <1>3, Names DEF RestoreTypeOK, Importing, ImportParts
<1>. HIDE DEF entry
<1>5. Moved(n, "renew", "create", kept)
  BY <1>2, <1>4 DEF RestoreTypeOK, Moved
<1>. QED  BY <1>1, <1>5 DEF kept

LEMMA RenewMoves ==
  ASSUME RestoreTypeOK, NEW n \in Imports, renewLock(n)
  PROVE  IF HasLock(n)
           THEN Moved(n, importing[n].next, importing[n].next, importing[n].remembered)
           ELSE Moved(n, "failing", importing[n].next, importing[n].remembered)
<1>1. importing[n].next \in ImportStages
  BY Names DEF RestoreTypeOK, Importing
<1>2. "failing" \in ImportStages
  BY Names
<1>. QED  BY <1>1, <1>2, GoesMoves DEF renewLock, MayRenew

\* Where each of the other actions leads.
LEMMA StepMoves ==
  ASSUME RestoreTypeOK, NEW n \in Imports
  PROVE
    /\ downloadArchive(n) => Moved(n, "renew", "reset", importing[n].remembered)
    /\ importFails(n) => Moved(n, "failing", importing[n].next, importing[n].remembered)
    /\ resetRestoreArtifacts(n) => Moved(n, "remember", importing[n].next, importing[n].remembered)
    /\ createShadowTables(n) => Moved(n, "renew", "insert", importing[n].remembered)
    /\ importVaultRows(n) => Moved(n, "insertFiles", importing[n].next, importing[n].remembered)
    /\ importFileRows(n) => Moved(n, "count", importing[n].next, importing[n].remembered)
    /\ validateCounts(n) => Moved(n, "renew", "store", importing[n].remembered)
    /\ storeFiles(n) => Moved(n, "remove", importing[n].next, importing[n].remembered)
    /\ removeUnstorable(n) => Moved(n, "recount", importing[n].next, importing[n].remembered)
    /\ revalidateCounts(n) => Moved(n, "renew", "swap", importing[n].remembered)
    /\ swapShadowTables(n) => Moved(n, "clean", importing[n].next, importing[n].remembered)
    /\ dropRestoreArtifacts(n) => Moved(n, "over", importing[n].next, importing[n].remembered)
    /\ ImporterDies(n) => Moved(n, "over", importing[n].next, importing[n].remembered)
<1>1. \A stage \in ImportStages : Goes(n, stage) =>
        Moved(n, stage, importing[n].next, importing[n].remembered)
  BY GoesMoves
<1>2. \A part \in ImportParts : GoesAfterRenewal(n, part) =>
        Moved(n, "renew", part, importing[n].remembered)
  BY GoesAfterRenewalMoves
<1>. USE Names DEF ImportParts
<1>3. downloadArchive(n) => Moved(n, "renew", "reset", importing[n].remembered)
  BY <1>2 DEF downloadArchive
<1>4. importFails(n) => Moved(n, "failing", importing[n].next, importing[n].remembered)
  BY <1>1 DEF importFails
<1>5. resetRestoreArtifacts(n) => Moved(n, "remember", importing[n].next, importing[n].remembered)
  BY <1>1 DEF resetRestoreArtifacts
<1>6. createShadowTables(n) => Moved(n, "renew", "insert", importing[n].remembered)
  BY <1>2 DEF createShadowTables
<1>7. importVaultRows(n) => Moved(n, "insertFiles", importing[n].next, importing[n].remembered)
  BY <1>1 DEF importVaultRows
<1>8. importFileRows(n) => Moved(n, "count", importing[n].next, importing[n].remembered)
  BY <1>1 DEF importFileRows
<1>9. validateCounts(n) => Moved(n, "renew", "store", importing[n].remembered)
  BY <1>2 DEF validateCounts
<1>10. storeFiles(n) => Moved(n, "remove", importing[n].next, importing[n].remembered)
  BY <1>1 DEF storeFiles
<1>11. removeUnstorable(n) => Moved(n, "recount", importing[n].next, importing[n].remembered)
  BY <1>1 DEF removeUnstorable
<1>12. revalidateCounts(n) => Moved(n, "renew", "swap", importing[n].remembered)
  BY <1>2 DEF revalidateCounts
<1>13. swapShadowTables(n) => Moved(n, "clean", importing[n].next, importing[n].remembered)
  BY <1>1 DEF swapShadowTables
<1>14. dropRestoreArtifacts(n) => Moved(n, "over", importing[n].next, importing[n].remembered)
  BY <1>1 DEF dropRestoreArtifacts
<1>15. ImporterDies(n) => Moved(n, "over", importing[n].next, importing[n].remembered)
  BY <1>1 DEF ImporterDies
<1>. QED  BY <1>3, <1>4, <1>5, <1>6, <1>7, <1>8, <1>9, <1>10, <1>11, <1>12, <1>13, <1>14, <1>15

-----------------------------------------------------------------------------

LEMMA RowIsNotVacant ==
  ASSUME NEW n \in Imports, NEW lapsed \in BOOLEAN
  PROVE  [token |-> n, lapsed |-> lapsed] # Vacant
<1>1. [token |-> n, lapsed |-> lapsed] \in [token : Nat, lapsed : BOOLEAN]
  BY RestoreAssumption DEF Imports
<1>. QED  BY <1>1, RestoreAssumption

\* What the removal of rows can do to the tables.
LEMMA RemovalOnlyRemoves ==
  ASSUME RestoreTypeOK, NEW n \in Imports, removeUnstorable(n)
  PROVE  \/ shadow' = shadow
         \/ /\ shadow # Vacant /\ shadow.unstorable # {}
            /\ shadow' \in Tables
            /\ shadow'.vault = shadow.vault /\ shadow'.files = shadow.files
            /\ shadow'.unstorable \subseteq shadow.unstorable
<1>. SUFFICES ASSUME shadow' # shadow
     PROVE  /\ shadow # Vacant /\ shadow.unstorable # {}
            /\ shadow' \in Tables
            /\ shadow'.vault = shadow.vault /\ shadow'.files = shadow.files
            /\ shadow'.unstorable \subseteq shadow.unstorable
  OBVIOUS
<1>. PICK others \in SUBSET shadow.unstorable :
       shadow' = [shadow EXCEPT !.unstorable = @ \ (others \cup {n})]
  BY DEF removeUnstorable
<1>1. shadow # Vacant
  BY DEF removeUnstorable
<1>2. PICK vault \in SUBSET Imports, files \in SUBSET Imports, unstorable \in SUBSET Imports :
        shadow = [vault |-> vault, files |-> files, unstorable |-> unstorable]
  BY <1>1 DEF RestoreTypeOK, Tables
<1>3. shadow' = [vault |-> vault, files |-> files,
                 unstorable |-> unstorable \ (others \cup {n})]
  BY <1>2
<1>4. unstorable # {}
  <2>. SUFFICES ASSUME unstorable = {} PROVE FALSE
    OBVIOUS
  <2>1. unstorable \ (others \cup {n}) = unstorable
    OBVIOUS
  <2>. QED  BY <2>1, <1>2, <1>3
<1>. QED  BY <1>1, <1>2, <1>3, <1>4 DEF Tables

\* The shapes are kept.
LEMMA RestoreTypeStep ==
  ASSUME RestoreTypeOK, [RestoreNext]_restoreTableVars
  PROVE  RestoreTypeOK'
<1>. USE RestoreAssumption DEF RestoreTypeOK, Moved, LockRow, Tables, EmptyTables
<1>1. ASSUME NEW n \in Imports, ImportStep(n) PROVE RestoreTypeOK'
  <2>1. CASE acquireLock(n)
    BY <2>1, AcquireMoves DEF acquireLock
  <2>2. CASE downloadArchive(n)
    BY <2>2, StepMoves DEF downloadArchive
  <2>3. CASE renewLock(n)
    <3>1. importing' \in [Imports -> Importing]
      BY <2>3, RenewMoves
    <3>2. lockRow' \in LockRow \cup {Vacant}
      <4>1. CASE HasLock(n)
        <5>1. lockRow' = [token |-> n, lapsed |-> FALSE]
          BY <4>1, <2>3 DEF renewLock, MayRenew
        <5>. QED  BY <5>1
      <4>2. CASE ~HasLock(n)
        BY <4>2, <2>3 DEF renewLock, MayRenew
      <4>. QED  BY <4>1, <4>2
    <3>. QED  BY <3>1, <3>2, <2>3 DEF renewLock
  <2>4. CASE importFails(n)
    BY <2>4, StepMoves DEF importFails
  <2>5. CASE resetRestoreArtifacts(n)
    BY <2>5, StepMoves DEF resetRestoreArtifacts
  <2>6. CASE readActiveLock(n)
    BY <2>6, ReadLockMoves DEF readActiveLock
  <2>7. CASE createShadowTables(n)
    BY <2>7, StepMoves DEF createShadowTables
  <2>8. CASE importVaultRows(n)
    BY <2>8, StepMoves DEF importVaultRows
  <2>9. CASE importFileRows(n)
    BY <2>9, StepMoves DEF importFileRows
  <2>10. CASE validateCounts(n)
    BY <2>10, StepMoves DEF validateCounts
  <2>11. CASE storeFiles(n)
    BY <2>11, StepMoves DEF storeFiles
  <2>12. CASE removeUnstorable(n)
    <3>1. importing' \in [Imports -> Importing] /\ shadow' \in Tables \cup {Vacant}
      BY <2>12, StepMoves, RemovalOnlyRemoves
    <3>. QED  BY <3>1, <2>12 DEF removeUnstorable
  <2>13. CASE revalidateCounts(n)
    BY <2>13, StepMoves DEF revalidateCounts
  <2>14. CASE swapShadowTables(n)
    <3>1. importing' \in [Imports -> Importing] /\ shadow' \in Tables \cup {Vacant}
      BY <2>14, StepMoves DEF swapShadowTables
    <3>2. live' \in [by : Imports \cup {Vacant}, tables : Tables]
      <4>1. shadow \in Tables
        BY <2>14 DEF swapShadowTables
      <4>. QED  BY <4>1, <2>14 DEF swapShadowTables
    <3>3. lockRow' \in LockRow \cup {Vacant}
      BY <2>14 DEF swapShadowTables, Importing
    <3>. QED  BY <3>1, <3>2, <3>3
  <2>15. CASE dropRestoreArtifacts(n)
    BY <2>15, StepMoves DEF dropRestoreArtifacts, Without
  <2>16. CASE ImporterDies(n)
    BY <2>16, StepMoves DEF ImporterDies
  <2>. QED  BY <1>1, <2>1, <2>2, <2>3, <2>4, <2>5, <2>6, <2>7, <2>8, <2>9, <2>10, <2>11, <2>12, <2>13, <2>14, <2>15, <2>16 DEF ImportStep
<1>2. CASE LockLapses
  BY <1>2 DEF LockLapses
<1>3. CASE UNCHANGED restoreTableVars
  BY <1>3 DEF restoreTableVars
<1>. QED  BY <1>1, <1>2, <1>3 DEF RestoreNext, ImportStep

\* Whoever is at D1 has the lease.
LEMMA SteadyStep ==
  ASSUME RestoreTypeOK, Steady, OwnLock, [RestoreNext]_restoreTableVars
  PROVE  Steady'
<1>. USE RestoreAssumption DEF Steady, Moved, HasLock, AskingD1, MayRenew, LockRow
<1>1. ASSUME NEW n \in Imports, ImportStep(n) PROVE Steady'
  <2>1. CASE acquireLock(n)
    <3>1. lockRow' = [token |-> n, lapsed |-> FALSE] /\ LockIsFree
      BY <2>1 DEF acquireLock
    <3>2. lockRow'.token = n /\ ~lockRow'.lapsed /\ lockRow' # Vacant
      BY <3>1, RowIsNotVacant
    <3>. QED  BY <3>1, <3>2, <2>1, AcquireMoves DEF LockIsFree
  <2>2. CASE downloadArchive(n)
    BY <2>2, StepMoves DEF downloadArchive
  <2>3. CASE renewLock(n)
    <3>1. CASE HasLock(n)
      <4>1. lockRow' = [token |-> n, lapsed |-> FALSE] /\ shadow' = shadow
        BY <3>1, <2>3 DEF renewLock, MayRenew
      <4>2. lockRow'.token = n /\ ~lockRow'.lapsed /\ lockRow' # Vacant
        BY <3>1, <4>1, RowIsNotVacant
      <4>3. Moved(n, importing[n].next, importing[n].next, importing[n].remembered)
        BY <3>1, <2>3, RenewMoves
      <4>4. importing[n].stage = "renew"
        BY <2>3 DEF renewLock
      <4>5. importing[n].next \in {"reset", "create", "insert", "store", "swap"}
        BY DEF RestoreTypeOK, Importing, ImportParts
      <4>. QED  BY <3>1, <4>1, <4>2, <4>3, <4>4, <4>5
    <3>2. CASE ~HasLock(n)
      BY <3>2, <2>3, RenewMoves DEF renewLock, MayRenew
    <3>. QED  BY <3>1, <3>2
  <2>4. CASE importFails(n)
    BY <2>4, StepMoves DEF importFails
  <2>5. CASE resetRestoreArtifacts(n)
    BY <2>5, StepMoves DEF resetRestoreArtifacts
  <2>6. CASE readActiveLock(n)
    BY <2>6, ReadLockMoves DEF readActiveLock, LockIsFree
  <2>7. CASE createShadowTables(n)
    BY <2>7, StepMoves DEF createShadowTables
  <2>8. CASE importVaultRows(n)
    BY <2>8, StepMoves DEF importVaultRows
  <2>9. CASE importFileRows(n)
    BY <2>9, StepMoves DEF importFileRows
  <2>10. CASE validateCounts(n)
    BY <2>10, StepMoves DEF validateCounts
  <2>11. CASE storeFiles(n)
    BY <2>11, StepMoves DEF storeFiles
  <2>12. CASE removeUnstorable(n)
    BY <2>12, StepMoves DEF removeUnstorable
  <2>13. CASE revalidateCounts(n)
    BY <2>13, StepMoves DEF revalidateCounts
  <2>14. CASE swapShadowTables(n)
    BY <2>14, StepMoves DEF swapShadowTables, OwnLock
  <2>15. CASE dropRestoreArtifacts(n)
    BY <2>15, StepMoves DEF dropRestoreArtifacts, Without
  <2>16. CASE ImporterDies(n)
    BY <2>16, StepMoves DEF ImporterDies
  <2>. QED  BY <1>1, <2>1, <2>2, <2>3, <2>4, <2>5, <2>6, <2>7, <2>8, <2>9, <2>10, <2>11, <2>12, <2>13, <2>14, <2>15, <2>16 DEF ImportStep
<1>2. CASE LockLapses
  BY <1>2 DEF LockLapses
<1>3. CASE UNCHANGED restoreTableVars
  BY <1>3 DEF restoreTableVars
<1>. QED  BY <1>1, <1>2, <1>3 DEF RestoreNext, ImportStep

\* No restore remembers the lease of another.
LEMMA OwnLockStep ==
  ASSUME RestoreTypeOK, Steady, OwnLock, [RestoreNext]_restoreTableVars
  PROVE  OwnLock'
<1>. USE RestoreAssumption DEF OwnLock, Moved
<1>1. ASSUME NEW n \in Imports, ImportStep(n) PROVE OwnLock'
  <2>1. CASE acquireLock(n)
    BY <2>1, AcquireMoves DEF acquireLock
  <2>2. CASE downloadArchive(n)
    BY <2>2, StepMoves DEF downloadArchive
  <2>3. CASE renewLock(n)
    BY <2>3, RenewMoves DEF renewLock
  <2>4. CASE importFails(n)
    BY <2>4, StepMoves DEF importFails
  <2>5. CASE resetRestoreArtifacts(n)
    BY <2>5, StepMoves DEF resetRestoreArtifacts
  <2>6. CASE readActiveLock(n)
    BY <2>6, ReadLockMoves DEF readActiveLock, Steady, HasLock, AskingD1, LockIsFree
  <2>7. CASE createShadowTables(n)
    BY <2>7, StepMoves DEF createShadowTables
  <2>8. CASE importVaultRows(n)
    BY <2>8, StepMoves DEF importVaultRows
  <2>9. CASE importFileRows(n)
    BY <2>9, StepMoves DEF importFileRows
  <2>10. CASE validateCounts(n)
    BY <2>10, StepMoves DEF validateCounts
  <2>11. CASE storeFiles(n)
    BY <2>11, StepMoves DEF storeFiles
  <2>12. CASE removeUnstorable(n)
    BY <2>12, StepMoves DEF removeUnstorable
  <2>13. CASE revalidateCounts(n)
    BY <2>13, StepMoves DEF revalidateCounts
  <2>14. CASE swapShadowTables(n)
    BY <2>14, StepMoves DEF swapShadowTables
  <2>15. CASE dropRestoreArtifacts(n)
    BY <2>15, StepMoves DEF dropRestoreArtifacts
  <2>16. CASE ImporterDies(n)
    BY <2>16, StepMoves DEF ImporterDies
  <2>. QED  BY <1>1, <2>1, <2>2, <2>3, <2>4, <2>5, <2>6, <2>7, <2>8, <2>9, <2>10, <2>11, <2>12, <2>13, <2>14, <2>15, <2>16 DEF ImportStep
<1>2. CASE LockLapses
  BY <1>2 DEF LockLapses
<1>3. CASE UNCHANGED restoreTableVars
  BY <1>3 DEF restoreTableVars
<1>. QED  BY <1>1, <1>2, <1>3 DEF RestoreNext, ImportStep

\* The owner finds in the tables what it put there.
LEMMA OwnerSeesStep ==
  ASSUME RestoreTypeOK, Steady, OwnLock, OwnerSees, [RestoreNext]_restoreTableVars
  PROVE  OwnerSees'
<1>. USE RestoreAssumption DEF Moved, HasLock, OwnerSees, OwnerFinds, At, Filled, Steady, AskingD1
<1>1. ASSUME NEW n \in Imports, ImportStep(n) PROVE OwnerSees'
  <2>1. CASE acquireLock(n)
    BY <2>1, AcquireMoves DEF acquireLock, LockIsFree
  <2>2. CASE downloadArchive(n)
    BY <2>2, StepMoves DEF downloadArchive
  <2>3. CASE renewLock(n)
    <3>1. CASE HasLock(n)
      <4>1. lockRow' = [token |-> n, lapsed |-> FALSE] /\ shadow' = shadow
        BY <3>1, <2>3 DEF renewLock, MayRenew
      <4>2. lockRow'.token = n /\ ~lockRow'.lapsed /\ lockRow' # Vacant
        BY <3>1, <4>1, RowIsNotVacant
      <4>3. Moved(n, importing[n].next, importing[n].next, importing[n].remembered)
        BY <3>1, <2>3, RenewMoves
      <4>4. importing[n].stage = "renew"
        BY <2>3 DEF renewLock
      <4>5. importing[n].next \in {"reset", "create", "insert", "store", "swap"}
        BY DEF RestoreTypeOK, Importing, ImportParts
      <4>. QED  BY <3>1, <4>1, <4>2, <4>3, <4>4, <4>5
    <3>2. CASE ~HasLock(n)
      BY <3>2, <2>3, RenewMoves DEF renewLock, MayRenew
    <3>. QED  BY <3>1, <3>2
  <2>4. CASE importFails(n)
    BY <2>4, StepMoves DEF importFails
  <2>5. CASE resetRestoreArtifacts(n)
    BY <2>5, StepMoves DEF resetRestoreArtifacts
  <2>6. CASE readActiveLock(n)
    BY <2>6, ReadLockMoves DEF readActiveLock
  <2>7. CASE createShadowTables(n)
    BY <2>7, StepMoves DEF createShadowTables
  <2>8. CASE importVaultRows(n)
    <3>1. HasLock(n)
      BY <2>8 DEF Steady, AskingD1, importVaultRows
    <3>2. ASSUME NEW m \in Imports, HasLock(m)' PROVE m = n
      BY <3>1, <3>2, <2>8 DEF HasLock, importVaultRows
    <3>3. shadow' = [EmptyTables EXCEPT !.vault = {n}]
      <4>1. shadow = EmptyTables /\ shadow' = [shadow EXCEPT !.vault = @ \cup {n}]
        BY <3>1, <2>8 DEF importVaultRows
      <4>2. {} \cup {n} = {n}
        OBVIOUS
      <4>. QED  BY <4>1, <4>2 DEF EmptyTables
    <3>4. Moved(n, "insertFiles", importing[n].next, importing[n].remembered)
      BY <2>8, StepMoves
    <3>. QED  BY <3>2, <3>3, <3>4
  <2>9. CASE importFileRows(n)
    <3>1. HasLock(n)
      BY <2>9 DEF Steady, AskingD1, importFileRows
    <3>2. ASSUME NEW m \in Imports, HasLock(m)' PROVE m = n
      BY <3>1, <3>2, <2>9 DEF HasLock, importFileRows
    <3>3. Filled(n)'
      <4>1. shadow = [vault |-> {n}, files |-> {}, unstorable |-> {}]
        BY <3>1, <2>9 DEF importFileRows, EmptyTables
      <4>2. PICK unstorable \in SUBSET {n} :
              shadow' = [shadow EXCEPT !.files = @ \cup {n}, !.unstorable = unstorable]
        <5>1. CASE importing[n].flawed
          BY <5>1, <4>1, <2>9 DEF importFileRows
        <5>2. CASE ~importing[n].flawed
          BY <5>2, <4>1, <2>9 DEF importFileRows
        <5>. QED  BY <5>1, <5>2
      <4>. QED  BY <4>1, <4>2
    <3>4. Moved(n, "count", importing[n].next, importing[n].remembered)
      BY <2>9, StepMoves
    <3>. QED  BY <3>2, <3>3, <3>4
  <2>10. CASE validateCounts(n)
    <3>1. Moved(n, "renew", "store", importing[n].remembered)
      BY <2>10, StepMoves
    <3>2. lockRow' = lockRow /\ shadow' = shadow /\ importing[n].stage = "count"
      BY <2>10 DEF validateCounts
    <3>. QED  BY <3>1, <3>2
  <2>11. CASE storeFiles(n)
    BY <2>11, StepMoves DEF storeFiles
  <2>12. CASE removeUnstorable(n)
    <3>1. Moved(n, "recount", importing[n].next, importing[n].remembered)
      BY <2>12, StepMoves
    <3>2. lockRow' = lockRow /\ importing[n].stage = "remove"
      BY <2>12 DEF removeUnstorable
    <3>3. CASE shadow' = shadow
      BY <3>1, <3>2, <3>3
    <3>4. CASE shadow' # shadow
      <4>1. /\ shadow # Vacant /\ shadow.unstorable # {}
            /\ shadow'.vault = shadow.vault /\ shadow'.files = shadow.files
            /\ shadow'.unstorable \subseteq shadow.unstorable
        BY <3>4, <2>12, RemovalOnlyRemoves
      <4>2. shadow # EmptyTables /\ \A m \in Imports : shadow # [EmptyTables EXCEPT !.vault = {m}]
        BY <4>1 DEF EmptyTables
      <4>. QED  BY <3>1, <3>2, <4>1, <4>2
    <3>. QED  BY <3>3, <3>4
  <2>13. CASE revalidateCounts(n)
    <3>1. Moved(n, "renew", "swap", importing[n].remembered)
      BY <2>13, StepMoves
    <3>2. /\ lockRow' = lockRow /\ shadow' = shadow /\ importing[n].stage = "recount"
          /\ shadow.unstorable = {}
      BY <2>13 DEF revalidateCounts, CountsFor
    <3>. QED  BY <3>1, <3>2
  <2>14. CASE swapShadowTables(n)
    BY <2>14, StepMoves DEF swapShadowTables, OwnLock
  <2>15. CASE dropRestoreArtifacts(n)
    BY <2>15, StepMoves DEF dropRestoreArtifacts, Without
  <2>16. CASE ImporterDies(n)
    BY <2>16, StepMoves DEF ImporterDies
  <2>. QED  BY <1>1, <2>1, <2>2, <2>3, <2>4, <2>5, <2>6, <2>7, <2>8, <2>9, <2>10, <2>11, <2>12, <2>13, <2>14, <2>15, <2>16 DEF ImportStep
<1>2. CASE LockLapses
  BY <1>2 DEF LockLapses
<1>3. CASE UNCHANGED restoreTableVars
  BY <1>3 DEF restoreTableVars
<1>. QED  BY <1>1, <1>2, <1>3 DEF RestoreNext, ImportStep

\* The switch takes one whole archive.
LEMMA WholeStep ==
  ASSUME RestoreTypeOK, Steady, OwnerSees, RestoresAreWhole, [RestoreNext]_restoreTableVars
  PROVE  RestoresAreWhole'
<1>. USE RestoreAssumption DEF RestoresAreWhole
<1>1. ASSUME NEW n \in Imports, ImportStep(n) PROVE RestoresAreWhole'
  <2>1. CASE acquireLock(n)
    BY <2>1, AcquireMoves DEF acquireLock
  <2>2. CASE downloadArchive(n)
    BY <2>2, StepMoves DEF downloadArchive
  <2>3. CASE renewLock(n)
    BY <2>3, RenewMoves DEF renewLock
  <2>4. CASE importFails(n)
    BY <2>4, StepMoves DEF importFails
  <2>5. CASE resetRestoreArtifacts(n)
    BY <2>5, StepMoves DEF resetRestoreArtifacts
  <2>6. CASE readActiveLock(n)
    BY <2>6, ReadLockMoves DEF readActiveLock
  <2>7. CASE createShadowTables(n)
    BY <2>7, StepMoves DEF createShadowTables
  <2>8. CASE importVaultRows(n)
    BY <2>8, StepMoves DEF importVaultRows
  <2>9. CASE importFileRows(n)
    BY <2>9, StepMoves DEF importFileRows
  <2>10. CASE validateCounts(n)
    BY <2>10, StepMoves DEF validateCounts
  <2>11. CASE storeFiles(n)
    BY <2>11, StepMoves DEF storeFiles
  <2>12. CASE removeUnstorable(n)
    BY <2>12, StepMoves DEF removeUnstorable
  <2>13. CASE revalidateCounts(n)
    BY <2>13, StepMoves DEF revalidateCounts
  <2>14. CASE swapShadowTables(n)
    <3>1. HasLock(n) /\ shadow # Vacant
      BY <2>14 DEF swapShadowTables, Steady, AskingD1
    <3>2. shadow.vault = {n} /\ shadow.files = {n} /\ shadow.unstorable = {}
      BY <3>1, <2>14 DEF swapShadowTables, OwnerSees, OwnerFinds, Filled
    <3>3. shadow = [vault |-> {n}, files |-> {n}, unstorable |-> {}]
      BY <3>1, <3>2 DEF RestoreTypeOK, Tables
    <3>. QED  BY <3>3, <2>14 DEF swapShadowTables
  <2>15. CASE dropRestoreArtifacts(n)
    BY <2>15, StepMoves DEF dropRestoreArtifacts
  <2>16. CASE ImporterDies(n)
    BY <2>16, StepMoves DEF ImporterDies
  <2>. QED  BY <1>1, <2>1, <2>2, <2>3, <2>4, <2>5, <2>6, <2>7, <2>8, <2>9, <2>10, <2>11, <2>12, <2>13, <2>14, <2>15, <2>16 DEF ImportStep
<1>2. CASE LockLapses
  BY <1>2 DEF LockLapses
<1>3. CASE UNCHANGED restoreTableVars
  BY <1>3 DEF restoreTableVars
<1>. QED  BY <1>1, <1>2, <1>3 DEF RestoreNext, ImportStep

-----------------------------------------------------------------------------

LEMMA RestoreInvInit == RestoreInit => RestoreInv
<1>1. RestoreInit => RestoreTypeOK
  <2>. SUFFICES ASSUME RestoreInit PROVE RestoreTypeOK
    OBVIOUS
  <2>1. Unbegun \in Importing
    BY RestoreAssumption DEF Unbegun, Importing, ImportStages, ImportParts
  <2>2. importing \in [Imports -> Importing]
    BY <2>1 DEF RestoreInit
  <2>3. EmptyTables \in Tables
    BY DEF EmptyTables, Tables
  <2>. QED  BY <2>2, <2>3 DEF RestoreInit, RestoreTypeOK
<1>2. RestoreInit => Steady /\ OwnLock /\ OwnerSees /\ RestoresAreWhole
  BY DEF RestoreInit, Unbegun, Steady, AskingD1, OwnLock, OwnerSees, HasLock, RestoresAreWhole
<1>. QED  BY <1>1, <1>2 DEF RestoreInv

LEMMA RestoreInvStep == RestoreInv /\ [RestoreNext]_restoreTableVars => RestoreInv'
BY RestoreTypeStep, SteadyStep, OwnLockStep, OwnerSeesStep, WholeStep DEF RestoreInv

\* The lease row, the tables and the restores keep their shapes.
THEOREM RestoreTypes == RestoreSpec => []RestoreTypeOK
<1>1. RestoreInv => RestoreTypeOK
  BY DEF RestoreInv
<1>. QED  BY <1>1, RestoreInvInit, RestoreInvStep, PTL DEF RestoreSpec

\* What a restore puts in the place of the live tables is its own archive,
\* whole, whatever restores that lost their lease do to the shadow tables
\* (importBackupArchiveBytes, swapShadowTablesIntoPlace).
THEOREM RestoresStayWhole == RestoreSpec => []RestoresAreWhole
<1>1. RestoreInv => RestoresAreWhole
  BY DEF RestoreInv
<1>. QED  BY <1>1, RestoreInvInit, RestoreInvStep, PTL DEF RestoreSpec
=============================================================================
