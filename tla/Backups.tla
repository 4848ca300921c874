------------------------------ MODULE Backups ------------------------------
(***************************************************************************)
(* Backups on remote destinations.  Scheduled and manual runs, and changes *)
(* of the settings, are operations under one lease.  The settings are one  *)
(* row, the administrator's choices and what the runs did together; an     *)
(* operation loads it once and writes back the copy it changed, so that    *)
(* only the lease keeps one operation from undoing another.  A run         *)
(* uploads an archive, downloads and verifies it, and then deletes what    *)
(* the retention count leaves no place for.                                *)
(*                                                                         *)
(* A remote call fails, or takes so long that the lease lapses; a Worker   *)
(* dies at any step.  An operation's number is its lease's token and the   *)
(* name of its archive.  Time is in hours, and every hour is a slot of     *)
(* every schedule.  Archives an administrator deletes, and destinations    *)
(* that come and go, are left out.                                         *)
(***************************************************************************)
EXTENDS Integers, FiniteSets, Sequences

CONSTANTS Operations,      \* bound: 1..Operations are the operations
          MaxHour,         \* bound: the clock
          Destinations,    \* the configured destinations
          RetentionCounts, \* bound: the counts an administrator chooses
          Unset            \* null in the settings, and no lease

ASSUME BackupsAssumption ==
  /\ Operations \in Nat
  /\ MaxHour \in Nat
  /\ Unset \notin Int \cup [token : Int, lapsed : BOOLEAN]
  \* A count is at least 1, and null keeps everything.
  /\ RetentionCounts \subseteq (Nat \ {0}) \cup {Unset}

VARIABLES
  hour,
  settings,  \* config: backup.settings.v1
  lease,     \* config: backup.runner.lock.v1
  archives,  \* each destination's archives, in the order of their upload
  runs,      \* the operations in flight
  verified,  \* history: destinations where some archive was verified
  astray     \* history: has a failed run gone on with no lease in force?

backupVars ==
  <<hour, settings, lease, archives, runs, verified, astray>>

OperationIds == 1..Operations
Hours == 0..MaxHour
NoAttempt == -1

DestinationRecord ==
  [edition : 0..Operations, enabled : BOOLEAN, retention : RetentionCounts,
   attempt : Hours \cup {NoAttempt}, uploaded : OperationIds \cup {Unset}]
BackupSettings == [Destinations -> DestinationRecord]

FirstSettings(enabled, retention) ==
  [d \in Destinations |-> [edition |-> 0, enabled |-> enabled,
     retention |-> retention, attempt |-> NoAttempt, uploaded |-> Unset]]

\* Between a run's remote calls there is a renewal of its lease; until the
\* renewal it is what the call made of it.
Stages == {"waiting", "load", "change", "next", "build", "built", "upload",
           "uploaded", "verify", "checked", "list", "prune", "pruned",
           "record", "failed", "reloaded", "over"}

NoRun == [stage |-> "waiting", kind |-> "scheduled", copy |-> Unset, at |-> 0,
          todo |-> {}, destination |-> Unset, doomed |-> {}]

Archive == [run : OperationIds, intact : BOOLEAN]

RunRecord ==
  [stage : Stages, kind : {"scheduled", "manual", "settings"},
   copy : BackupSettings \cup {Unset}, at : Hours, todo : SUBSET Destinations,
   destination : Destinations \cup {Unset}, doomed : SUBSET OperationIds]

\* Invariant: the settings, the lease, the remote files and the operations
\* have the shapes the code gives them.
BackupsTypeOK ==
  /\ hour \in Hours
  /\ settings \in BackupSettings
  /\ lease \in {Unset} \cup [token : OperationIds, lapsed : BOOLEAN]
  /\ archives \in [Destinations -> Seq(Archive)]
  /\ runs \in [OperationIds -> RunRecord]
  /\ verified \subseteq Destinations
  /\ astray \in BOOLEAN

BackupsInit ==
  /\ hour = 0
  /\ settings \in {FirstSettings(enabled, retention) :
                     enabled \in BOOLEAN, retention \in RetentionCounts}
  /\ lease = Unset
  /\ archives = [d \in Destinations |-> <<>>]
  /\ runs = [r \in OperationIds |-> NoRun]
  /\ verified = {}
  /\ astray = FALSE

-----------------------------------------------------------------------------
(* The lease. *)

\* Deviation: a lease is taken whoever holds it.
LeaseIsFreeAnyway == TRUE

LeaseIsFree == lease # Unset => lease.lapsed
Holds(r) == lease # Unset /\ lease.token = r
InForce(r) == Holds(r) /\ ~lease.lapsed

GoesTo(r, stage) == runs' = [runs EXCEPT ![r].stage = stage]

\* The operation is answered, and gives back the lease if it still has it.
IsOver(r) ==
  /\ runs' = [runs EXCEPT ![r] = [NoRun EXCEPT !.stage = "over"]]
  /\ lease' = IF Holds(r) THEN Unset ELSE lease

\* One that finds the lease taken is answered at once and leaves no trace.
acquireDataOperationLease(r) ==
  /\ runs[r].stage = "waiting"
  /\ r > 1 => runs[r - 1].stage # "waiting"
  /\ LeaseIsFree
  /\ lease' = [token |-> r, lapsed |-> FALSE]
  /\ \E kind \in {"scheduled", "manual", "settings"} :
       runs' = [runs EXCEPT ![r].stage = "load", ![r].kind = kind]
  /\ UNCHANGED <<hour, settings, archives, verified, astray>>

AfterRenewal(stage) ==
  CASE stage = "built" -> "upload"
    [] stage = "uploaded" -> "verify"
    [] stage = "checked" -> "list"
    [] stage = "pruned" -> "record"

\* A run that lost the lease ends here; one that let it lapse goes on if
\* nobody has taken it.
requireDataOperationLeaseRenewal(r) ==
  /\ runs[r].stage \in {"built", "uploaded", "checked", "pruned"}
  /\ IF Holds(r)
       THEN /\ lease' = [lease EXCEPT !.lapsed = FALSE]
            /\ GoesTo(r, AfterRenewal(runs[r].stage))
       ELSE IsOver(r)
  /\ UNCHANGED <<hour, settings, archives, verified, astray>>

-----------------------------------------------------------------------------
(* The settings. *)

\* isBackupDueNow, for the hour the run began in.
Due(d, copy, at) == copy[d].enabled /\ copy[d].attempt < at

Begins(r, todo) ==
  runs' = [runs EXCEPT ![r].stage = "next", ![r].copy = settings,
                       ![r].at = hour', ![r].todo = todo]

\* Time has passed when an operation looks at the clock.
loadBackupSettings(r) ==
  /\ runs[r].stage = "load"
  /\ hour' \in hour..MaxHour
  /\ \/ /\ runs[r].kind = "scheduled"
        /\ Begins(r, {d \in Destinations : Due(d, settings, hour')})
     \/ /\ runs[r].kind = "manual"
        /\ \E d \in Destinations : Begins(r, {d})
     \/ /\ runs[r].kind = "settings"
        /\ runs' = [runs EXCEPT ![r].stage = "change", ![r].copy = settings]
  /\ UNCHANGED <<settings, lease, archives, verified, astray>>

\* Deviation: what the runs did is not carried over.
RuntimeDropped(r, d) == [attempt |-> Unset, uploaded |-> Unset]

\* What the runs did is kept from the settings there were.
Runtime(r, d) == runs[r].copy[d]

updateBackupSettings(r) ==
  /\ runs[r].stage = "change"
  /\ \E enabled \in BOOLEAN, retention \in RetentionCounts :
       settings' = [d \in Destinations |->
         [edition |-> r, enabled |-> enabled, retention |-> retention,
          attempt |-> Runtime(r, d).attempt,
          uploaded |-> Runtime(r, d).uploaded]]
  /\ IsOver(r)
  /\ UNCHANGED <<hour, archives, verified, astray>>

-----------------------------------------------------------------------------
(* A run. *)

\* The attempt is written down before it is made.
beginAttempt(r) ==
  /\ runs[r].stage = "next"
  /\ \E d \in runs[r].todo :
       LET copy == [runs[r].copy EXCEPT ![d].attempt = runs[r].at]
       IN  \E saved \in BOOLEAN :
             /\ settings' = IF saved THEN copy ELSE settings
             /\ runs' = [runs EXCEPT
                  ![r].stage = IF saved THEN "build" ELSE "failed",
                  ![r].copy = copy, ![r].destination = d, ![r].todo = @ \ {d}]
  /\ UNCHANGED <<hour, lease, archives, verified, astray>>

endRun(r) ==
  /\ runs[r].stage = "next"
  /\ runs[r].todo = {}
  /\ IsOver(r)
  /\ UNCHANGED <<hour, settings, archives, verified, astray>>

buildBackupArchive(r) ==
  /\ runs[r].stage = "build"
  /\ \E stage \in {"built", "failed"} : GoesTo(r, stage)
  /\ UNCHANGED <<hour, settings, lease, archives, verified, astray>>

\* The file is stored or not, whole or not, whatever the call answers.
uploadArchive(r) ==
  LET d == runs[r].destination
  IN  /\ runs[r].stage = "upload"
      /\ \E stage \in {"uploaded", "failed"} :
           /\ GoesTo(r, stage)
           /\ \/ \E intact \in BOOLEAN :
                   archives' = [archives EXCEPT
                     ![d] = Append(@, [run |-> r, intact |-> intact])]
              \/ stage = "failed" /\ UNCHANGED archives
      /\ UNCHANGED <<hour, settings, lease, verified, astray>>

Files(d) == {archives[d][i] : i \in DOMAIN archives[d]}

\* Deviation: the archive is not looked at again.
TakenAsIntact(r) == TRUE

\* assertBackupArchiveIntegrity of what is downloaded.
IsIntact(r) == [run |-> r, intact |-> TRUE] \in Files(runs[r].destination)

verifyArchive(r) ==
  /\ runs[r].stage = "verify"
  /\ \/ /\ IsIntact(r)
        /\ GoesTo(r, "checked")
        /\ verified' = verified \cup {runs[r].destination}
     \/ GoesTo(r, "failed") /\ UNCHANGED verified
  /\ UNCHANGED <<hour, settings, lease, archives, astray>>

\* compareBackupItemsByRecency: what comes before the i-th archive, the run's
\* own first and then the newest.
Before(r, d, i) ==
  {j \in DOMAIN archives[d] :
     archives[d][i].run # r /\ (j > i \/ archives[d][j].run = r)}

BeyondRetention(r, d, count) ==
  {archives[d][i].run :
     i \in {j \in DOMAIN archives[d] : Cardinality(Before(r, d, j)) >= count}}

listArchives(r) ==
  LET d == runs[r].destination
      count == runs[r].copy[d].retention
  IN  /\ runs[r].stage = "list"
      /\ \/ /\ count = Unset
            /\ GoesTo(r, "pruned")
         \/ /\ count # Unset
            /\ runs' = [runs EXCEPT ![r].stage = "prune",
                         ![r].doomed = BeyondRetention(r, d, count)]
         \/ count # Unset /\ GoesTo(r, "failed")
      /\ UNCHANGED <<hour, settings, lease, archives, verified, astray>>

Place(d, run) == CHOOSE i \in DOMAIN archives[d] : archives[d][i].run = run

Removed(d, run) ==
  LET i == Place(d, run)
  IN  [archives EXCEPT ![d] = SubSeq(@, 1, i - 1) \o SubSeq(@, i + 1, Len(@))]

pruneRemoteBackupArchives(r) ==
  LET d == runs[r].destination
  IN  /\ runs[r].stage = "prune"
      /\ \/ \E run \in runs[r].doomed :
              /\ archives' = Removed(d, run)
              /\ runs' = [runs EXCEPT ![r].doomed = @ \ {run}]
         \/ /\ runs[r].doomed = {}
            /\ GoesTo(r, "pruned")
            /\ UNCHANGED archives
         \/ /\ runs[r].doomed # {}
            /\ runs' = [runs EXCEPT ![r].stage = "failed", ![r].doomed = {}]
            /\ UNCHANGED archives
      /\ UNCHANGED <<hour, settings, lease, verified, astray>>

recordSuccess(r) ==
  LET copy == [runs[r].copy EXCEPT ![runs[r].destination].uploaded = r]
  IN  /\ runs[r].stage = "record"
      /\ \/ /\ settings' = copy
            /\ runs' = [runs EXCEPT ![r].stage = "next", ![r].copy = copy,
                                    ![r].destination = Unset]
         \/ /\ runs' = [runs EXCEPT ![r].stage = "failed", ![r].copy = copy]
            /\ UNCHANGED settings
      /\ UNCHANGED <<hour, lease, archives, verified, astray>>

\* A scheduled run writes back its copy with the error, lease or no lease, and
\* goes on to its next destination; a manual one loads the settings again and
\* adds the error to those.  Either save may fail.
recordFailure(r) ==
  /\ runs[r].stage = "failed"
  /\ \/ /\ runs[r].kind = "scheduled"
        /\ settings' = runs[r].copy \/ UNCHANGED settings
        /\ runs' = [runs EXCEPT ![r].stage = "next", ![r].destination = Unset]
     \/ /\ runs[r].kind = "manual"
        /\ runs' = [runs EXCEPT ![r].stage = "reloaded", ![r].copy = settings]
        /\ UNCHANGED settings
  /\ astray' = (astray \/ ~InForce(r))
  /\ UNCHANGED <<hour, lease, archives, verified>>

recordManualFailure(r) ==
  /\ runs[r].stage = "reloaded"
  /\ settings' = runs[r].copy \/ UNCHANGED settings
  /\ IsOver(r)
  /\ UNCHANGED <<hour, archives, verified, astray>>

-----------------------------------------------------------------------------
(* What happens to an operation, and next to it. *)

\* The lease of a dead run lapses, or that of one whose build, upload or
\* download takes long.  The few requests a pruning makes are over before the
\* half hour the renewal ahead of it gives.
LeaseLapses ==
  /\ lease # Unset /\ ~lease.lapsed
  /\ runs[lease.token].stage \in {"build", "upload", "verify", "over"}
  /\ lease' = [lease EXCEPT !.lapsed = TRUE]
  /\ UNCHANGED <<hour, settings, archives, runs, verified, astray>>

Dies(r) ==
  /\ runs[r].stage \notin {"waiting", "over"}
  /\ runs' = [runs EXCEPT ![r] = [NoRun EXCEPT !.stage = "over"]]
  /\ UNCHANGED <<hour, settings, lease, archives, verified, astray>>

BackupsNext ==
  \/ \E r \in OperationIds :
       \/ acquireDataOperationLease(r) \/ requireDataOperationLeaseRenewal(r)
       \/ loadBackupSettings(r) \/ updateBackupSettings(r)
       \/ beginAttempt(r) \/ endRun(r) \/ buildBackupArchive(r)
       \/ uploadArchive(r) \/ verifyArchive(r) \/ listArchives(r)
       \/ pruneRemoteBackupArchives(r) \/ recordSuccess(r)
       \/ recordFailure(r) \/ recordManualFailure(r)
       \/ Dies(r)
  \/ LeaseLapses

BackupsSpec == BackupsInit /\ [][BackupsNext]_backupVars

-----------------------------------------------------------------------------
(* Properties. *)

\* Invariant: once an archive was verified at a destination there is always a
\* whole one: no crash, no failed upload, download or deletion, and no change
\* of the retention count makes the pruning delete the last good archive.
VerifiedBackupsSurvive ==
  \A d \in verified : \E a \in Files(d) : a.intact

SaveGoesForward ==
  \A d \in Destinations :
    /\ settings'[d].edition >= settings[d].edition
    /\ settings'[d].attempt >= settings[d].attempt
    /\ \A r \in OperationIds :
         /\ runs[r].kind = "scheduled" /\ runs[r].stage = "next"
         /\ runs'[r].stage = "build" /\ runs'[r].destination = d
         => settings'[d].attempt > settings[d].attempt

\* Action property: unless a failed run goes on with no lease in force, writing
\* back a whole copy of the settings undoes neither an administrator's change
\* nor the memory of an attempt, and a scheduled run attempts an hour's backup
\* that nobody has attempted (saveBackupSettings, isBackupDueNow).
SavesGoForward == [][astray' \/ SaveGoesForward]_backupVars
=============================================================================
