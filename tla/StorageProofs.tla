--------------------------- MODULE StorageProofs ----------------------------
(***************************************************************************)
(* What is proved of Backups, of SendAccess, and of what Storage puts side *)
(* by side.                                                                *)
(*                                                                         *)
(* Backups: types; that a verified archive is always followed by a whole   *)
(* one; that saves go forward.  The argument is about the lease.  Leases   *)
(* are taken in turn, so whoever holds one is the latest operation; where  *)
(* a run deletes archives or writes settings down after a renewal, its     *)
(* lease is in force (LeaseIsSure).  So nobody deletes the archive a       *)
(* pruning run has verified, and that run spares its own                   *)
(* (OwnArchiveStands); and nobody saves between the loading of a copy and  *)
(* its saving, so the copy differs from the settings by what the run did   *)
(* (CopyIsCurrent).                                                        *)
(*                                                                         *)
(* SendAccess: the columns' types, and that a Send's count is the number   *)
(* of visits let in and stays within the maximum, for any finite set of    *)
(* visitors, any number of the owner's requests and any maximum.  The      *)
(* invariant is inductive with the types: the one statement that counts    *)
(* tests the row it writes.                                                *)
(***************************************************************************)
EXTENDS Storage, BlobLifecycleProofs, RestoreProofs, SequenceTheorems,
        FiniteSetTheorems, TLAPS

(* Backups: the invariant. *)

Started(r) == runs[r].stage # "waiting"

\* Leases are taken in turn: whoever has one is the latest to have had one.
InTurn ==
  /\ \A r, s \in OperationIds : Started(r) /\ s <= r => Started(s)
  /\ lease # Unset => \A r \in OperationIds : Started(r) <=> r <= lease.token

\* Where the lease cannot have lapsed, or only with a failed run going on.
LeaseIsSure ==
  \A r \in OperationIds :
    \/ runs[r].stage \in {"load", "change", "list", "prune", "pruned", "record"}
    \/ runs[r].stage \in {"next", "reloaded"} /\ ~astray
    => InForce(r)

HasCopy(r) == runs[r].stage \notin {"waiting", "load", "over"}

\* What an operation at work has read.
AtHand ==
  \A r \in OperationIds :
    /\ HasCopy(r) => runs[r].copy \in BackupSettings
    /\ runs[r].stage \notin {"waiting", "load", "change", "next", "reloaded", "over"} =>
         runs[r].destination \in Destinations

Verified(r) == [run |-> r, intact |-> TRUE] \in Files(runs[r].destination)

\* A run with the lease that has verified its archive finds it where it was,
\* and means to delete only others'.
OwnArchiveStands ==
  \A r \in OperationIds :
    /\ runs[r].stage = "checked" /\ Holds(r) => Verified(r)
    /\ runs[r].stage = "list" => Verified(r)
    /\ runs[r].stage = "prune" =>
         /\ Verified(r)
         /\ r \notin runs[r].doomed
         /\ \A run \in runs[r].doomed :
              \E a \in Files(runs[r].destination) : a.run = run

\* Settings were written by operations that have begun, at times gone by.
Known(copy) ==
  \A d \in Destinations :
    /\ \A r \in OperationIds : copy[d].edition = r => Started(r)
    /\ copy[d].attempt <= hour

InThePast ==
  /\ Known(settings)
  /\ \A r \in OperationIds : runs[r].at <= hour /\ (HasCopy(r) => Known(runs[r].copy))

\* A destination still to be served was not attempted in the hour of the run.
StillToDo ==
  \A r \in OperationIds :
    HasCopy(r) /\ runs[r].stage \notin {"change", "reloaded"} =>
      \A d \in runs[r].todo :
        /\ runs[r].copy[d].attempt <= runs[r].at
        /\ runs[r].kind = "scheduled" => runs[r].copy[d].attempt < runs[r].at

\* The copy of whoever holds the lease is the settings, but for what the run
\* did itself and could not save.
CopyIsCurrent ==
  ~astray =>
    \A r \in OperationIds :
      Holds(r) /\ HasCopy(r) =>
        \A d \in Destinations :
          /\ runs[r].copy[d].edition = settings[d].edition
          /\ runs[r].copy[d].attempt >= settings[d].attempt

TypesInv == BackupsTypeOK /\ AtHand

USE DEF BackupsTypeOK, AtHand, TypesInv, HasCopy
-----------------------------------------------------------------------------
(* Backups: numbers, records, and what each action makes of its operation. *)

LEMMA BNumbers ==
  /\ \A n \in OperationIds : n \in Int /\ n >= 1
  /\ \A n \in Hours : n \in Int
  /\ 0 \in Hours
BY BackupsAssumption DEF OperationIds, Hours

LEMMA UnsetIsOther ==
  \A t \in OperationIds, b \in BOOLEAN : [token |-> t, lapsed |-> b] # Unset
BY BackupsAssumption, BNumbers

LEMMA NoRunTyped == [NoRun EXCEPT !.stage = "over"] \in RunRecord
BY BNumbers DEF NoRun, RunRecord, Stages

LEMMA OverTyped ==
  ASSUME TypesInv, NEW r \in OperationIds, IsOver(r)
  PROVE  /\ runs' \in [OperationIds -> RunRecord]
         /\ lease' \in {Unset} \cup [token : OperationIds, lapsed : BOOLEAN]
         /\ runs'[r].stage = "over" /\ runs'[r].at = 0
         /\ \A s \in OperationIds : s # r => runs'[s] = runs[s]
<1>1. runs' = [runs EXCEPT ![r] = [NoRun EXCEPT !.stage = "over"]]
  BY DEF IsOver
<1>2. lease' = lease \/ lease' = Unset
  BY DEF IsOver
<1>3. [NoRun EXCEPT !.stage = "over"].stage = "over" /\ [NoRun EXCEPT !.stage = "over"].at = 0
  BY DEF NoRun
<1>. QED  BY <1>1, <1>2, <1>3, NoRunTyped

LEMMA StageTyped ==
  ASSUME TypesInv, NEW r \in OperationIds, NEW stage \in Stages, GoesTo(r, stage)
  PROVE  /\ runs' \in [OperationIds -> RunRecord]
         /\ runs'[r] = [runs[r] EXCEPT !.stage = stage]
         /\ \A s \in OperationIds : s # r => runs'[s] = runs[s]
<1>. DEFINE y == [runs[r] EXCEPT !.stage = stage]
<1>1. runs[r] \in RunRecord /\ runs' = [runs EXCEPT ![r] = y]
  BY DEF GoesTo
<1>2. y \in RunRecord
  BY <1>1 DEF RunRecord
<1>3. y = [runs[r] EXCEPT !.stage = stage]
  OBVIOUS
<1>. HIDE DEF y
<1>. QED  BY <1>1, <1>2, <1>3

LEMMA FirstTyped ==
  ASSUME NEW enabled \in BOOLEAN, NEW retention \in RetentionCounts
  PROVE  FirstSettings(enabled, retention) \in BackupSettings
BY BackupsAssumption DEF FirstSettings, BackupSettings, DestinationRecord, NoAttempt

LEMMA TypesInit == BackupsInit => TypesInv
<1>. SUFFICES ASSUME BackupsInit PROVE TypesInv
  OBVIOUS
<1>1. settings \in BackupSettings
  BY FirstTyped DEF BackupsInit
<1>2. NoRun \in RunRecord
  BY BNumbers DEF NoRun, RunRecord, Stages
<1>3. \A r \in OperationIds : runs[r].stage = "waiting"
  BY DEF BackupsInit, NoRun
<1>4. <<>> \in Seq(Archive)
  OBVIOUS
<1>. QED  BY <1>1, <1>2, <1>3, <1>4, BNumbers DEF BackupsInit

\* What a step of one operation leaves alone.
Own(r) == \A s \in OperationIds : s # r => runs'[s] = runs[s]

LEMMA WriteTyped ==
  ASSUME TypesInv, NEW r \in OperationIds, NEW x \in RunRecord,
         runs' = [runs EXCEPT ![r] = x]
  PROVE  runs' \in [OperationIds -> RunRecord] /\ runs'[r] = x /\ Own(r)
BY DEF Own

LEMMA AcquireEffect ==
  ASSUME TypesInv, NEW r \in OperationIds, acquireDataOperationLease(r)
  PROVE  /\ runs' \in [OperationIds -> RunRecord] /\ Own(r)
         /\ runs'[r].stage = "load" /\ runs'[r].at = runs[r].at
         /\ lease' = [token |-> r, lapsed |-> FALSE] /\ lease' # Unset
<1>1. PICK kind \in {"scheduled", "manual", "settings"} :
        runs' = [runs EXCEPT ![r].stage = "load", ![r].kind = kind]
  BY DEF acquireDataOperationLease
<1>. DEFINE x == [runs[r] EXCEPT !.stage = "load", !.kind = kind]
<1>2. runs' = [runs EXCEPT ![r] = x]
  BY <1>1
<1>3. x \in RunRecord /\ x.stage = "load" /\ x.at = runs[r].at
  <2>. runs[r] \in RunRecord /\ "load" \in Stages /\ "next" \in Stages
    BY DEF Stages
  <2>. QED  BY DEF RunRecord
<1>. HIDE DEF x
<1>. QED  BY <1>2, <1>3, WriteTyped, UnsetIsOther DEF acquireDataOperationLease

LEMMA BeginsEffect ==
  ASSUME TypesInv, NEW r \in OperationIds, NEW todo \in SUBSET Destinations, hour' \in Hours,
         Begins(r, todo)
  PROVE  /\ runs' \in [OperationIds -> RunRecord] /\ Own(r)
         /\ runs'[r].stage = "next" /\ runs'[r].copy = settings /\ runs'[r].at = hour'
         /\ runs'[r].todo = todo /\ runs'[r].kind = runs[r].kind
<1>. DEFINE x == [runs[r] EXCEPT !.stage = "next", !.copy = settings, !.at = hour',
                                 !.todo = todo]
<1>2. runs' = [runs EXCEPT ![r] = x]
  BY DEF Begins
<1>3. x \in RunRecord /\ x.stage = "next" /\ x.copy = settings /\ x.at = hour' /\ x.todo = todo
      /\ x.kind = runs[r].kind
  <2>. runs[r] \in RunRecord /\ "next" \in Stages
    BY DEF Stages
  <2>. QED  BY DEF RunRecord
<1>. HIDE DEF x
<1>. QED  BY <1>2, <1>3, WriteTyped

LEMMA LoadEffect ==
  ASSUME TypesInv, NEW r \in OperationIds, loadBackupSettings(r)
  PROVE  /\ runs' \in [OperationIds -> RunRecord] /\ Own(r)
         /\ hour' \in Hours /\ hour' >= hour
         /\ runs'[r].stage \in {"next", "change"} /\ runs'[r].copy = settings
         /\ runs'[r].at \in {hour', runs[r].at}
         /\ runs'[r].stage = "next" =>
              /\ runs'[r].at = hour' /\ runs'[r].kind = runs[r].kind
              /\ runs'[r].kind = "scheduled" =>
                   runs'[r].todo = {d \in Destinations : Due(d, settings, hour')}
<1>0. hour' \in Hours /\ hour' >= hour /\ runs[r].stage = "load"
  BY BackupsAssumption DEF loadBackupSettings, Hours
<1>1. CASE runs[r].kind = "scheduled"
  <2>1. Begins(r, {d \in Destinations : Due(d, settings, hour')})
    BY <1>1 DEF loadBackupSettings
  <2>. QED  BY <1>0, <2>1, BeginsEffect
<1>2. CASE runs[r].kind = "manual"
  <2>1. PICK d \in Destinations : Begins(r, {d})
    BY <1>2 DEF loadBackupSettings
  <2>. QED  BY <1>0, <1>2, <2>1, BeginsEffect
<1>3. CASE runs[r].kind = "settings"
  <2>1. runs' = [runs EXCEPT ![r].stage = "change", ![r].copy = settings]
    BY <1>3 DEF loadBackupSettings
  <2>. DEFINE x == [runs[r] EXCEPT !.stage = "change", !.copy = settings]
  <2>2. runs' = [runs EXCEPT ![r] = x]
    BY <2>1
  <2>3. x \in RunRecord /\ x.stage = "change" /\ x.copy = settings /\ x.at = runs[r].at
    <3>. runs[r] \in RunRecord /\ "change" \in Stages
      BY DEF Stages
    <3>. QED  BY DEF RunRecord
  <2>. HIDE DEF x
  <2>. QED  BY <1>0, <2>2, <2>3, WriteTyped
<1>. QED  BY <1>1, <1>2, <1>3 DEF RunRecord

\* What an operation keeps when it only goes to another stage.
Keeps(r) ==
  /\ runs'[r].kind = runs[r].kind /\ runs'[r].copy = runs[r].copy
  /\ runs'[r].at = runs[r].at /\ runs'[r].todo = runs[r].todo

LEMMA GoesEffect ==
  ASSUME TypesInv, NEW r \in OperationIds, NEW stage \in Stages, GoesTo(r, stage)
  PROVE  /\ runs' \in [OperationIds -> RunRecord] /\ Own(r) /\ Keeps(r)
         /\ runs'[r].stage = stage /\ runs'[r].destination = runs[r].destination
         /\ runs'[r].doomed = runs[r].doomed
<1>1. runs[r] \in RunRecord
  OBVIOUS
<1>2. LET y == [runs[r] EXCEPT !.stage = stage]
      IN  /\ y.kind = runs[r].kind /\ y.copy = runs[r].copy /\ y.at = runs[r].at
          /\ y.todo = runs[r].todo /\ y.stage = stage
          /\ y.destination = runs[r].destination /\ y.doomed = runs[r].doomed
  BY <1>1 DEF RunRecord
<1>. QED  BY <1>2, StageTyped DEF Keeps, Own

LEMMA RenewalEffect ==
  ASSUME TypesInv, NEW r \in OperationIds, requireDataOperationLeaseRenewal(r)
  PROVE  /\ runs[r].stage \in {"built", "uploaded", "checked", "pruned"}
         /\ UNCHANGED <<hour, settings, archives, verified, astray>>
         /\ \/ /\ Holds(r) /\ lease' = [lease EXCEPT !.lapsed = FALSE]
               /\ GoesTo(r, AfterRenewal(runs[r].stage))
               /\ AfterRenewal(runs[r].stage) \in {"upload", "verify", "list", "record"}
               /\ AfterRenewal(runs[r].stage) = "list" => runs[r].stage = "checked"
            \/ ~Holds(r) /\ IsOver(r)
BY DEF requireDataOperationLeaseRenewal, AfterRenewal

LEMMA LeaseRenewed ==
  ASSUME TypesInv, NEW r \in OperationIds, Holds(r), lease' = [lease EXCEPT !.lapsed = FALSE]
  PROVE  lease' = [token |-> r, lapsed |-> FALSE] /\ lease' # Unset
<1>1. lease \in [token : OperationIds, lapsed : BOOLEAN] /\ lease.token = r
  BY DEF Holds
<1>. QED  BY <1>1, UnsetIsOther

LEMMA BeginEffect ==
  ASSUME TypesInv, NEW r \in OperationIds, beginAttempt(r)
  PROVE  /\ runs' \in [OperationIds -> RunRecord] /\ Own(r)
         /\ runs[r].stage = "next" /\ runs[r].copy \in BackupSettings
         /\ runs'[r].kind = runs[r].kind /\ runs'[r].at = runs[r].at
         /\ \E d \in Destinations :
              /\ d \in runs[r].todo /\ runs'[r].destination = d
              /\ runs'[r].todo = runs[r].todo \ {d}
              /\ runs'[r].copy = [runs[r].copy EXCEPT ![d].attempt = runs[r].at]
              /\ runs'[r].copy \in BackupSettings
         /\ \/ runs'[r].stage = "build" /\ settings' = runs'[r].copy
            \/ runs'[r].stage = "failed" /\ settings' = settings
         /\ UNCHANGED <<hour, lease, archives, verified, astray>>
<1>0. runs[r] \in RunRecord /\ runs[r].stage = "next" /\ runs[r].copy \in BackupSettings
  BY DEF beginAttempt
<1>1. PICK d \in runs[r].todo, saved \in BOOLEAN :
        LET copy == [runs[r].copy EXCEPT ![d].attempt = runs[r].at]
        IN  /\ settings' = IF saved THEN copy ELSE settings
            /\ runs' = [runs EXCEPT
                 ![r].stage = IF saved THEN "build" ELSE "failed",
                 ![r].copy = copy, ![r].destination = d, ![r].todo = @ \ {d}]
  BY DEF beginAttempt
<1>. DEFINE copy == [runs[r].copy EXCEPT ![d].attempt = runs[r].at]
            stage == IF saved THEN "build" ELSE "failed"
            x == [runs[r] EXCEPT !.stage = stage, !.copy = copy, !.destination = d,
                                 !.todo = runs[r].todo \ {d}]
<1>2. d \in Destinations /\ runs[r].at \in Hours
  BY <1>0, <1>1 DEF RunRecord
<1>3. copy \in BackupSettings
  BY <1>0, <1>2 DEF BackupSettings, DestinationRecord
<1>4. runs' = [runs EXCEPT ![r] = x]
  BY <1>1
<1>5. stage \in {"build", "failed"} /\ stage \in Stages
  BY DEF Stages
<1>. HIDE DEF copy, stage
<1>6. /\ x \in RunRecord /\ x.stage = stage /\ x.kind = runs[r].kind /\ x.at = runs[r].at
      /\ x.destination = d /\ x.todo = runs[r].todo \ {d} /\ x.copy = copy
  BY <1>0, <1>1, <1>2, <1>3, <1>5 DEF RunRecord
<1>. HIDE DEF x
<1>7. runs'[r] = x /\ runs' \in [OperationIds -> RunRecord] /\ Own(r)
  BY <1>4, <1>6, WriteTyped
<1>8. \/ stage = "build" /\ settings' = copy
      \/ stage = "failed" /\ settings' = settings
  BY <1>1 DEF stage, copy
<1>9. UNCHANGED <<hour, lease, archives, verified, astray>>
  BY DEF beginAttempt
<1>. QED  BY <1>0, <1>1, <1>2, <1>3, <1>6, <1>7, <1>8, <1>9 DEF copy

LEMMA RecordEffect ==
  ASSUME TypesInv, NEW r \in OperationIds, recordSuccess(r)
  PROVE  /\ runs' \in [OperationIds -> RunRecord] /\ Own(r)
         /\ runs[r].stage = "record" /\ runs[r].copy \in BackupSettings
         /\ runs'[r].kind = runs[r].kind /\ runs'[r].at = runs[r].at
         /\ runs'[r].todo = runs[r].todo
         /\ runs'[r].copy \in BackupSettings
         /\ \A d \in Destinations : /\ runs'[r].copy[d].edition = runs[r].copy[d].edition
                                    /\ runs'[r].copy[d].attempt = runs[r].copy[d].attempt
         /\ \/ runs'[r].stage = "next" /\ settings' = runs'[r].copy
            \/ /\ runs'[r].stage = "failed" /\ settings' = settings
               /\ runs'[r].destination \in Destinations
         /\ UNCHANGED <<hour, lease, archives, verified, astray>>
<1>0. /\ runs[r] \in RunRecord /\ runs[r].stage = "record" /\ runs[r].copy \in BackupSettings
      /\ runs[r].destination \in Destinations
      /\ UNCHANGED <<hour, lease, archives, verified, astray>>
  BY DEF recordSuccess
<1>. DEFINE copy == [runs[r].copy EXCEPT ![runs[r].destination].uploaded = r]
            x == [runs[r] EXCEPT !.stage = "next", !.copy = copy, !.destination = Unset]
            y == [runs[r] EXCEPT !.stage = "failed", !.copy = copy]
<1>1. /\ copy \in BackupSettings
      /\ \A d \in Destinations : /\ copy[d].edition = runs[r].copy[d].edition
                                 /\ copy[d].attempt = runs[r].copy[d].attempt
  <2>. DEFINE c == runs[r].copy
              e == [c[runs[r].destination] EXCEPT !.uploaded = r]
  <2>1. c \in [Destinations -> DestinationRecord] /\ c[runs[r].destination] \in DestinationRecord
    BY <1>0 DEF BackupSettings
  <2>2. /\ e \in DestinationRecord /\ e.edition = c[runs[r].destination].edition
        /\ e.attempt = c[runs[r].destination].attempt
    BY <2>1 DEF DestinationRecord
  <2>3. copy = [c EXCEPT ![runs[r].destination] = e]
    OBVIOUS
  <2>. HIDE DEF copy, c, e
  <2>4. /\ copy \in [Destinations -> DestinationRecord]
        /\ \A d \in Destinations : copy[d].edition = c[d].edition /\ copy[d].attempt = c[d].attempt
    BY <2>1, <2>2, <2>3
  <2>. QED  BY <2>4 DEF BackupSettings, c
<1>2. \/ settings' = copy /\ runs' = [runs EXCEPT ![r] = x]
      \/ settings' = settings /\ runs' = [runs EXCEPT ![r] = y]
  BY DEF recordSuccess
<1>. HIDE DEF copy
<1>3. /\ x \in RunRecord /\ x.stage = "next" /\ x.kind = runs[r].kind /\ x.at = runs[r].at
      /\ x.todo = runs[r].todo /\ x.copy = copy
  BY <1>0, <1>1 DEF RunRecord, Stages
<1>4. /\ y \in RunRecord /\ y.stage = "failed" /\ y.kind = runs[r].kind /\ y.at = runs[r].at
      /\ y.todo = runs[r].todo /\ y.copy = copy /\ y.destination = runs[r].destination
  BY <1>0, <1>1 DEF RunRecord, Stages
<1>. HIDE DEF x, y
<1>. QED  BY <1>0, <1>1, <1>2, <1>3, <1>4, WriteTyped

LEMMA FailureEffect ==
  ASSUME TypesInv, NEW r \in OperationIds, recordFailure(r)
  PROVE  /\ runs' \in [OperationIds -> RunRecord] /\ Own(r)
         /\ runs[r].stage = "failed" /\ runs[r].copy \in BackupSettings
         /\ runs'[r].at = runs[r].at /\ runs'[r].kind = runs[r].kind
         /\ runs'[r].todo = runs[r].todo
         /\ \/ /\ runs'[r].stage = "next" /\ runs'[r].copy = runs[r].copy
               /\ settings' = runs[r].copy \/ settings' = settings
            \/ runs'[r].stage = "reloaded" /\ runs'[r].copy = settings /\ settings' = settings
         /\ astray' = (astray \/ ~InForce(r))
         /\ UNCHANGED <<hour, lease, archives, verified>>
<1>0. /\ runs[r] \in RunRecord /\ runs[r].stage = "failed" /\ runs[r].copy \in BackupSettings
      /\ astray' = (astray \/ ~InForce(r))
      /\ UNCHANGED <<hour, lease, archives, verified>>
  BY DEF recordFailure
<1>. DEFINE x == [runs[r] EXCEPT !.stage = "next", !.destination = Unset]
            y == [runs[r] EXCEPT !.stage = "reloaded", !.copy = settings]
<1>2. \/ /\ settings' = runs[r].copy \/ settings' = settings
         /\ runs' = [runs EXCEPT ![r] = x]
      \/ settings' = settings /\ runs' = [runs EXCEPT ![r] = y]
  BY DEF recordFailure
<1>3. /\ x \in RunRecord /\ x.stage = "next" /\ x.kind = runs[r].kind /\ x.at = runs[r].at
      /\ x.todo = runs[r].todo /\ x.copy = runs[r].copy
  BY <1>0 DEF RunRecord, Stages
<1>4. /\ y \in RunRecord /\ y.stage = "reloaded" /\ y.kind = runs[r].kind /\ y.at = runs[r].at
      /\ y.todo = runs[r].todo /\ y.copy = settings
  BY <1>0 DEF RunRecord, Stages
<1>. HIDE DEF x, y
<1>. QED  BY <1>0, <1>2, <1>3, <1>4, WriteTyped

-----------------------------------------------------------------------------
(* Backups: the archives of a destination. *)

\* Taking one out of a sequence leaves the others in it.
LEMMA OthersStay ==
  ASSUME NEW s \in Seq(Archive), NEW i \in DOMAIN s
  PROVE  LET t == SubSeq(s, 1, i - 1) \o SubSeq(s, i + 1, Len(s))
         IN  /\ t \in Seq(Archive)
             /\ \A j \in DOMAIN s : j # i => \E k \in DOMAIN t : t[k] = s[j]
<1>. DEFINE a == SubSeq(s, 1, i - 1)
            b == SubSeq(s, i + 1, Len(s))
<1>1. /\ Len(s) \in Nat /\ DOMAIN s = 1..Len(s) /\ i \in 1..Len(s)
      /\ \A j \in 1..Len(s) : s[j] \in Archive
  BY LenProperties, ElementOfSeq
<1>2. /\ a \in Seq(Archive) /\ Len(a) = i - 1
      /\ \A k \in 1..(i - 1) : a[k] = s[k]
  BY <1>1, SubSeqProperties
<1>3. /\ b \in Seq(Archive) /\ Len(b) = Len(s) - i
      /\ \A k \in 1..(Len(s) - i) : b[k] = s[i + k]
  BY <1>1, SubSeqProperties
<1>. HIDE DEF a, b
<1>. DEFINE t == a \o b
<1>4. /\ t \in Seq(Archive) /\ Len(t) = Len(a) + Len(b)
      /\ \A k \in 1..(Len(a) + Len(b)) :
           t[k] = IF k <= Len(a) THEN a[k] ELSE b[k - Len(a)]
  BY <1>2, <1>3, ConcatProperties
<1>. HIDE DEF t
<1>5. DOMAIN t = 1..(Len(s) - 1) /\ i \in Nat /\ Len(s) \in Nat
  <2>1. Len(t) = Len(s) - 1 /\ i \in Nat
    BY <1>1, <1>2, <1>3, <1>4
  <2>. QED  BY <1>1, <1>4, <2>1, LenProperties
<1>6. ASSUME NEW j \in DOMAIN s, j # i PROVE \E k \in DOMAIN t : t[k] = s[j]
  <2>0. j \in Nat /\ j >= 1 /\ j <= Len(s) /\ i >= 1 /\ i <= Len(s)
    BY <1>1
  <2>1. CASE j < i
    <3>1. j \in DOMAIN t /\ j \in 1..(i - 1) /\ j \in 1..(Len(a) + Len(b)) /\ j <= Len(a)
      BY <1>2, <1>3, <1>5, <2>0, <2>1
    <3>2. t[j] = a[j] /\ a[j] = s[j]
      BY <1>2, <1>4, <3>1
    <3>. QED  BY <3>1, <3>2
  <2>2. CASE j > i
    <3>. DEFINE k == j - 1
    <3>1. /\ k \in 1..(Len(s) - 1) /\ ~(k <= i - 1) /\ k - (i - 1) = j - i
          /\ j - i \in 1..(Len(s) - i) /\ i + (j - i) = j
      BY <1>5, <2>0, <2>2
    <3>. HIDE DEF k
    <3>2. k \in DOMAIN t /\ k \in 1..(Len(a) + Len(b)) /\ ~(k <= Len(a)) /\ k - Len(a) = j - i
      BY <1>2, <1>3, <1>5, <3>1
    <3>3. t[k] = b[j - i]
      BY <1>4, <3>2
    <3>4. b[j - i] = s[j]
      BY <1>3, <3>1
    <3>. QED  BY <3>2, <3>3, <3>4
  <2>. QED  BY <1>5, <1>6, <2>0, <2>1, <2>2
<1>. QED  BY <1>4, <1>6 DEF a, b, t

LEMMA RemovedKeeps ==
  ASSUME BackupsTypeOK, NEW d \in Destinations, NEW run,
         \E a \in Files(d) : a.run = run
  PROVE  /\ Removed(d, run) \in [Destinations -> Seq(Archive)]
         /\ \A e \in Destinations \ {d} : Removed(d, run)[e] = archives[e]
         /\ \A a \in Files(d) : a.run # run =>
              \E k \in DOMAIN Removed(d, run)[d] : Removed(d, run)[d][k] = a
<1>. DEFINE s == archives[d]
            i == Place(d, run)
            t == SubSeq(s, 1, i - 1) \o SubSeq(s, i + 1, Len(s))
<1>1. s \in Seq(Archive)
  OBVIOUS
<1>2. i \in DOMAIN s /\ s[i].run = run
  BY DEF Files, Place
<1>3. t \in Seq(Archive) /\ \A j \in DOMAIN s : j # i => \E k \in DOMAIN t : t[k] = s[j]
  BY <1>1, <1>2, OthersStay
<1>4. Removed(d, run) = [archives EXCEPT ![d] = t]
  BY DEF Removed
<1>. HIDE DEF t
<1>5. Removed(d, run)[d] = t /\ \A e \in Destinations \ {d} : Removed(d, run)[e] = archives[e]
  BY <1>4
<1>6. Removed(d, run) \in [Destinations -> Seq(Archive)]
  BY <1>3, <1>4
<1>7. ASSUME NEW a \in Files(d), a.run # run PROVE \E k \in DOMAIN t : t[k] = a
  <2>1. PICK j \in DOMAIN s : s[j] = a
    BY DEF Files
  <2>2. j # i
    BY <1>2, <1>7, <2>1
  <2>. QED  BY <1>3, <2>1, <2>2
<1>. QED  BY <1>5, <1>6, <1>7

LEMMA AppendKeeps ==
  ASSUME BackupsTypeOK, NEW d \in Destinations, NEW a \in Archive,
         archives' = [archives EXCEPT ![d] = Append(@, a)]
  PROVE  /\ archives' \in [Destinations -> Seq(Archive)]
         /\ \A e \in Destinations : Files(e) \subseteq Files(e)'
<1>1. archives[d] \in Seq(Archive)
  OBVIOUS
<1>2. Append(archives[d], a) \in Seq(Archive)
  BY <1>1, AppendProperties
<1>3. \A j \in DOMAIN archives[d] :
        j \in DOMAIN Append(archives[d], a) /\ Append(archives[d], a)[j] = archives[d][j]
  BY <1>1, <1>2, AppendProperties, LenProperties
<1>. QED  BY <1>2, <1>3 DEF Files

\* Retention spares the run's own archive, for a count is at least 1.
LEMMA OwnIsNotBeyond ==
  ASSUME TypesInv, NEW r \in OperationIds, NEW d \in Destinations, NEW count \in Nat \ {0}
  PROVE  r \notin BeyondRetention(r, d, count)
<1>. SUFFICES ASSUME NEW i \in DOMAIN archives[d], Cardinality(Before(r, d, i)) >= count,
                     archives[d][i].run = r
              PROVE  FALSE
  BY DEF BeyondRetention
<1>1. Before(r, d, i) = {}
  BY DEF Before
<1>. QED  BY <1>1, FS_EmptySet

LEMMA BeyondAreFiles ==
  ASSUME NEW r, NEW d, NEW count, NEW run \in BeyondRetention(r, d, count)
  PROVE  \E a \in Files(d) : a.run = run
BY DEF BeyondRetention, Files

-----------------------------------------------------------------------------
(* Backups: types. *)

LEMMA UpdateEffect ==
  ASSUME TypesInv, NEW r \in OperationIds, updateBackupSettings(r)
  PROVE  /\ runs[r].stage = "change" /\ runs[r].copy \in BackupSettings /\ IsOver(r)
         /\ settings' \in BackupSettings
         /\ \A d \in Destinations : /\ settings'[d].edition = r
                                    /\ settings'[d].attempt = runs[r].copy[d].attempt
         /\ UNCHANGED <<hour, archives, verified, astray>>
<1>1. /\ runs[r].stage = "change" /\ runs[r].copy \in BackupSettings /\ IsOver(r)
      /\ UNCHANGED <<hour, archives, verified, astray>>
  BY DEF updateBackupSettings
<1>2. PICK enabled \in BOOLEAN, retention \in RetentionCounts :
       settings' = [d \in Destinations |->
         [edition |-> r, enabled |-> enabled, retention |-> retention,
          attempt |-> runs[r].copy[d].attempt,
          uploaded |-> runs[r].copy[d].uploaded]]
  BY DEF updateBackupSettings, Runtime
<1>3. r \in 0..Operations
  BY DEF OperationIds
<1>. QED  BY <1>1, <1>2, <1>3 DEF BackupSettings, DestinationRecord

LEMMA UploadEffect ==
  ASSUME TypesInv, NEW r \in OperationIds, uploadArchive(r)
  PROVE  /\ runs[r].stage = "upload"
         /\ GoesTo(r, "uploaded") \/ GoesTo(r, "failed")
         /\ archives' \in [Destinations -> Seq(Archive)]
         /\ \A e \in Destinations : Files(e) \subseteq Files(e)'
         /\ UNCHANGED <<hour, settings, lease, verified, astray>>
<1>1. /\ runs[r].stage = "upload" /\ runs[r].destination \in Destinations
      /\ GoesTo(r, "uploaded") \/ GoesTo(r, "failed")
      /\ UNCHANGED <<hour, settings, lease, verified, astray>>
  BY DEF uploadArchive
<1>2. CASE archives' = archives
  BY <1>1, <1>2 DEF Files
<1>3. CASE archives' # archives
  <2>1. PICK intact \in BOOLEAN :
          archives' = [archives EXCEPT
            ![runs[r].destination] = Append(@, [run |-> r, intact |-> intact])]
    BY <1>3 DEF uploadArchive
  <2>2. [run |-> r, intact |-> intact] \in Archive
    BY DEF Archive
  <2>. QED  BY <1>1, <2>1, <2>2, AppendKeeps
<1>. QED  BY <1>2, <1>3

LEMMA VerifyEffect ==
  ASSUME TypesInv, NEW r \in OperationIds, verifyArchive(r)
  PROVE  /\ runs[r].stage = "verify" /\ runs[r].destination \in Destinations
         /\ \/ /\ GoesTo(r, "checked")
               /\ [run |-> r, intact |-> TRUE] \in Files(runs[r].destination)
               /\ verified' = verified \cup {runs[r].destination}
            \/ GoesTo(r, "failed") /\ verified' = verified
         /\ UNCHANGED <<hour, settings, lease, archives, astray>>
BY DEF verifyArchive, IsIntact

LEMMA ListEffect ==
  ASSUME TypesInv, NEW r \in OperationIds, listArchives(r)
  PROVE  /\ runs' \in [OperationIds -> RunRecord] /\ Own(r) /\ Keeps(r)
         /\ runs[r].stage = "list" /\ runs'[r].stage \in {"pruned", "prune", "failed"}
         /\ runs'[r].destination = runs[r].destination
         /\ runs[r].destination \in Destinations
         /\ runs'[r].stage = "prune" =>
              /\ r \notin runs'[r].doomed
              /\ \A run \in runs'[r].doomed : \E a \in Files(runs[r].destination) : a.run = run
         /\ UNCHANGED <<hour, settings, lease, archives, verified, astray>>
<1>. DEFINE d == runs[r].destination
            count == runs[r].copy[d].retention
            x == [runs[r] EXCEPT !.stage = "prune", !.doomed = BeyondRetention(r, d, count)]
<1>1. /\ runs[r].stage = "list" /\ d \in Destinations /\ runs[r].copy \in BackupSettings
      /\ runs[r] \in RunRecord
      /\ UNCHANGED <<hour, settings, lease, archives, verified, astray>>
  BY DEF listArchives
<1>2. \/ GoesTo(r, "pruned")
      \/ count # Unset /\ runs' = [runs EXCEPT ![r] = x]
      \/ GoesTo(r, "failed")
  BY DEF listArchives
<1>3. CASE GoesTo(r, "pruned") \/ GoesTo(r, "failed")
  <2>1. "pruned" \in Stages /\ "failed" \in Stages
    BY DEF Stages
  <2>. QED  BY <1>1, <1>3, <2>1, GoesEffect
<1>4. CASE count # Unset /\ runs' = [runs EXCEPT ![r] = x]
  <2>1. count \in Nat \ {0}
    BY <1>1, <1>4, BackupsAssumption DEF BackupSettings, DestinationRecord
  <2>2. /\ r \notin BeyondRetention(r, d, count)
        /\ \A run \in BeyondRetention(r, d, count) : \E a \in Files(d) : a.run = run
    BY <1>1, <2>1, OwnIsNotBeyond, BeyondAreFiles
  <2>3. BeyondRetention(r, d, count) \subseteq OperationIds
    <3>1. archives[d] \in Seq(Archive)
      BY <1>1
    <3>2. \A i \in DOMAIN archives[d] : archives[d][i] \in Archive
      BY <3>1, ElementOfSeq, LenProperties
    <3>. QED  BY <3>2 DEF BeyondRetention, Archive
  <2>. DEFINE beyond == BeyondRetention(r, d, count)
  <2>. HIDE DEF beyond, count
  <2>4. /\ x \in RunRecord /\ x.stage = "prune" /\ x.doomed = beyond
        /\ x.kind = runs[r].kind /\ x.copy = runs[r].copy /\ x.at = runs[r].at
        /\ x.todo = runs[r].todo /\ x.destination = d
    BY <1>1, <2>3 DEF RunRecord, Stages, beyond
  <2>. HIDE DEF x
  <2>5. runs' \in [OperationIds -> RunRecord] /\ runs'[r] = x /\ Own(r)
    BY <1>4, <2>4, WriteTyped
  <2>. QED  BY <1>1, <2>2, <2>4, <2>5 DEF Keeps, beyond
<1>. QED  BY <1>2, <1>3, <1>4

LEMMA PruneEffect ==
  ASSUME TypesInv, NEW r \in OperationIds, pruneRemoteBackupArchives(r),
         \A run \in runs[r].doomed : \E a \in Files(runs[r].destination) : a.run = run
  PROVE  /\ runs' \in [OperationIds -> RunRecord] /\ Own(r) /\ Keeps(r)
         /\ runs[r].stage = "prune" /\ runs[r].destination \in Destinations
         /\ runs'[r].stage \in {"prune", "pruned", "failed"}
         /\ runs'[r].destination = runs[r].destination
         /\ archives' \in [Destinations -> Seq(Archive)]
         /\ \/ archives' = archives /\ runs'[r].stage # "prune"
            \/ \E run \in runs[r].doomed :
                 /\ runs'[r].doomed = runs[r].doomed \ {run} /\ runs'[r].stage = "prune"
                 /\ \A e \in Destinations : \A a \in Files(e) :
                      (e = runs[r].destination => a.run # run) => a \in Files(e)'
         /\ UNCHANGED <<hour, settings, lease, verified, astray>>
<1>. DEFINE d == runs[r].destination
<1>1. /\ runs[r].stage = "prune" /\ d \in Destinations /\ runs[r] \in RunRecord
      /\ UNCHANGED <<hour, settings, lease, verified, astray>>
  BY DEF pruneRemoteBackupArchives
<1>2. CASE \E run \in runs[r].doomed :
             /\ archives' = Removed(d, run)
             /\ runs' = [runs EXCEPT ![r].doomed = @ \ {run}]
  <2>1. PICK run \in runs[r].doomed :
             /\ archives' = Removed(d, run)
             /\ runs' = [runs EXCEPT ![r].doomed = @ \ {run}]
    BY <1>2
  <2>. DEFINE x == [runs[r] EXCEPT !.doomed = runs[r].doomed \ {run}]
  <2>2. runs' = [runs EXCEPT ![r] = x]
    BY <2>1
  <2>3. /\ x \in RunRecord /\ x.stage = runs[r].stage /\ x.doomed = runs[r].doomed \ {run}
        /\ x.kind = runs[r].kind /\ x.copy = runs[r].copy /\ x.at = runs[r].at
        /\ x.todo = runs[r].todo /\ x.destination = d
    BY <1>1 DEF RunRecord
  <2>. HIDE DEF x
  <2>4. runs' \in [OperationIds -> RunRecord] /\ runs'[r] = x /\ Own(r)
    BY <2>2, <2>3, WriteTyped
  <2>5. \E a \in Files(d) : a.run = run
    BY <2>1
  <2>6. /\ archives' \in [Destinations -> Seq(Archive)]
        /\ \A e \in Destinations \ {d} : archives'[e] = archives[e]
        /\ \A a \in Files(d) : a.run # run => \E k \in DOMAIN archives'[d] : archives'[d][k] = a
    BY <1>1, <2>1, <2>5, RemovedKeeps
  <2>8. ASSUME NEW e \in Destinations, NEW a \in Files(e), e = d => a.run # run
        PROVE  a \in Files(e)'
    <3>1. CASE e = d
      <4>1. PICK k \in DOMAIN archives'[d] : archives'[d][k] = a
        BY <2>6, <2>8, <3>1
      <4>. QED  BY <3>1, <4>1 DEF Files
    <3>2. CASE e # d
      <4>1. archives'[e] = archives[e]
        BY <2>6, <3>2
      <4>. QED  BY <4>1 DEF Files
    <3>. QED  BY <3>1, <3>2
  <2>. QED  BY <1>1, <2>1, <2>3, <2>4, <2>6, <2>8 DEF Keeps
<1>3. CASE GoesTo(r, "pruned") /\ UNCHANGED archives
  BY <1>1, <1>3, GoesEffect DEF Stages
<1>4. CASE /\ runs' = [runs EXCEPT ![r].stage = "failed", ![r].doomed = {}]
           /\ UNCHANGED archives
  <2>. DEFINE x == [runs[r] EXCEPT !.stage = "failed", !.doomed = {}]
  <2>2. runs' = [runs EXCEPT ![r] = x]
    BY <1>4
  <2>3. /\ x \in RunRecord /\ x.stage = "failed"
        /\ x.kind = runs[r].kind /\ x.copy = runs[r].copy /\ x.at = runs[r].at
        /\ x.todo = runs[r].todo /\ x.destination = d
    BY <1>1 DEF RunRecord, Stages
  <2>. HIDE DEF x
  <2>4. runs' \in [OperationIds -> RunRecord] /\ runs'[r] = x /\ Own(r)
    BY <2>2, <2>3, WriteTyped
  <2>. QED  BY <1>1, <1>4, <2>3, <2>4 DEF Keeps
<1>. QED  BY <1>1, <1>2, <1>3, <1>4 DEF pruneRemoteBackupArchives

LEMMA StageNames == {"waiting", "load", "change", "next", "build", "built", "upload",
           "uploaded", "verify", "checked", "list", "prune", "pruned",
           "record", "failed", "reloaded", "over"} = Stages
BY DEF Stages

LEMMA TypesStep ==
  ASSUME TypesInv, OwnArchiveStands, [BackupsNext]_backupVars
  PROVE  TypesInv'
<1>1. ASSUME NEW r \in OperationIds, acquireDataOperationLease(r) PROVE TypesInv'
  <2>1. UNCHANGED <<hour, settings, archives, verified, astray>>
    BY <1>1 DEF acquireDataOperationLease
  <2>2. lease' \in [token : OperationIds, lapsed : BOOLEAN]
    BY <1>1 DEF acquireDataOperationLease
  <2>3. /\ runs' \in [OperationIds -> RunRecord] /\ runs'[r].stage = "load"
        /\ \A s \in OperationIds : s # r => runs'[s] = runs[s]
    BY <1>1, AcquireEffect DEF Own
  <2>. QED  BY <2>1, <2>2, <2>3
<1>2. ASSUME NEW r \in OperationIds, requireDataOperationLeaseRenewal(r) PROVE TypesInv'
  <2>0. UNCHANGED <<hour, settings, archives, verified, astray>>
    BY <1>2, RenewalEffect
  <2>1. CASE IsOver(r)
    BY <2>0, <2>1, OverTyped
  <2>2. CASE ~IsOver(r)
    <3>. DEFINE stage == AfterRenewal(runs[r].stage)
    <3>1. /\ Holds(r) /\ lease' = [lease EXCEPT !.lapsed = FALSE] /\ GoesTo(r, stage)
          /\ stage \in {"upload", "verify", "list", "record"}
          /\ runs[r].stage \in {"built", "uploaded", "checked", "pruned"}
      BY <1>2, <2>2, RenewalEffect
    <3>. HIDE DEF stage
    <3>2. stage \in Stages
      BY <3>1, StageNames
    <3>3. /\ runs' \in [OperationIds -> RunRecord] /\ Own(r) /\ Keeps(r)
          /\ runs'[r].stage = stage /\ runs'[r].destination = runs[r].destination
      BY <3>1, <3>2, GoesEffect
    <3>4. lease' = [token |-> r, lapsed |-> FALSE]
      BY <3>1, LeaseRenewed
    <3>5. lease' \in [token : OperationIds, lapsed : BOOLEAN]
      BY <3>4
    <3>6. AtHand'
      BY <3>1, <3>3 DEF Own, Keeps
    <3>. QED  BY <2>0, <3>3, <3>5, <3>6
  <2>. QED  BY <2>1, <2>2
<1>3. ASSUME NEW r \in OperationIds, loadBackupSettings(r) PROVE TypesInv'
  <2>1. UNCHANGED <<settings, lease, archives, verified, astray>>
    BY <1>3 DEF loadBackupSettings
  <2>. QED  BY <1>3, <2>1, LoadEffect DEF Own
<1>4. ASSUME NEW r \in OperationIds, updateBackupSettings(r) PROVE TypesInv'
  BY <1>4, UpdateEffect, OverTyped
<1>5. ASSUME NEW r \in OperationIds, beginAttempt(r) PROVE TypesInv'
  BY <1>5, BeginEffect DEF Own
<1>6. ASSUME NEW r \in OperationIds, endRun(r) PROVE TypesInv'
  <2>1. IsOver(r) /\ UNCHANGED <<hour, settings, archives, verified, astray>>
    BY <1>6 DEF endRun
  <2>. QED  BY <2>1, OverTyped
<1>7. ASSUME NEW r \in OperationIds, buildBackupArchive(r) PROVE TypesInv'
  <2>1. /\ runs[r].stage = "build"
        /\ UNCHANGED <<hour, settings, lease, archives, verified, astray>>
        /\ GoesTo(r, "built") \/ GoesTo(r, "failed")
    BY <1>7 DEF buildBackupArchive
  <2>. QED  BY <2>1, GoesEffect, StageNames DEF Own, Keeps
<1>8. ASSUME NEW r \in OperationIds, uploadArchive(r) PROVE TypesInv'
  <2>1. PICK stage \in {"uploaded", "failed"} : GoesTo(r, stage)
    BY <1>8, UploadEffect
  <2>2. /\ runs[r].stage = "upload" /\ UNCHANGED <<hour, settings, lease, verified, astray>>
        /\ archives' \in [Destinations -> Seq(Archive)]
    BY <1>8, UploadEffect
  <2>3. stage \in Stages
    BY <2>1, StageNames
  <2>4. /\ runs' \in [OperationIds -> RunRecord] /\ Own(r) /\ Keeps(r)
        /\ runs'[r].stage = stage /\ runs'[r].destination = runs[r].destination
    BY <2>1, <2>3, GoesEffect
  <2>. QED  BY <2>2, <2>4 DEF Own, Keeps
<1>9. ASSUME NEW r \in OperationIds, verifyArchive(r) PROVE TypesInv'
  <2>1. verified' \subseteq Destinations
    BY <1>9, VerifyEffect
  <2>2. PICK stage \in {"checked", "failed"} : GoesTo(r, stage)
    BY <1>9, VerifyEffect
  <2>3. runs[r].stage = "verify" /\ UNCHANGED <<hour, settings, lease, archives, astray>>
    BY <1>9, VerifyEffect
  <2>4. stage \in Stages
    BY <2>2, StageNames
  <2>5. /\ runs' \in [OperationIds -> RunRecord] /\ Own(r) /\ Keeps(r)
        /\ runs'[r].stage = stage /\ runs'[r].destination = runs[r].destination
    BY <2>2, <2>4, GoesEffect
  <2>. QED  BY <2>1, <2>3, <2>5 DEF Own, Keeps
<1>10. ASSUME NEW r \in OperationIds, listArchives(r) PROVE TypesInv'
  BY <1>10, ListEffect DEF Own, Keeps
<1>11. ASSUME NEW r \in OperationIds, pruneRemoteBackupArchives(r) PROVE TypesInv'
  <2>1. \A run \in runs[r].doomed : \E a \in Files(runs[r].destination) : a.run = run
    BY <1>11 DEF OwnArchiveStands, pruneRemoteBackupArchives
  <2>. QED  BY <1>11, <2>1, PruneEffect DEF Own, Keeps
<1>12. ASSUME NEW r \in OperationIds, recordSuccess(r) PROVE TypesInv'
  BY <1>12, RecordEffect DEF Own
<1>13. ASSUME NEW r \in OperationIds, recordFailure(r) PROVE TypesInv'
  <2>1. astray' \in BOOLEAN
    BY <1>13, FailureEffect
  <2>2. settings' \in BackupSettings /\ UNCHANGED <<hour, lease, archives, verified>>
    BY <1>13, FailureEffect
  <2>3. AtHand' /\ runs' \in [OperationIds -> RunRecord]
    BY <1>13, FailureEffect DEF Own
  <2>. QED  BY <2>1, <2>2, <2>3
<1>14. ASSUME NEW r \in OperationIds, recordManualFailure(r) PROVE TypesInv'
  <2>1. /\ runs[r].copy \in BackupSettings /\ IsOver(r)
        /\ settings' = runs[r].copy \/ settings' = settings
        /\ UNCHANGED <<hour, archives, verified, astray>>
    BY <1>14 DEF recordManualFailure
  <2>. QED  BY <2>1, OverTyped
<1>15. ASSUME NEW r \in OperationIds, Dies(r) PROVE TypesInv'
  <2>1. /\ runs' = [runs EXCEPT ![r] = [NoRun EXCEPT !.stage = "over"]]
        /\ UNCHANGED <<hour, settings, lease, archives, verified, astray>>
    BY <1>15 DEF Dies
  <2>2. [NoRun EXCEPT !.stage = "over"].stage = "over"
    BY DEF NoRun
  <2>. QED  BY <2>1, <2>2, NoRunTyped
<1>16. CASE LeaseLapses
  <2>1. UNCHANGED <<hour, settings, archives, runs, verified, astray>>
    BY <1>16 DEF LeaseLapses
  <2>2. lease' \in [token : OperationIds, lapsed : BOOLEAN]
    BY <1>16 DEF LeaseLapses
  <2>. QED  BY <2>1, <2>2
<1>17. CASE UNCHANGED backupVars
  BY <1>17 DEF backupVars
<1>. QED  BY <1>1, <1>2, <1>3, <1>4, <1>5, <1>6, <1>7, <1>8, <1>9, <1>10, <1>11, <1>12,
             <1>13, <1>14, <1>15, <1>16, <1>17 DEF BackupsNext

-----------------------------------------------------------------------------
(* Backups: the lease and the settings, for each kind of step. *)

\* Where a run stands between the beginning of an attempt and its outcome.
Attempting == Stages \ {"waiting", "load", "change", "next", "reloaded", "over"}

LeaseInv == TypesInv /\ InTurn /\ LeaseIsSure
CopyInv == InThePast /\ StillToDo /\ CopyIsCurrent

\* A step within an attempt that writes no settings.
QuietStep(r) ==
  /\ runs[r].stage \in Attempting /\ runs'[r].stage \in Attempting \ {"record"}
  /\ runs'[r].stage \in {"list", "prune", "pruned"} => runs[r].stage \in {"list", "prune"}
  /\ Own(r) /\ Keeps(r)
  /\ UNCHANGED <<hour, settings, lease, astray>>

\* A step in which the operation ends or dies.
LastStep(r) ==
  /\ runs[r].stage # "waiting" /\ runs'[r].stage = "over" /\ runs'[r].at = 0 /\ Own(r)
  /\ lease' = lease \/ (Holds(r) /\ lease' = Unset)
  /\ UNCHANGED <<hour, archives, verified, astray>>
  /\ \/ settings' = settings
     \/ /\ runs[r].stage \in {"change", "reloaded"} /\ runs[r].copy \in BackupSettings
        /\ \A d \in Destinations :
             /\ settings'[d].edition \in {r, runs[r].copy[d].edition}
             /\ settings'[d].attempt = runs[r].copy[d].attempt

LEMMA LastSteps ==
  ASSUME TypesInv, NEW r \in OperationIds,
         \/ updateBackupSettings(r) \/ endRun(r) \/ recordManualFailure(r) \/ Dies(r)
         \/ ~Holds(r) /\ requireDataOperationLeaseRenewal(r)
  PROVE  LastStep(r)
<1>0. IsOver(r) => lease' = lease \/ (Holds(r) /\ lease' = Unset)
  BY DEF IsOver
<1>1. CASE updateBackupSettings(r)
  BY <1>0, <1>1, UpdateEffect, OverTyped DEF LastStep, Own
<1>2. CASE endRun(r)
  <2>1. /\ IsOver(r) /\ UNCHANGED <<hour, settings, archives, verified, astray>>
        /\ runs[r].stage = "next"
    BY <1>2 DEF endRun
  <2>. QED  BY <1>0, <2>1, OverTyped DEF LastStep, Own
<1>3. CASE recordManualFailure(r)
  <2>1. /\ runs[r].copy \in BackupSettings /\ IsOver(r) /\ runs[r].stage = "reloaded"
        /\ settings' = runs[r].copy \/ settings' = settings
        /\ UNCHANGED <<hour, archives, verified, astray>>
    BY <1>3 DEF recordManualFailure
  <2>. QED  BY <1>0, <2>1, OverTyped DEF LastStep, Own
<1>4. CASE Dies(r)
  <2>1. /\ runs' = [runs EXCEPT ![r] = [NoRun EXCEPT !.stage = "over"]]
        /\ runs[r].stage # "waiting"
        /\ UNCHANGED <<hour, settings, lease, archives, verified, astray>>
    BY <1>4 DEF Dies
  <2>2. /\ [NoRun EXCEPT !.stage = "over"].stage = "over"
        /\ [NoRun EXCEPT !.stage = "over"].at = 0
    BY DEF NoRun
  <2>. QED  BY <2>1, <2>2, NoRunTyped DEF LastStep, Own
<1>5. CASE ~Holds(r) /\ requireDataOperationLeaseRenewal(r)
  <2>1. /\ IsOver(r) /\ UNCHANGED <<hour, settings, archives, verified, astray>>
        /\ runs[r].stage # "waiting"
    BY <1>5, RenewalEffect
  <2>. QED  BY <1>0, <2>1, OverTyped DEF LastStep, Own
<1>. QED  BY <1>1, <1>2, <1>3, <1>4, <1>5

LEMMA QuietSteps ==
  ASSUME TypesInv, OwnArchiveStands, NEW r \in OperationIds,
         \/ buildBackupArchive(r) \/ uploadArchive(r) \/ verifyArchive(r)
         \/ listArchives(r) \/ pruneRemoteBackupArchives(r)
  PROVE  QuietStep(r)
<1>0. {"failed", "built", "uploaded", "checked", "pruned", "build", "upload", "verify", "list",
       "prune"} \subseteq Attempting \ {"record"}
  BY DEF Attempting, Stages
<1>1. CASE buildBackupArchive(r)
  <2>1. /\ runs[r].stage = "build"
        /\ UNCHANGED <<hour, settings, lease, archives, verified, astray>>
    BY <1>1 DEF buildBackupArchive
  <2>2. PICK stage \in {"built", "failed"} : GoesTo(r, stage)
    BY <1>1 DEF buildBackupArchive
  <2>3. Own(r) /\ Keeps(r) /\ runs'[r].stage = stage
    BY <2>2, GoesEffect, StageNames
  <2>. QED  BY <1>0, <2>1, <2>2, <2>3 DEF QuietStep
<1>2. CASE uploadArchive(r)
  <2>1. runs[r].stage = "upload" /\ UNCHANGED <<hour, settings, lease, astray>>
    BY <1>2, UploadEffect
  <2>2. PICK stage \in {"uploaded", "failed"} : GoesTo(r, stage)
    BY <1>2, UploadEffect
  <2>3. Own(r) /\ Keeps(r) /\ runs'[r].stage = stage
    BY <2>2, GoesEffect, StageNames
  <2>. QED  BY <1>0, <2>1, <2>2, <2>3 DEF QuietStep
<1>3. CASE verifyArchive(r)
  <2>1. runs[r].stage = "verify" /\ UNCHANGED <<hour, settings, lease, astray>>
    BY <1>3, VerifyEffect
  <2>2. PICK stage \in {"checked", "failed"} : GoesTo(r, stage)
    BY <1>3, VerifyEffect
  <2>3. Own(r) /\ Keeps(r) /\ runs'[r].stage = stage
    BY <2>2, GoesEffect, StageNames
  <2>. QED  BY <1>0, <2>1, <2>2, <2>3 DEF QuietStep
<1>4. CASE listArchives(r)
  BY <1>0, <1>4, ListEffect DEF QuietStep
<1>5. CASE pruneRemoteBackupArchives(r)
  <2>1. \A run \in runs[r].doomed : \E a \in Files(runs[r].destination) : a.run = run
    BY <1>5 DEF OwnArchiveStands, pruneRemoteBackupArchives
  <2>. QED  BY <1>0, <1>5, <2>1, PruneEffect DEF QuietStep
<1>. QED  BY <1>1, <1>2, <1>3, <1>4, <1>5

LEMMA LeaseQuiet ==
  ASSUME LeaseInv, TypesInv', NEW r \in OperationIds, QuietStep(r)
  PROVE  LeaseInv'
<1>1. \A s \in OperationIds : Started(s)' <=> Started(s)
  BY DEF QuietStep, Own, Started, Attempting
<1>2. InTurn'
  BY <1>1 DEF LeaseInv, InTurn, QuietStep, OperationIds
<1>3. LeaseIsSure'
  BY DEF LeaseInv, LeaseIsSure, QuietStep, Own, InForce, Holds, Attempting
<1>. QED  BY <1>2, <1>3 DEF LeaseInv

LEMMA LeaseLast ==
  ASSUME LeaseInv, TypesInv', NEW r \in OperationIds, LastStep(r)
  PROVE  LeaseInv'
<1>1. \A s \in OperationIds : Started(s)' <=> Started(s)
  BY DEF LastStep, Own, Started
<1>2. InTurn'
  BY <1>1 DEF LeaseInv, InTurn, LastStep, OperationIds
<1>3. LeaseIsSure'
  BY DEF LeaseInv, LeaseIsSure, LastStep, Own, InForce, Holds
<1>. QED  BY <1>2, <1>3 DEF LeaseInv

LEMMA LeaseStays ==
  ASSUME LeaseInv, TypesInv', NEW r \in OperationIds, Own(r), lease' = lease,
         Started(r), runs'[r].stage \in {"change", "next", "build", "failed", "reloaded"},
         runs'[r].stage = "change" => InForce(r),
         runs'[r].stage \in {"next", "reloaded"} /\ ~astray' => InForce(r),
         astray => astray'
  PROVE  LeaseInv'
<1>1. \A s \in OperationIds : Started(s)' <=> Started(s)
  BY DEF Own, Started
<1>2. InTurn'
  BY <1>1 DEF LeaseInv, InTurn, OperationIds
<1>3. LeaseIsSure'
  BY DEF LeaseInv, LeaseIsSure, Own, InForce, Holds
<1>. QED  BY <1>2, <1>3 DEF LeaseInv

LEMMA LeaseAcquired ==
  ASSUME LeaseInv, TypesInv', NEW r \in OperationIds, acquireDataOperationLease(r)
  PROVE  LeaseInv'
<1>1. /\ runs' \in [OperationIds -> RunRecord] /\ Own(r) /\ runs'[r].stage = "load"
      /\ lease' = [token |-> r, lapsed |-> FALSE] /\ lease' # Unset /\ astray' = astray
      /\ runs[r].stage = "waiting" /\ LeaseIsFree
      /\ r > 1 => runs[r - 1].stage # "waiting"
  BY AcquireEffect DEF LeaseInv, acquireDataOperationLease
<1>2. lease'.token = r /\ lease'.lapsed = FALSE
  BY <1>1
<1>3. \A s \in OperationIds : Started(s)' <=> s <= r
  <2>. SUFFICES ASSUME NEW s \in OperationIds PROVE Started(s)' <=> s <= r
    OBVIOUS
  <2>0. s \in Int /\ r \in Int /\ s >= 1 /\ r >= 1 /\ r <= Operations /\ Operations \in Nat
    BY BackupsAssumption DEF OperationIds
  <2>1. CASE s = r
    BY <1>1, <2>0, <2>1 DEF Started
  <2>2. CASE s < r
    <3>1. r - 1 \in OperationIds /\ s <= r - 1 /\ r > 1 /\ s # r
      BY <2>0, <2>2 DEF OperationIds
    <3>2. Started(r - 1)
      BY <1>1, <3>1 DEF Started
    <3>3. Started(s)
      BY <3>1, <3>2 DEF LeaseInv, InTurn
    <3>. QED  BY <1>1, <2>0, <2>2, <3>1, <3>3 DEF Started, Own
  <2>3. CASE s > r
    <3>1. ~Started(s)
      BY <1>1, <2>0, <2>3 DEF LeaseInv, InTurn, Started
    <3>. QED  BY <1>1, <2>0, <2>3, <3>1 DEF Started, Own
  <2>. QED  BY <2>0, <2>1, <2>2, <2>3
<1>4. InTurn'
  <2>1. \A s, t \in OperationIds : Started(s)' /\ t <= s => Started(t)'
    BY <1>3 DEF OperationIds
  <2>2. \A s \in OperationIds : Started(s)' <=> s <= lease'.token
    BY <1>2, <1>3
  <2>. QED  BY <2>1, <2>2 DEF InTurn
<1>5. LeaseIsSure'
  <2>1. \A s \in OperationIds : ~InForce(s)
    BY <1>1 DEF LeaseIsFree, InForce, Holds
  <2>2. InForce(r)'
    BY <1>1, <1>2 DEF InForce, Holds
  <2>. QED  BY <1>1, <2>1, <2>2 DEF LeaseInv, LeaseIsSure, Own
<1>. QED  BY <1>4, <1>5 DEF LeaseInv

LEMMA LeaseIsRenewed ==
  ASSUME LeaseInv, TypesInv', NEW r \in OperationIds, requireDataOperationLeaseRenewal(r),
         Holds(r)
  PROVE  LeaseInv'
<1>. DEFINE stage == AfterRenewal(runs[r].stage)
<1>1. /\ lease' = [lease EXCEPT !.lapsed = FALSE] /\ GoesTo(r, stage)
      /\ stage \in {"upload", "verify", "list", "record"}
      /\ Started(r) /\ astray' = astray
  BY RenewalEffect, OverTyped DEF requireDataOperationLeaseRenewal, LeaseInv, Started
<1>. HIDE DEF stage
<1>2. Own(r) /\ runs'[r].stage = stage
  BY <1>1, GoesEffect, StageNames DEF LeaseInv
<1>3. /\ lease' = [token |-> r, lapsed |-> FALSE] /\ lease' # Unset
      /\ lease'.token = r /\ lease'.lapsed = FALSE /\ lease # Unset /\ lease.token = r
  BY <1>1, LeaseRenewed DEF LeaseInv, Holds
<1>4. \A s \in OperationIds : Started(s)' <=> Started(s)
  BY <1>1, <1>2 DEF Own, Started
<1>5. InTurn'
  BY <1>3, <1>4 DEF LeaseInv, InTurn, OperationIds
<1>6. LeaseIsSure'
  <2>1. InForce(r)' /\ \A s \in OperationIds : s # r => ~InForce(s)
    BY <1>3 DEF InForce, Holds
  <2>. QED  BY <1>1, <1>2, <2>1 DEF LeaseInv, LeaseIsSure, Own
<1>. QED  BY <1>5, <1>6 DEF LeaseInv

LEMMA LeaseLapsed ==
  ASSUME LeaseInv, TypesInv', LeaseLapses
  PROVE  LeaseInv'
<1>1. /\ lease # Unset /\ lease \in [token : OperationIds, lapsed : BOOLEAN]
      /\ runs[lease.token].stage \in {"build", "upload", "verify", "over"}
      /\ lease' = [lease EXCEPT !.lapsed = TRUE]
      /\ UNCHANGED <<runs, astray>>
  BY DEF LeaseLapses, LeaseInv
<1>2. lease'.token = lease.token
  BY <1>1
<1>3. InTurn'
  BY <1>1, <1>2 DEF LeaseInv, InTurn, Started
<1>4. LeaseIsSure'
  BY <1>1 DEF LeaseInv, LeaseIsSure, InForce, Holds
<1>. QED  BY <1>3, <1>4 DEF LeaseInv

LEMMA SettingsNumbers ==
  ASSUME NEW copy \in BackupSettings, NEW d \in Destinations
  PROVE  copy[d].attempt \in Int /\ copy[d].edition \in Int
         /\ copy[d].edition \in OperationIds \cup {0}
BY BackupsAssumption DEF BackupSettings, DestinationRecord, Hours, NoAttempt, OperationIds

LEMMA AtIsNumber ==
  ASSUME TypesInv, NEW r \in OperationIds
  PROVE  runs[r].at \in Int /\ hour \in Int
<1>1. runs[r] \in RunRecord /\ hour \in Hours
  OBVIOUS
<1>. QED  BY <1>1, BNumbers DEF RunRecord

\* A step of r that leaves the settings and, where it still has one, its copy.
CopyKept(r) ==
  /\ Own(r) /\ UNCHANGED <<settings, astray>> /\ hour' = hour
  /\ \A s \in OperationIds : Started(s) => Started(s)'
  /\ runs'[r].at = runs[r].at
  /\ \/ runs'[r].stage \in {"waiting", "load", "over"}
     \/ HasCopy(r) /\ Keeps(r) /\ runs[r].stage \notin {"change", "reloaded"}
  /\ \A s \in OperationIds : Holds(s)' => Holds(s) \/ ~HasCopy(s)'

LEMMA KnownStays ==
  ASSUME NEW copy, Known(copy), hour \in Int, hour' \in Int, hour' >= hour,
         copy \in BackupSettings,
         \A s \in OperationIds : Started(s) => Started(s)'
  PROVE  \A d \in Destinations :
           /\ \A r \in OperationIds : copy[d].edition = r => Started(r)'
           /\ copy[d].attempt <= hour'
BY SettingsNumbers DEF Known

LEMMA CopyInvKept ==
  ASSUME TypesInv, CopyInv, TypesInv', NEW r \in OperationIds, CopyKept(r)
  PROVE  CopyInv'
<1>1. Known(settings)'
  BY DEF CopyInv, CopyKept, InThePast, Known
<1>2. ASSUME NEW s \in OperationIds, HasCopy(s)' PROVE Known(runs[s].copy)'
  <2>1. runs'[s].copy = runs[s].copy /\ HasCopy(s)
    BY <1>2 DEF CopyKept, Own, Keeps
  <2>. QED  BY <2>1 DEF CopyInv, CopyKept, InThePast, Known
<1>3. InThePast'
  BY <1>1, <1>2 DEF CopyInv, CopyKept, InThePast, Own
<1>4. StillToDo'
  BY DEF CopyInv, CopyKept, StillToDo, Own, Keeps
<1>5. CopyIsCurrent'
  BY DEF CopyInv, CopyKept, CopyIsCurrent, Own, Keeps
<1>. QED  BY <1>3, <1>4, <1>5 DEF CopyInv

LEMMA ForwardWhenSaved ==
  ASSUME TypesInv, NEW r \in OperationIds, Own(r), settings' = settings,
         runs'[r].stage # "build"
  PROVE  SaveGoesForward
<1>. SUFFICES ASSUME NEW d \in Destinations, NEW s \in OperationIds
              PROVE  /\ settings'[d].edition >= settings[d].edition
                     /\ settings'[d].attempt >= settings[d].attempt
                     /\ ~(runs[s].stage = "next" /\ runs'[s].stage = "build")
  BY DEF SaveGoesForward
<1>1. settings[d].edition \in Int /\ settings[d].attempt \in Int
  BY SettingsNumbers
<1>. QED  BY <1>1 DEF Own

LEMMA CopyQuiet ==
  ASSUME TypesInv, CopyInv, TypesInv', NEW r \in OperationIds, QuietStep(r)
  PROVE  CopyInv' /\ SaveGoesForward
<1>1. CopyKept(r)
  <2>1. \A s \in OperationIds : Holds(s)' => Holds(s)
    BY DEF QuietStep, Holds
  <2>2. \A s \in OperationIds : Started(s) => Started(s)'
    BY DEF QuietStep, Own, Started, Attempting
  <2>3. HasCopy(r) /\ Keeps(r) /\ runs[r].stage \notin {"change", "reloaded"}
    BY DEF QuietStep, Attempting
  <2>. QED  BY <2>1, <2>2, <2>3 DEF QuietStep, CopyKept, Keeps
<1>2. SaveGoesForward
  <2>. SUFFICES ASSUME NEW d \in Destinations, NEW s \in OperationIds
              PROVE  /\ settings'[d].edition >= settings[d].edition
                     /\ settings'[d].attempt >= settings[d].attempt
                     /\ ~(runs[s].stage = "next" /\ runs'[s].stage = "build")
    BY DEF SaveGoesForward
  <2>1. settings[d].edition \in Int /\ settings[d].attempt \in Int
    BY SettingsNumbers
  <2>. QED  BY <2>1 DEF QuietStep, Own, Attempting
<1>. QED  BY <1>1, <1>2, CopyInvKept

LEMMA CopyAcquired ==
  ASSUME TypesInv, CopyInv, TypesInv', NEW r \in OperationIds, acquireDataOperationLease(r)
  PROVE  CopyInv' /\ SaveGoesForward
<1>1. /\ Own(r) /\ runs'[r].stage = "load" /\ runs'[r].at = runs[r].at
      /\ lease' = [token |-> r, lapsed |-> FALSE] /\ UNCHANGED <<hour, settings, astray>>
  BY AcquireEffect DEF acquireDataOperationLease
<1>2. \A s \in OperationIds : Holds(s)' => s = r
  BY <1>1 DEF Holds
<1>3. CopyKept(r)
  BY <1>1, <1>2 DEF CopyKept, Started, Own
<1>. QED  BY <1>1, <1>3, CopyInvKept, ForwardWhenSaved

LEMMA CopyRenewed ==
  ASSUME TypesInv, CopyInv, TypesInv', NEW r \in OperationIds,
         requireDataOperationLeaseRenewal(r), Holds(r)
  PROVE  CopyInv' /\ SaveGoesForward
<1>. DEFINE stage == AfterRenewal(runs[r].stage)
<1>1. /\ lease' = [lease EXCEPT !.lapsed = FALSE] /\ GoesTo(r, stage)
      /\ stage \in {"upload", "verify", "list", "record"}
      /\ runs[r].stage \in {"built", "uploaded", "checked", "pruned"}
      /\ UNCHANGED <<hour, settings, astray>>
  BY RenewalEffect DEF requireDataOperationLeaseRenewal
<1>. HIDE DEF stage
<1>2. Own(r) /\ runs'[r].stage = stage /\ Keeps(r)
  BY <1>1, GoesEffect, StageNames
<1>3. /\ lease' = [token |-> r, lapsed |-> FALSE]
  BY <1>1, LeaseRenewed
<1>4. \A s \in OperationIds : Holds(s)' => Holds(s)
  BY <1>3 DEF Holds
<1>5. CopyKept(r)
  BY <1>1, <1>2, <1>4 DEF CopyKept, Started, Own, Keeps
<1>. QED  BY <1>1, <1>2, <1>5, CopyInvKept, ForwardWhenSaved

LEMMA CopyLapsed ==
  ASSUME TypesInv, CopyInv, TypesInv', LeaseLapses
  PROVE  CopyInv' /\ SaveGoesForward
<1>1. /\ UNCHANGED <<hour, settings, runs, astray>>
      /\ \A s \in OperationIds : Holds(s)' => Holds(s)
  BY DEF LeaseLapses, Holds
<1>2. CopyInv'
  BY <1>1 DEF CopyInv, InThePast, Known, Started, StillToDo, CopyIsCurrent
<1>3. SaveGoesForward
  BY <1>1, SettingsNumbers DEF SaveGoesForward
<1>. QED  BY <1>2, <1>3

LEMMA CopyLoaded ==
  ASSUME LeaseInv, CopyInv, TypesInv', NEW r \in OperationIds, loadBackupSettings(r)
  PROVE  CopyInv' /\ SaveGoesForward
<1>1. /\ Own(r) /\ hour' \in Int /\ hour \in Int /\ hour' >= hour
      /\ runs[r].stage = "load" /\ runs'[r].stage \in {"next", "change"}
      /\ runs'[r].copy = settings /\ UNCHANGED <<settings, lease, astray>>
      /\ runs'[r].at \in {hour', runs[r].at}
      /\ runs'[r].stage = "next" =>
              /\ runs'[r].at = hour' /\ runs'[r].kind = runs[r].kind
              /\ runs'[r].kind = "scheduled" =>
                   runs'[r].todo = {d \in Destinations : Due(d, settings, hour')}
  BY LoadEffect, BNumbers DEF loadBackupSettings, LeaseInv
<1>2. \A s \in OperationIds : Started(s) => Started(s)'
  BY <1>1 DEF Own, Started
<1>3. Known(settings)'
  BY <1>1, <1>2, KnownStays DEF CopyInv, InThePast, LeaseInv, Known
<1>4. ASSUME NEW s \in OperationIds, HasCopy(s)' PROVE Known(runs[s].copy)'
  <2>1. CASE s = r
    <3>1. runs'[s].copy = settings'
      BY <1>1, <2>1
    <3>. QED  BY <1>3, <3>1 DEF Known
  <2>2. CASE s # r
    <3>1. runs'[s].copy = runs[s].copy /\ HasCopy(s) /\ Known(runs[s].copy)
      BY <1>1, <1>4, <2>2 DEF Own, CopyInv, InThePast
    <3>. QED  BY <1>1, <1>2, <3>1, KnownStays DEF LeaseInv, Known
  <2>. QED  BY <2>1, <2>2
<1>5. InThePast'
  <2>1. \A s \in OperationIds : runs'[s].at <= hour'
    <3>. SUFFICES ASSUME NEW s \in OperationIds PROVE runs'[s].at <= hour'
      OBVIOUS
    <3>1. runs[s].at \in Int /\ runs[s].at <= hour /\ runs'[s].at \in {hour', runs[s].at}
      BY <1>1, AtIsNumber DEF Own, CopyInv, InThePast, LeaseInv
    <3>. QED  BY <1>1, <3>1
  <2>. QED  BY <1>3, <1>4, <2>1 DEF InThePast
<1>6. StillToDo'
  <2>. SUFFICES ASSUME NEW s \in OperationIds, HasCopy(s)',
                       runs'[s].stage \notin {"change", "reloaded"}, NEW d \in runs'[s].todo
                PROVE  /\ runs'[s].copy[d].attempt <= runs'[s].at
                       /\ runs'[s].kind = "scheduled" => runs'[s].copy[d].attempt < runs'[s].at
    BY DEF StillToDo
  <2>1. CASE s # r
    BY <1>1, <2>1 DEF Own, CopyInv, StillToDo
  <2>2. CASE s = r
    <3>1. d \in Destinations
      <4>1. runs'[s] \in RunRecord
        OBVIOUS
      <4>. QED  BY <4>1 DEF RunRecord
    <3>2. settings[d].attempt \in Int /\ settings[d].attempt <= hour
      BY <3>1, SettingsNumbers DEF LeaseInv, CopyInv, InThePast, Known
    <3>. QED  BY <1>1, <2>2, <3>1, <3>2 DEF Due
  <2>. QED  BY <2>1, <2>2
<1>7. CopyIsCurrent'
  <2>. SUFFICES ASSUME ~astray', NEW s \in OperationIds, Holds(s)', HasCopy(s)',
                       NEW d \in Destinations
                PROVE  /\ runs'[s].copy[d].edition = settings'[d].edition
                       /\ runs'[s].copy[d].attempt >= settings'[d].attempt
    BY DEF CopyIsCurrent
  <2>1. CASE s # r
    BY <1>1, <2>1 DEF Own, Holds, CopyInv, CopyIsCurrent
  <2>2. CASE s = r
    BY <1>1, <2>2, SettingsNumbers
  <2>. QED  BY <2>1, <2>2
<1>. QED  BY <1>1, <1>5, <1>6, <1>7, ForwardWhenSaved DEF CopyInv, LeaseInv

\* Steps that write a copy back.  While nobody is astray r has the lease, so
\* that its copy is the settings as they are.
LEMMA OthersHoldNothing ==
  ASSUME NEW r \in OperationIds, NEW s \in OperationIds, InForce(r), Holds(s)
  PROVE  s = r
BY DEF InForce, Holds

\* A step after which r's copy has what it had, but perhaps a later attempt.
Saves(r) ==
  /\ Own(r) /\ UNCHANGED <<hour, lease>>
  /\ runs[r].copy \in BackupSettings /\ runs'[r].copy \in BackupSettings
  /\ HasCopy(r) /\ HasCopy(r)'
  /\ runs'[r].at = runs[r].at /\ runs'[r].kind = runs[r].kind
  /\ settings' = settings \/ settings' = runs'[r].copy
  /\ astray => astray'
  /\ ~astray' => InForce(r) \/ settings' = settings
  /\ \A d \in Destinations :
       /\ runs'[r].copy[d].edition = runs[r].copy[d].edition
       /\ runs'[r].copy[d].attempt >= runs[r].copy[d].attempt
       /\ runs'[r].copy[d].attempt \in {runs[r].copy[d].attempt, runs[r].at}
  /\ runs[r].stage \notin {"change", "reloaded"}
  /\ runs'[r].todo \subseteq runs[r].todo
  /\ \A d \in runs'[r].todo : runs'[r].copy[d].attempt = runs[r].copy[d].attempt

LEMMA CopySaved ==
  ASSUME TypesInv, CopyInv, TypesInv', NEW r \in OperationIds, Saves(r)
  PROVE  /\ CopyInv'
         /\ ~astray' => \A d \in Destinations :
              /\ settings'[d].edition >= settings[d].edition
              /\ settings'[d].attempt >= settings[d].attempt
<1>0. \A s \in OperationIds : Started(s) => Started(s)'
  BY DEF Saves, Own, Started
<1>1. Known(runs[r].copy) /\ runs[r].at <= hour /\ Known(settings)
  BY DEF CopyInv, InThePast, Saves
<1>2. Known(runs[r].copy)'
  BY <1>0, <1>1 DEF Saves, Known
<1>3. Known(settings)'
  BY <1>0, <1>1, <1>2 DEF Saves, Known
<1>4. InThePast'
  <2>1. ASSUME NEW s \in OperationIds, HasCopy(s)', s # r PROVE Known(runs[s].copy)'
    BY <1>0, <2>1 DEF Saves, Own, CopyInv, InThePast, Known
  <2>2. \A s \in OperationIds : runs'[s].at <= hour'
    BY DEF Saves, Own, CopyInv, InThePast
  <2>. QED  BY <1>2, <1>3, <2>1, <2>2 DEF InThePast
<1>5. StillToDo'
  <2>. SUFFICES ASSUME NEW s \in OperationIds, HasCopy(s)',
                       runs'[s].stage \notin {"change", "reloaded"}, NEW d \in runs'[s].todo
                PROVE  /\ runs'[s].copy[d].attempt <= runs'[s].at
                       /\ runs'[s].kind = "scheduled" => runs'[s].copy[d].attempt < runs'[s].at
    BY DEF StillToDo
  <2>. QED  BY DEF Saves, Own, CopyInv, StillToDo
<1>6. ASSUME ~astray', NEW d \in Destinations, Holds(r)
      PROVE  /\ runs'[r].copy[d].edition = settings[d].edition
             /\ runs'[r].copy[d].attempt >= settings[d].attempt
  <2>1. /\ runs[r].copy[d].edition = settings[d].edition
        /\ runs[r].copy[d].attempt >= settings[d].attempt
        /\ runs'[r].copy[d].edition = runs[r].copy[d].edition
        /\ runs'[r].copy[d].attempt >= runs[r].copy[d].attempt
    BY <1>6 DEF Saves, CopyInv, CopyIsCurrent
  <2>2. /\ runs[r].copy[d].attempt \in Int /\ runs'[r].copy[d].attempt \in Int
        /\ settings[d].attempt \in Int
    BY SettingsNumbers DEF Saves
  <2>. QED  BY <2>1, <2>2
<1>7. ASSUME ~astray', NEW d \in Destinations
      PROVE  /\ settings'[d].edition >= settings[d].edition
             /\ settings'[d].attempt >= settings[d].attempt
  <2>1. settings[d].edition \in Int /\ settings[d].attempt \in Int
    BY SettingsNumbers
  <2>2. CASE settings' = settings
    BY <2>1, <2>2
  <2>3. CASE settings' # settings
    <3>1. InForce(r) /\ settings' = runs'[r].copy
      BY <1>7, <2>3 DEF Saves
    <3>2. Holds(r)
      BY <3>1 DEF InForce
    <3>. QED  BY <1>6, <1>7, <2>1, <3>1, <3>2
  <2>. QED  BY <2>2, <2>3
<1>8. CopyIsCurrent'
  <2>. SUFFICES ASSUME ~astray', NEW s \in OperationIds, Holds(s)', HasCopy(s)',
                       NEW d \in Destinations
                PROVE  /\ runs'[s].copy[d].edition = settings'[d].edition
                       /\ runs'[s].copy[d].attempt >= settings'[d].attempt
    BY DEF CopyIsCurrent
  <2>0. Holds(s)
    BY DEF Saves, Holds
  <2>1. CASE s = r
    <3>1. CASE settings' = settings
      BY <1>6, <2>0, <2>1, <3>1
    <3>2. CASE settings' = runs'[r].copy
      BY <2>1, <3>2, SettingsNumbers DEF Saves
    <3>. QED  BY <3>1, <3>2 DEF Saves
  <2>2. CASE s # r
    <3>1. ~InForce(r)
      BY <2>0, <2>2, OthersHoldNothing
    <3>2. settings' = settings
      BY <3>1 DEF Saves
    <3>. QED  BY <2>0, <2>2, <3>2 DEF Saves, Own, CopyInv, CopyIsCurrent
  <2>. QED  BY <2>1, <2>2
<1>. QED  BY <1>4, <1>5, <1>7, <1>8 DEF CopyInv

LEMMA CopyBegun ==
  ASSUME LeaseInv, CopyInv, TypesInv', NEW r \in OperationIds, beginAttempt(r)
  PROVE  LeaseInv' /\ CopyInv' /\ (astray' \/ SaveGoesForward)
<1>1. PICK d \in Destinations :
              /\ d \in runs[r].todo /\ runs'[r].destination = d
              /\ runs'[r].todo = runs[r].todo \ {d}
              /\ runs'[r].copy = [runs[r].copy EXCEPT ![d].attempt = runs[r].at]
              /\ runs'[r].copy \in BackupSettings
  BY BeginEffect DEF LeaseInv
<1>2. /\ Own(r) /\ runs[r].stage = "next" /\ runs[r].copy \in BackupSettings
      /\ runs'[r].kind = runs[r].kind /\ runs'[r].at = runs[r].at
      /\ \/ runs'[r].stage = "build" /\ settings' = runs'[r].copy
         \/ runs'[r].stage = "failed" /\ settings' = settings
      /\ UNCHANGED <<hour, lease, astray>>
  BY BeginEffect DEF LeaseInv
<1>3. /\ runs[r].copy[d].attempt <= runs[r].at
      /\ runs[r].kind = "scheduled" => runs[r].copy[d].attempt < runs[r].at
  BY <1>1, <1>2 DEF CopyInv, StillToDo
<1>4. \A e \in Destinations :
        /\ runs'[r].copy[e].edition = runs[r].copy[e].edition
        /\ e = d => runs'[r].copy[e].attempt = runs[r].at
        /\ e # d => runs'[r].copy[e].attempt = runs[r].copy[e].attempt
  <2>1. runs[r].copy \in [Destinations -> DestinationRecord] /\ runs[r].copy[d] \in DestinationRecord
    BY <1>2 DEF BackupSettings
  <2>. DEFINE c == runs[r].copy
              n == runs[r].at
              e == [c[d] EXCEPT !.attempt = n]
  <2>2. e.edition = c[d].edition /\ e.attempt = n
    BY <2>1 DEF DestinationRecord
  <2>3. runs'[r].copy = [c EXCEPT ![d] = e]
    BY <1>1
  <2>. HIDE DEF c, n, e
  <2>4. \A x \in Destinations : /\ runs'[r].copy[x].edition = c[x].edition
                                /\ x = d => runs'[r].copy[x].attempt = n
                                /\ x # d => runs'[r].copy[x].attempt = c[x].attempt
    BY <2>1, <2>2, <2>3 DEF c
  <2>. QED  BY <2>4 DEF c, n
<1>5. ~astray => InForce(r)
  BY <1>2 DEF LeaseInv, LeaseIsSure
<1>6. Saves(r)
  <2>1. \A e \in Destinations : runs[r].copy[e].attempt \in Int
    BY <1>2, SettingsNumbers
  <2>2. \A e \in Destinations :
       /\ runs'[r].copy[e].edition = runs[r].copy[e].edition
       /\ runs'[r].copy[e].attempt >= runs[r].copy[e].attempt
       /\ runs'[r].copy[e].attempt \in {runs[r].copy[e].attempt, runs[r].at}
    BY <1>1, <1>3, <1>4, <2>1
  <2>3. \A e \in runs'[r].todo : runs'[r].copy[e].attempt = runs[r].copy[e].attempt
    <3>1. runs[r].todo \subseteq Destinations
      <4>1. runs[r] \in RunRecord
        BY DEF LeaseInv
      <4>. QED  BY <4>1 DEF RunRecord
    <3>. QED  BY <1>1, <1>4, <3>1
  <2>. QED  BY <1>1, <1>2, <1>5, <2>2, <2>3 DEF Saves
<1>7. LeaseInv'
  BY <1>2, <1>5, LeaseStays DEF Started
<1>8. CopyInv'
  BY <1>6, CopySaved DEF LeaseInv
<1>9. ASSUME ~astray' PROVE SaveGoesForward
  <2>1. Holds(r)
    BY <1>2, <1>5, <1>9 DEF InForce
  <2>2. settings[d].attempt <= runs[r].copy[d].attempt
    BY <1>2, <1>9, <2>1 DEF CopyInv, CopyIsCurrent
  <2>3. /\ settings[d].attempt \in Int /\ runs[r].copy[d].attempt \in Int /\ runs[r].at \in Int
    BY <1>2, SettingsNumbers, AtIsNumber DEF LeaseInv
  <2>4. ASSUME NEW s \in OperationIds, NEW e \in Destinations,
               runs[s].kind = "scheduled", runs[s].stage = "next",
               runs'[s].stage = "build", runs'[s].destination = e
        PROVE  settings'[e].attempt > settings[e].attempt
    <3>1. s = r
      BY <1>2, <2>4 DEF Own
    <3>2. e = d /\ settings' = runs'[r].copy
      BY <1>1, <1>2, <2>4, <3>1
    <3>. QED  BY <1>3, <1>4, <2>2, <2>3, <2>4, <3>1, <3>2
  <2>5. \A e \in Destinations : /\ settings'[e].edition >= settings[e].edition
                                /\ settings'[e].attempt >= settings[e].attempt
    BY <1>6, <1>9, CopySaved DEF LeaseInv
  <2>. QED  BY <2>4, <2>5 DEF SaveGoesForward
<1>. QED  BY <1>7, <1>8, <1>9

LEMMA ForwardOtherwise ==
  ASSUME NEW r \in OperationIds, Own(r), runs'[r].stage # "build",
         \A d \in Destinations : /\ settings'[d].edition >= settings[d].edition
                                 /\ settings'[d].attempt >= settings[d].attempt
  PROVE  SaveGoesForward
BY DEF SaveGoesForward, Own

LEMMA CopyRecorded ==
  ASSUME LeaseInv, CopyInv, TypesInv', NEW r \in OperationIds, recordSuccess(r)
  PROVE  LeaseInv' /\ CopyInv' /\ (astray' \/ SaveGoesForward)
<1>1. /\ Own(r) /\ runs[r].stage = "record" /\ runs[r].copy \in BackupSettings
      /\ runs'[r].kind = runs[r].kind /\ runs'[r].at = runs[r].at
      /\ runs'[r].todo = runs[r].todo
      /\ runs'[r].copy \in BackupSettings
      /\ \A d \in Destinations : /\ runs'[r].copy[d].edition = runs[r].copy[d].edition
                                 /\ runs'[r].copy[d].attempt = runs[r].copy[d].attempt
      /\ \/ runs'[r].stage = "next" /\ settings' = runs'[r].copy
         \/ runs'[r].stage = "failed" /\ settings' = settings
      /\ UNCHANGED <<hour, lease, astray>>
  BY RecordEffect DEF LeaseInv
<1>2. InForce(r)
  BY <1>1 DEF LeaseInv, LeaseIsSure
<1>3. Saves(r)
  <2>1. \A d \in Destinations : runs[r].copy[d].attempt \in Int
    BY <1>1, SettingsNumbers
  <2>2. runs[r].todo \subseteq Destinations
    <3>1. runs[r] \in RunRecord
      BY DEF LeaseInv
    <3>. QED  BY <3>1 DEF RunRecord
  <2>. QED  BY <1>1, <1>2, <2>1, <2>2 DEF Saves
<1>4. LeaseInv'
  BY <1>1, <1>2, LeaseStays DEF Started
<1>. QED  BY <1>1, <1>3, <1>4, CopySaved, ForwardOtherwise DEF LeaseInv

LEMMA CopyFailed ==
  ASSUME LeaseInv, CopyInv, TypesInv', NEW r \in OperationIds, recordFailure(r)
  PROVE  LeaseInv' /\ CopyInv' /\ (astray' \/ SaveGoesForward)
<1>1. /\ Own(r) /\ runs[r].stage = "failed" /\ runs[r].copy \in BackupSettings
      /\ runs'[r].kind = runs[r].kind /\ runs'[r].at = runs[r].at
      /\ runs'[r].todo = runs[r].todo
      /\ UNCHANGED <<hour, lease>>
      /\ \/ /\ runs'[r].stage = "next" /\ runs'[r].copy = runs[r].copy
            /\ settings' = runs[r].copy \/ settings' = settings
         \/ runs'[r].stage = "reloaded" /\ runs'[r].copy = settings /\ settings' = settings
      /\ astray' = (astray \/ ~InForce(r))
  BY FailureEffect DEF LeaseInv
<1>2. (astray => astray') /\ (~astray' => InForce(r))
  BY <1>1
<1>3. LeaseInv'
  BY <1>1, <1>2, LeaseStays DEF Started
<1>4. CASE runs'[r].stage = "next"
  <2>1. Saves(r)
    <3>1. \A d \in Destinations : runs[r].copy[d].attempt \in Int
      BY <1>1, SettingsNumbers
    <3>2. runs[r].todo \subseteq Destinations
      <4>1. runs[r] \in RunRecord
        BY DEF LeaseInv
      <4>. QED  BY <4>1 DEF RunRecord
    <3>. QED  BY <1>1, <1>2, <1>4, <3>1, <3>2 DEF Saves
  <2>. QED  BY <1>1, <1>3, <1>4, <2>1, CopySaved, ForwardOtherwise DEF LeaseInv
<1>5. CASE runs'[r].stage = "reloaded"
  <2>0. runs'[r].copy = settings /\ settings' = settings /\ hour' = hour /\ lease' = lease
    BY <1>1, <1>5
  <2>1. \A s \in OperationIds : Started(s) => Started(s)'
    BY <1>1, <1>5 DEF Own, Started
  <2>2. Known(settings)'
    BY <2>0, <2>1 DEF CopyInv, InThePast, Known
  <2>3. ASSUME NEW s \in OperationIds, HasCopy(s)' PROVE Known(runs[s].copy)'
    <3>1. CASE s = r
      BY <2>0, <2>2, <3>1 DEF Known
    <3>2. CASE s # r
      BY <1>1, <2>0, <2>1, <2>3, <3>2 DEF Own, CopyInv, InThePast, Known
    <3>. QED  BY <3>1, <3>2
  <2>4. InThePast'
    <3>1. \A s \in OperationIds : runs'[s].at <= hour'
      BY <1>1 DEF Own, CopyInv, InThePast
    <3>. QED  BY <2>2, <2>3, <3>1 DEF InThePast
  <2>5. StillToDo'
    BY <1>1, <1>5 DEF CopyInv, StillToDo, Own
  <2>6. CopyIsCurrent'
    <3>. SUFFICES ASSUME ~astray', NEW s \in OperationIds, Holds(s)', HasCopy(s)',
                         NEW d \in Destinations
                  PROVE  /\ runs'[s].copy[d].edition = settings'[d].edition
                         /\ runs'[s].copy[d].attempt >= settings'[d].attempt
      BY DEF CopyIsCurrent
    <3>1. CASE s = r
      BY <2>0, <3>1, SettingsNumbers DEF LeaseInv
    <3>2. CASE s # r
      BY <1>1, <1>2, <2>0, <3>2 DEF Own, CopyInv, CopyIsCurrent, Holds
    <3>. QED  BY <3>1, <3>2
  <2>7. SaveGoesForward
    BY <1>1, <1>5, <2>0, ForwardWhenSaved DEF LeaseInv
  <2>. QED  BY <1>3, <2>4, <2>5, <2>6, <2>7 DEF CopyInv
<1>. QED  BY <1>1, <1>4, <1>5

LEMMA CopyLast ==
  ASSUME LeaseInv, CopyInv, TypesInv', NEW r \in OperationIds, LastStep(r)
  PROVE  CopyInv' /\ (astray' \/ SaveGoesForward)
<1>1. /\ runs[r].stage # "waiting" /\ runs'[r].stage = "over" /\ Own(r)
      /\ hour' = hour /\ astray' = astray /\ runs'[r].at <= hour
      /\ \A s \in OperationIds : Holds(s)' => Holds(s)
  BY BNumbers DEF LastStep, Holds, LeaseInv, Hours
<1>2. \A s \in OperationIds : Started(s) => Started(s)'
  BY <1>1 DEF Own, Started
<1>3. CASE settings' = settings
  <2>2. Known(settings)'
    BY <1>1, <1>2, <1>3 DEF CopyInv, InThePast, Known
  <2>3. ASSUME NEW s \in OperationIds, HasCopy(s)' PROVE Known(runs[s].copy)'
    BY <1>1, <1>2, <2>3 DEF Own, CopyInv, InThePast, Known
  <2>4. InThePast'
    BY <1>1, <2>2, <2>3 DEF InThePast, CopyInv, Own
  <2>5. StillToDo' /\ CopyIsCurrent'
    BY <1>1, <1>3 DEF CopyInv, StillToDo, CopyIsCurrent, Own
  <2>6. SaveGoesForward
    BY <1>1, <1>3, ForwardWhenSaved DEF LeaseInv
  <2>. QED  BY <2>4, <2>5, <2>6 DEF CopyInv
<1>4. CASE settings' # settings
  <2>1. /\ runs[r].stage \in {"change", "reloaded"} /\ runs[r].copy \in BackupSettings
        /\ \A d \in Destinations :
             /\ settings'[d].edition \in {r, runs[r].copy[d].edition}
             /\ settings'[d].attempt = runs[r].copy[d].attempt
    BY <1>4 DEF LastStep
  <2>2. Known(runs[r].copy) /\ HasCopy(r) /\ Started(r)
    BY <2>1 DEF CopyInv, InThePast, Started
  <2>3. Known(settings)'
    BY <1>1, <1>2, <2>1, <2>2 DEF Known
  <2>4. ASSUME NEW s \in OperationIds, HasCopy(s)' PROVE Known(runs[s].copy)'
    BY <1>1, <1>2, <2>4 DEF Own, CopyInv, InThePast, Known
  <2>5. InThePast'
    BY <1>1, <2>3, <2>4 DEF InThePast, CopyInv, Own
  <2>6. StillToDo'
    BY <1>1 DEF CopyInv, StillToDo, Own
  <2>7. ~astray => InForce(r)
    BY <2>1 DEF LeaseInv, LeaseIsSure
  <2>8. CopyIsCurrent'
    <3>. SUFFICES ASSUME ~astray', NEW s \in OperationIds, Holds(s)', HasCopy(s)' PROVE FALSE
      BY DEF CopyIsCurrent
    <3>1. s = r
      BY <1>1, <2>7, OthersHoldNothing
    <3>. QED  BY <1>1, <3>1
  <2>9. ASSUME ~astray PROVE SaveGoesForward
    <3>1. Holds(r) /\ InForce(r)
      BY <2>7, <2>9 DEF InForce
    <3>2. ASSUME NEW d \in Destinations
          PROVE  /\ settings'[d].edition >= settings[d].edition
                 /\ settings'[d].attempt >= settings[d].attempt
      <4>1. /\ runs[r].copy[d].edition = settings[d].edition
            /\ runs[r].copy[d].attempt >= settings[d].attempt
        BY <2>2, <2>9, <3>1 DEF CopyInv, CopyIsCurrent
      <4>2. settings[d].edition \in OperationIds \cup {0} /\ settings[d].edition \in Int
        BY SettingsNumbers DEF LeaseInv
      <4>3. settings[d].edition \in OperationIds => Started(settings[d].edition)
        BY DEF CopyInv, InThePast, Known
      <4>4. settings[d].edition <= r
        <5>1. lease # Unset /\ lease.token = r /\ r >= 1 /\ r \in Int
          BY <3>1, BNumbers DEF Holds
        <5>. QED  BY <4>2, <4>3, <5>1 DEF LeaseInv, InTurn
      <4>. QED  BY <2>1, <4>1, <4>2, <4>4
    <3>. QED  BY <1>1, <3>2, ForwardOtherwise
  <2>. QED  BY <1>1, <2>5, <2>6, <2>8, <2>9 DEF CopyInv
<1>. QED  BY <1>3, <1>4

-----------------------------------------------------------------------------
(* Backups: the archives, for each kind of step, and the theorems. *)

\* A step that deletes nothing and verifies nothing.
LEMMA ArchivesRest ==
  ASSUME TypesInv, OwnArchiveStands, VerifiedBackupsSurvive, NEW r \in OperationIds, Own(r),
         verified' = verified,
         \A d \in Destinations : Files(d) \subseteq Files(d)',
         \A s \in OperationIds : Holds(s)' => Holds(s) \/ runs'[s].stage = "load",
         runs'[r].stage \notin {"checked", "list", "prune"}
  PROVE  OwnArchiveStands' /\ VerifiedBackupsSurvive'
<1>1. VerifiedBackupsSurvive'
  BY DEF VerifiedBackupsSurvive
<1>2. ASSUME NEW s \in OperationIds, runs'[s].stage \in {"checked", "list", "prune"}
      PROVE  /\ runs'[s] = runs[s] /\ runs[s].destination \in Destinations
             /\ (Verified(s) => Verified(s)') /\ (Holds(s)' => Holds(s))
             /\ \A run \in runs[s].doomed :
                  (\E a \in Files(runs[s].destination) : a.run = run) =>
                  (\E a \in Files(runs[s].destination)' : a.run = run)
  <2>1. s # r /\ runs'[s] = runs[s] /\ runs[s].destination \in Destinations
    BY <1>2 DEF Own
  <2>2. ASSUME NEW d \in Destinations, d = runs[s].destination
        PROVE  \A a \in Files(runs[s].destination) : a \in Files(d)'
    BY <2>2
  <2>3. \A a \in Files(runs[s].destination) : a \in Files(runs[s].destination)'
    BY <2>1, <2>2 DEF Files
  <2>. QED  BY <1>2, <2>1, <2>3 DEF Verified
<1>3. OwnArchiveStands'
  <2>. SUFFICES ASSUME NEW s \in OperationIds
                PROVE  /\ (runs[s].stage = "checked" /\ Holds(s) => Verified(s))'
                       /\ (runs[s].stage = "list" => Verified(s))'
                       /\ (runs[s].stage = "prune" =>
                             /\ Verified(s)
                             /\ s \notin runs[s].doomed
                             /\ \A run \in runs[s].doomed :
                                  \E a \in Files(runs[s].destination) : a.run = run)'
    BY DEF OwnArchiveStands
  <2>. QED  BY <1>2 DEF OwnArchiveStands
<1>. QED  BY <1>1, <1>3

BackupsInv == LeaseInv /\ CopyInv /\ OwnArchiveStands /\ VerifiedBackupsSurvive

LEMMA ArchiveVerified ==
  ASSUME TypesInv, OwnArchiveStands, VerifiedBackupsSurvive, NEW r \in OperationIds,
         verifyArchive(r)
  PROVE  OwnArchiveStands' /\ VerifiedBackupsSurvive'
<1>1. /\ runs[r].destination \in Destinations
      /\ UNCHANGED <<settings, lease, archives, astray>>
  BY VerifyEffect
<1>2. \A d \in Destinations : Files(d)' = Files(d)
  BY <1>1 DEF Files
<1>3. \A s \in OperationIds : Holds(s)' => Holds(s)
  BY <1>1 DEF Holds
<1>4. CASE GoesTo(r, "failed") /\ verified' = verified
  <2>1. Own(r) /\ runs'[r].stage = "failed"
    BY <1>4, GoesEffect, StageNames
  <2>. QED  BY <1>2, <1>3, <1>4, <2>1, ArchivesRest
<1>5. CASE /\ GoesTo(r, "checked")
           /\ [run |-> r, intact |-> TRUE] \in Files(runs[r].destination)
           /\ verified' = verified \cup {runs[r].destination}
  <2>1. /\ Own(r) /\ runs'[r].stage = "checked" /\ runs'[r].destination = runs[r].destination
    BY <1>5, GoesEffect, StageNames
  <2>2. Verified(r)'
    BY <1>1, <1>5, <2>1 DEF Verified, Files
  <2>3. VerifiedBackupsSurvive'
    <3>. SUFFICES ASSUME NEW d \in verified' PROVE \E a \in Files(d)' : a.intact
      BY DEF VerifiedBackupsSurvive
    <3>1. CASE d = runs[r].destination
      BY <1>1, <1>2, <1>5, <3>1
    <3>2. CASE d # runs[r].destination
      BY <1>2, <1>5, <3>2 DEF VerifiedBackupsSurvive
    <3>. QED  BY <3>1, <3>2
  <2>4. ASSUME NEW s \in OperationIds, s # r
        PROVE  /\ runs'[s] = runs[s] /\ Verified(s)' = Verified(s)
               /\ Files(runs[s].destination)' = Files(runs[s].destination)
    BY <1>1, <2>1, <2>4 DEF Own, Verified, Files
  <2>5. OwnArchiveStands'
    <3>. SUFFICES ASSUME NEW s \in OperationIds
                PROVE  /\ (runs[s].stage = "checked" /\ Holds(s) => Verified(s))'
                       /\ (runs[s].stage = "list" => Verified(s))'
                       /\ (runs[s].stage = "prune" =>
                             /\ Verified(s)
                             /\ s \notin runs[s].doomed
                             /\ \A run \in runs[s].doomed :
                                  \E a \in Files(runs[s].destination) : a.run = run)'
      BY DEF OwnArchiveStands
    <3>1. CASE s = r
      BY <2>1, <2>2, <3>1
    <3>2. CASE s # r
      BY <1>3, <2>4, <3>2 DEF OwnArchiveStands
    <3>. QED  BY <3>1, <3>2
  <2>. QED  BY <2>3, <2>5
<1>. QED  BY <1>4, <1>5, VerifyEffect

LEMMA ArchivesListed ==
  ASSUME BackupsInv, NEW r \in OperationIds, listArchives(r)
  PROVE  OwnArchiveStands' /\ VerifiedBackupsSurvive'
<1>1. /\ Own(r) /\ Keeps(r)
      /\ runs[r].stage = "list" /\ runs'[r].stage \in {"pruned", "prune", "failed"}
      /\ runs'[r].destination = runs[r].destination
      /\ runs[r].destination \in Destinations
      /\ runs'[r].stage = "prune" =>
           /\ r \notin runs'[r].doomed
           /\ \A run \in runs'[r].doomed : \E a \in Files(runs[r].destination) : a.run = run
      /\ UNCHANGED <<hour, settings, lease, archives, verified, astray>>
  BY ListEffect DEF BackupsInv, LeaseInv
<1>2. Verified(r) /\ Verified(r)' = Verified(r)
  BY <1>1 DEF BackupsInv, OwnArchiveStands, Verified, Files
<1>3. \A s \in OperationIds : Files(runs[s].destination)' = Files(runs[s].destination)
  BY <1>1 DEF Own, Files
<1>4. ASSUME NEW s \in OperationIds, s # r
      PROVE  runs'[s] = runs[s] /\ Verified(s)' = Verified(s)
  <2>1. runs'[s] = runs[s]
    BY <1>1, <1>4 DEF Own
  <2>2. archives' = archives
    BY <1>1
  <2>. QED  BY <2>1, <2>2 DEF Verified, Files
<1>5. \A s \in OperationIds : Holds(s)' => Holds(s)
  BY <1>1 DEF Holds
<1>6. OwnArchiveStands'
    <3>. SUFFICES ASSUME NEW s \in OperationIds
                PROVE  /\ (runs[s].stage = "checked" /\ Holds(s) => Verified(s))'
                       /\ (runs[s].stage = "list" => Verified(s))'
                       /\ (runs[s].stage = "prune" =>
                             /\ Verified(s)
                             /\ s \notin runs[s].doomed
                             /\ \A run \in runs[s].doomed :
                                  \E a \in Files(runs[s].destination) : a.run = run)'
      BY DEF OwnArchiveStands
    <3>1. CASE s = r
      BY <1>1, <1>2, <1>3, <3>1
    <3>2. CASE s # r
      BY <1>3, <1>4, <1>5, <3>2 DEF BackupsInv, OwnArchiveStands
    <3>. QED  BY <3>1, <3>2
<1>7. VerifiedBackupsSurvive'
  BY <1>1 DEF BackupsInv, VerifiedBackupsSurvive, Files
<1>. QED  BY <1>6, <1>7

\* Whoever prunes has the lease in force, so that no other run deletes what
\* it has verified, nor it what another has just verified under the lease.
LEMMA ArchivesPruned ==
  ASSUME BackupsInv, NEW r \in OperationIds, pruneRemoteBackupArchives(r)
  PROVE  OwnArchiveStands' /\ VerifiedBackupsSurvive'
<1>1. /\ runs[r].stage = "prune" /\ Verified(r) /\ r \notin runs[r].doomed
      /\ \A run \in runs[r].doomed : \E a \in Files(runs[r].destination) : a.run = run
  BY DEF BackupsInv, OwnArchiveStands, pruneRemoteBackupArchives
<1>2. /\ Own(r) /\ Keeps(r) /\ runs[r].destination \in Destinations
      /\ runs'[r].destination = runs[r].destination
      /\ runs'[r].stage \in {"prune", "pruned", "failed"}
      /\ UNCHANGED <<hour, settings, lease, verified, astray>>
  BY <1>1, PruneEffect DEF BackupsInv, LeaseInv
<1>3. InForce(r) /\ \A s \in OperationIds : Holds(s)' => s = r
  BY <1>1, <1>2, OthersHoldNothing DEF BackupsInv, LeaseInv, LeaseIsSure, Holds
\* So no other operation lists or prunes, or checked its archive with the
\* lease.
<1>4. \A s \in OperationIds \ {r} :
        /\ runs'[s].stage \notin {"list", "prune"}
        /\ ~(runs'[s].stage = "checked" /\ Holds(s)')
  BY <1>2, <1>3, OthersHoldNothing DEF BackupsInv, LeaseInv, LeaseIsSure, Own, InForce
<1>5. CASE archives' = archives /\ runs'[r].stage # "prune"
  <2>1. \A d \in Destinations : Files(d) \subseteq Files(d)'
    BY <1>5 DEF Files
  <2>2. \A s \in OperationIds : Holds(s)' => Holds(s)
    BY <1>2 DEF Holds
  <2>. QED  BY <1>2, <1>5, <2>1, <2>2, ArchivesRest DEF BackupsInv, LeaseInv
<1>6. CASE \E run \in runs[r].doomed :
                 /\ runs'[r].doomed = runs[r].doomed \ {run} /\ runs'[r].stage = "prune"
                 /\ \A e \in Destinations : \A a \in Files(e) :
                      (e = runs[r].destination => a.run # run) => a \in Files(e)'
  <2>1. PICK run \in runs[r].doomed :
                 /\ runs'[r].doomed = runs[r].doomed \ {run} /\ runs'[r].stage = "prune"
                 /\ \A e \in Destinations : \A a \in Files(e) :
                      (e = runs[r].destination => a.run # run) => a \in Files(e)'
    BY <1>6
  <2>2. run # r
    BY <1>1
  <2>3. [run |-> r, intact |-> TRUE] \in Files(runs[r].destination)
    BY <1>1 DEF Verified
  <2>4. ASSUME NEW e \in Destinations, e = runs[r].destination
        PROVE  /\ [run |-> r, intact |-> TRUE] \in Files(e)'
               /\ \A other \in runs'[r].doomed : \E a \in Files(e)' : a.run = other
    BY <1>1, <2>1, <2>2, <2>3, <2>4
  <2>5. /\ Verified(r)' /\ r \notin runs'[r].doomed
        /\ \A other \in runs'[r].doomed : \E a \in Files(runs[r].destination)' : a.run = other
    <3>1. \A e \in Destinations : e = runs[r].destination =>
            Files(runs[r].destination)' = Files(e)'
      BY <1>2 DEF Files
    <3>. QED  BY <1>1, <1>2, <2>1, <2>4, <3>1 DEF Verified
  <2>6. OwnArchiveStands'
    <3>. SUFFICES ASSUME NEW s \in OperationIds
                PROVE  /\ (runs[s].stage = "checked" /\ Holds(s) => Verified(s))'
                       /\ (runs[s].stage = "list" => Verified(s))'
                       /\ (runs[s].stage = "prune" =>
                             /\ Verified(s)
                             /\ s \notin runs[s].doomed
                             /\ \A other \in runs[s].doomed :
                                  \E a \in Files(runs[s].destination) : a.run = other)'
      BY DEF OwnArchiveStands
    <3>1. CASE s = r
      BY <2>1, <2>5, <3>1
    <3>2. CASE s # r
      BY <1>4, <3>2
    <3>. QED  BY <3>1, <3>2
  <2>7. VerifiedBackupsSurvive'
    <3>. SUFFICES ASSUME NEW d \in verified' PROVE \E a \in Files(d)' : a.intact
      BY DEF VerifiedBackupsSurvive
    <3>0. d \in Destinations /\ d \in verified
      BY <1>2 DEF BackupsInv, LeaseInv
    <3>1. CASE d = runs[r].destination
      <4>1. [run |-> r, intact |-> TRUE] \in Files(d)'
        BY <2>4, <3>0, <3>1
      <4>. QED  BY <4>1
    <3>2. CASE d # runs[r].destination
      BY <2>1, <3>0, <3>2 DEF BackupsInv, VerifiedBackupsSurvive
    <3>. QED  BY <3>1, <3>2
  <2>. QED  BY <2>6, <2>7
<1>. QED  BY <1>1, <1>5, <1>6, PruneEffect DEF BackupsInv, LeaseInv

LEMMA ArchivesRenewed ==
  ASSUME BackupsInv, NEW r \in OperationIds, requireDataOperationLeaseRenewal(r), Holds(r)
  PROVE  OwnArchiveStands' /\ VerifiedBackupsSurvive'
<1>. DEFINE stage == AfterRenewal(runs[r].stage)
<1>1. /\ lease' = [lease EXCEPT !.lapsed = FALSE] /\ GoesTo(r, stage)
      /\ stage \in {"upload", "verify", "list", "record"}
      /\ stage = "list" => runs[r].stage = "checked"
      /\ runs[r].stage \in {"built", "uploaded", "checked", "pruned"}
      /\ UNCHANGED <<archives, verified>>
  BY RenewalEffect DEF requireDataOperationLeaseRenewal, BackupsInv, LeaseInv
<1>. HIDE DEF stage
<1>2. Own(r) /\ runs'[r].stage = stage /\ runs'[r].destination = runs[r].destination
  BY <1>1, GoesEffect, StageNames DEF BackupsInv, LeaseInv
<1>3. /\ lease' = [token |-> r, lapsed |-> FALSE]
  BY <1>1, LeaseRenewed DEF BackupsInv, LeaseInv
<1>4. \A s \in OperationIds : Holds(s)' => Holds(s)
  BY <1>3 DEF Holds
<1>5. \A s \in OperationIds : /\ Verified(s)' = Verified(s)
                              /\ Files(runs[s].destination)' = Files(runs[s].destination)
  BY <1>1, <1>2 DEF Own, Verified, Files
<1>6. OwnArchiveStands'
    <3>. SUFFICES ASSUME NEW s \in OperationIds
                PROVE  /\ (runs[s].stage = "checked" /\ Holds(s) => Verified(s))'
                       /\ (runs[s].stage = "list" => Verified(s))'
                       /\ (runs[s].stage = "prune" =>
                             /\ Verified(s)
                             /\ s \notin runs[s].doomed
                             /\ \A run \in runs[s].doomed :
                                  \E a \in Files(runs[s].destination) : a.run = run)'
      BY DEF OwnArchiveStands
    <3>1. CASE s = r
      BY <1>1, <1>2, <1>5, <3>1 DEF BackupsInv, OwnArchiveStands
    <3>2. CASE s # r
      BY <1>2, <1>4, <1>5, <3>2 DEF BackupsInv, OwnArchiveStands, Own
    <3>. QED  BY <3>1, <3>2
<1>7. VerifiedBackupsSurvive'
  BY <1>1 DEF BackupsInv, VerifiedBackupsSurvive, Files
<1>. QED  BY <1>6, <1>7

LEMMA ArchivesStay ==
  ASSUME BackupsInv, NEW r \in OperationIds,
         \/ buildBackupArchive(r) \/ uploadArchive(r)
         \/ acquireDataOperationLease(r) \/ loadBackupSettings(r)
         \/ beginAttempt(r) \/ recordSuccess(r) \/ recordFailure(r) \/ LastStep(r)
  PROVE  OwnArchiveStands' /\ VerifiedBackupsSurvive'
<1>. USE DEF BackupsInv, LeaseInv
<1>1. CASE buildBackupArchive(r)
  <2>1. PICK stage \in {"built", "failed"} : GoesTo(r, stage)
    BY <1>1 DEF buildBackupArchive
  <2>2. Own(r) /\ runs'[r].stage = stage
    BY <2>1, GoesEffect, StageNames
  <2>3. UNCHANGED <<lease, archives, verified>>
    BY <1>1 DEF buildBackupArchive
  <2>. QED  BY <2>1, <2>2, <2>3, ArchivesRest DEF Files, Holds
<1>2. CASE uploadArchive(r)
  <2>1. PICK stage \in {"uploaded", "failed"} : GoesTo(r, stage)
    BY <1>2, UploadEffect
  <2>2. Own(r) /\ runs'[r].stage = stage
    BY <2>1, GoesEffect, StageNames
  <2>3. UNCHANGED <<lease, verified>> /\ \A e \in Destinations : Files(e) \subseteq Files(e)'
    BY <1>2, UploadEffect
  <2>. QED  BY <2>1, <2>2, <2>3, ArchivesRest DEF Holds
<1>3. CASE acquireDataOperationLease(r)
  <2>1. /\ Own(r) /\ runs'[r].stage = "load" /\ UNCHANGED <<archives, verified>>
        /\ lease' = [token |-> r, lapsed |-> FALSE]
    BY <1>3, AcquireEffect DEF acquireDataOperationLease
  <2>2. \A s \in OperationIds : Holds(s)' => s = r
    BY <2>1 DEF Holds
  <2>. QED  BY <2>1, <2>2, ArchivesRest DEF Files
<1>4. CASE loadBackupSettings(r)
  <2>1. /\ Own(r) /\ runs'[r].stage \in {"next", "change"}
        /\ UNCHANGED <<lease, archives, verified>>
    BY <1>4, LoadEffect DEF loadBackupSettings
  <2>. QED  BY <2>1, ArchivesRest DEF Files, Holds
<1>5. CASE beginAttempt(r)
  <2>1. /\ Own(r) /\ runs'[r].stage \in {"build", "failed"}
        /\ UNCHANGED <<lease, archives, verified>>
    BY <1>5, BeginEffect
  <2>. QED  BY <2>1, ArchivesRest DEF Files, Holds
<1>6. CASE recordSuccess(r)
  <2>1. /\ Own(r) /\ runs'[r].stage \in {"next", "failed"}
        /\ UNCHANGED <<lease, archives, verified>>
    BY <1>6, RecordEffect
  <2>. QED  BY <2>1, ArchivesRest DEF Files, Holds
<1>7. CASE recordFailure(r)
  <2>1. /\ Own(r) /\ runs'[r].stage \in {"next", "reloaded"}
        /\ UNCHANGED <<lease, archives, verified>>
    BY <1>7, FailureEffect
  <2>. QED  BY <2>1, ArchivesRest DEF Files, Holds
<1>8. CASE LastStep(r)
  <2>1. /\ Own(r) /\ runs'[r].stage = "over" /\ UNCHANGED <<archives, verified>>
        /\ \A s \in OperationIds : Holds(s)' => Holds(s)
    BY <1>8 DEF LastStep, Holds
  <2>. QED  BY <2>1, ArchivesRest DEF Files
<1>. QED  BY <1>1, <1>2, <1>3, <1>4, <1>5, <1>6, <1>7, <1>8

LEMMA BackupsInvInit == BackupsInit => BackupsInv
<1>. SUFFICES ASSUME BackupsInit PROVE BackupsInv
  OBVIOUS
<1>1. TypesInv
  BY TypesInit
<1>2. /\ \A r \in OperationIds : runs[r].stage = "waiting" /\ runs[r].at = 0
      /\ lease = Unset /\ hour = 0 /\ verified = {}
  BY DEF BackupsInit, NoRun
<1>3. InTurn /\ LeaseIsSure
  BY <1>2 DEF InTurn, LeaseIsSure, Started
<1>4. Known(settings)
  BY <1>2, BNumbers DEF BackupsInit, FirstSettings, Known, NoAttempt
<1>5. CopyInv
  BY <1>2, <1>4 DEF CopyInv, InThePast, StillToDo, CopyIsCurrent
<1>6. OwnArchiveStands /\ VerifiedBackupsSurvive
  BY <1>2 DEF OwnArchiveStands, VerifiedBackupsSurvive
<1>. QED  BY <1>1, <1>3, <1>5, <1>6 DEF BackupsInv, LeaseInv

LEMMA BackupsInvStep ==
  BackupsInv /\ [BackupsNext]_backupVars => BackupsInv' /\ [astray' \/ SaveGoesForward]_backupVars
<1>. SUFFICES ASSUME BackupsInv, [BackupsNext]_backupVars
              PROVE  BackupsInv' /\ (astray' \/ SaveGoesForward \/ UNCHANGED backupVars)
  OBVIOUS
<1>. USE DEF BackupsInv
<1>0. TypesInv' /\ TypesInv
  BY TypesStep DEF LeaseInv
<1>1. ASSUME NEW r \in OperationIds, acquireDataOperationLease(r)
      PROVE  BackupsInv' /\ SaveGoesForward
  BY <1>0, <1>1, LeaseAcquired, CopyAcquired, ArchivesStay
<1>2. ASSUME NEW r \in OperationIds, requireDataOperationLeaseRenewal(r), Holds(r)
      PROVE  BackupsInv' /\ SaveGoesForward
  BY <1>0, <1>2, LeaseIsRenewed, CopyRenewed, ArchivesRenewed
<1>3. ASSUME NEW r \in OperationIds, LastStep(r)
      PROVE  BackupsInv' /\ (astray' \/ SaveGoesForward)
  BY <1>0, <1>3, LeaseLast, CopyLast, ArchivesStay
<1>4. ASSUME NEW r \in OperationIds, loadBackupSettings(r)
      PROVE  BackupsInv' /\ SaveGoesForward
  <2>1. /\ Own(r) /\ runs[r].stage = "load" /\ runs'[r].stage \in {"next", "change"}
        /\ UNCHANGED <<lease, astray>>
    BY <1>0, <1>4, LoadEffect DEF loadBackupSettings
  <2>2. InForce(r)
    BY <2>1 DEF LeaseInv, LeaseIsSure
  <2>3. LeaseInv'
    BY <1>0, <2>1, <2>2, LeaseStays DEF Started
  <2>. QED  BY <1>0, <1>4, <2>3, CopyLoaded, ArchivesStay
<1>5. ASSUME NEW r \in OperationIds, beginAttempt(r)
      PROVE  BackupsInv' /\ (astray' \/ SaveGoesForward)
  BY <1>0, <1>5, CopyBegun, ArchivesStay
<1>6. ASSUME NEW r \in OperationIds, recordSuccess(r)
      PROVE  BackupsInv' /\ (astray' \/ SaveGoesForward)
  BY <1>0, <1>6, CopyRecorded, ArchivesStay
<1>7. ASSUME NEW r \in OperationIds, recordFailure(r)
      PROVE  BackupsInv' /\ (astray' \/ SaveGoesForward)
  BY <1>0, <1>7, CopyFailed, ArchivesStay
<1>8. ASSUME NEW r \in OperationIds,
             \/ buildBackupArchive(r) \/ uploadArchive(r) \/ verifyArchive(r)
             \/ listArchives(r) \/ pruneRemoteBackupArchives(r)
      PROVE  BackupsInv' /\ SaveGoesForward
  <2>1. LeaseInv' /\ CopyInv' /\ SaveGoesForward
    BY <1>0, <1>8, QuietSteps, LeaseQuiet, CopyQuiet
  <2>2. OwnArchiveStands' /\ VerifiedBackupsSurvive'
    BY <1>0, <1>8, ArchivesStay, ArchiveVerified, ArchivesListed, ArchivesPruned
  <2>. QED  BY <2>1, <2>2
<1>9. CASE LeaseLapses
  <2>1. UNCHANGED <<runs, archives, verified>> /\ \A s \in OperationIds : Holds(s)' => Holds(s)
    BY <1>9 DEF LeaseLapses, Holds
  <2>2. OwnArchiveStands' /\ VerifiedBackupsSurvive'
    BY <2>1 DEF OwnArchiveStands, VerifiedBackupsSurvive, Verified, Files
  <2>. QED  BY <1>0, <1>9, <2>2, LeaseLapsed, CopyLapsed
<1>10. CASE UNCHANGED backupVars
  <2>1. LeaseInv'
    BY <1>0, <1>10 DEF backupVars, LeaseInv, InTurn, Started, LeaseIsSure, InForce, Holds
  <2>2. CopyInv'
    BY <1>10 DEF backupVars, CopyInv, InThePast, Known, Started, StillToDo, CopyIsCurrent, Holds
  <2>3. OwnArchiveStands' /\ VerifiedBackupsSurvive'
    BY <1>10 DEF backupVars, OwnArchiveStands, VerifiedBackupsSurvive, Verified, Files, Holds
  <2>. QED  BY <1>10, <2>1, <2>2, <2>3
<1>11. ASSUME NEW r \in OperationIds,
              \/ updateBackupSettings(r) \/ endRun(r) \/ recordManualFailure(r) \/ Dies(r)
              \/ ~Holds(r) /\ requireDataOperationLeaseRenewal(r)
       PROVE  BackupsInv' /\ (astray' \/ SaveGoesForward)
  BY <1>0, <1>3, <1>11, LastSteps
<1>. QED  BY <1>1, <1>2, <1>4, <1>5, <1>6, <1>7, <1>8, <1>9, <1>10, <1>11 DEF BackupsNext

\* The settings, the lease, the remote files and the operations keep the shapes
\* the code gives them (BackupSettings, the lock's row, the run's state).
THEOREM BackupsTypes == BackupsSpec => []BackupsTypeOK
<1>1. BackupsInv => BackupsTypeOK
  BY DEF BackupsInv, LeaseInv
<1>. QED  BY <1>1, BackupsInvInit, BackupsInvStep, PTL DEF BackupsSpec

\* Once an archive was verified at a destination there is always a whole one,
\* however many operations run, fail, die or lose their lease, and whatever
\* the retention counts (pruneRemoteBackupArchives, operation-lease.ts).
THEOREM GoodBackupsSurvive == BackupsSpec => []VerifiedBackupsSurvive
<1>1. BackupsInv => VerifiedBackupsSurvive
  BY DEF BackupsInv
<1>. QED  BY <1>1, BackupsInvInit, BackupsInvStep, PTL DEF BackupsSpec

\* Unless a failed run goes on with no lease in force, no save undoes an
\* administrator's change or forgets an attempt, and no scheduled run attempts
\* what was attempted in its hour (saveBackupSettings, isBackupDueNow).
THEOREM SettingsGoForward == BackupsSpec => SavesGoForward
BY BackupsInvInit, BackupsInvStep, PTL DEF BackupsSpec, SavesGoForward

HIDE DEF BackupsTypeOK, AtHand, TypesInv, HasCopy

-----------------------------------------------------------------------------

(* SendAccess. *)

SendInv == SendAccessTypeOK /\ GrantsWithinTheMaximum

LEMMA NothingIsNoNumber == \A n \in Int : n # Nothing
BY SendAccessAssumption

LEMMA CountedIsFinite ==
  /\ IsFiniteSet(Counted)
  /\ IsFiniteSet(Counted)'
BY SendAccessAssumption, FS_Subset DEF Counted

LEMMA SendInvInit == SendAccessInit => SendInv
<1>. SUFFICES ASSUME SendAccessInit PROVE SendInv
  OBVIOUS
<1>1. SendAccessTypeOK
  BY SendAccessAssumption DEF SendAccessInit, SendAccessTypeOK, SendRow, Days, Dates
<1>2. Counted = {}
  BY DEF SendAccessInit, Counted
<1>3. GrantsWithinTheMaximum
  BY <1>2, FS_EmptySet, SendAccessAssumption DEF SendAccessInit, GrantsWithinTheMaximum
<1>. QED  BY <1>1, <1>3 DEF SendInv

\* A step after which as many visitors are counted, and the row's count and
\* maximum are the same.
LEMMA SameCount ==
  ASSUME SendInv, Counted' = Counted, send'.count = send.count, send'.max = send.max
  PROVE  GrantsWithinTheMaximum'
BY DEF SendInv, GrantsWithinTheMaximum

LEMMA SendInvStep == SendInv /\ [SendAccessNext]_sendAccessVars => SendInv'
<1>. SUFFICES ASSUME SendInv, [SendAccessNext]_sendAccessVars PROVE SendInv'
  OBVIOUS
<1>0. /\ send \in SendRow /\ send.count \in Nat /\ send.max \in Nat \cup {Nothing}
      /\ today \in Days /\ today \in Dates
  <2>1. send \in SendRow /\ today \in Days
    BY DEF SendInv, SendAccessTypeOK
  <2>2. send.count \in Nat /\ send.max \in Maxima
    BY <2>1 DEF SendRow
  <2>3. today \in Dates
    BY <2>1, SendAccessAssumption DEF Days, Dates
  <2>. QED  BY <2>1, <2>2, <2>3, SendAccessAssumption
<1>1. ASSUME NEW v \in Visitors, grantSendAccess(v) \/ accessSendWithToken(v) PROVE SendInv'
  <2>1. Counted' = Counted
    BY <1>1 DEF grantSendAccess, accessSendWithToken, VisitBecomes, Counted, SendInv,
                SendAccessTypeOK
  <2>2. SendAccessTypeOK'
    BY <1>1 DEF grantSendAccess, accessSendWithToken, VisitBecomes, SendInv, SendAccessTypeOK
  <2>3. send' = send
    BY <1>1 DEF grantSendAccess, accessSendWithToken
  <2>. QED  BY <2>1, <2>2, <2>3, SameCount DEF SendInv
<1>2. ASSUME NEW v \in Visitors, consumeAccess(v) PROVE SendInv'
  <2>1. CASE Undeleted /\ Offered /\ BelowMaximum
    <3>1. PICK stage \in {"opened", "counted"} : VisitBecomes(v, stage)
      BY <1>2, <2>1 DEF consumeAccess
    <3>2. Counted' = Counted \cup {v} /\ v \notin Counted
      BY <1>2, <3>1 DEF consumeAccess, VisitBecomes, Counted, SendInv, SendAccessTypeOK
    <3>3. Cardinality(Counted') = Cardinality(Counted) + 1
      BY <3>2, CountedIsFinite, FS_AddElement
    <3>4. send' = [send EXCEPT !.count = @ + 1]
      BY <1>2, <2>1 DEF consumeAccess
    <3>5. send' \in SendRow /\ send'.count = send.count + 1 /\ send'.max = send.max
      BY <1>0, <3>4 DEF SendRow
    <3>6. SendAccessTypeOK'
      BY <1>2, <3>1, <3>5 DEF consumeAccess, VisitBecomes, SendInv, SendAccessTypeOK
    <3>7. send.max # Nothing => send.count + 1 <= send.max
      BY <1>0, <2>1 DEF BelowMaximum
    <3>8. GrantsWithinTheMaximum'
      BY <3>3, <3>5, <3>7 DEF SendInv, GrantsWithinTheMaximum
    <3>. QED  BY <3>6, <3>8 DEF SendInv
  <2>2. CASE ~(Undeleted /\ Offered /\ BelowMaximum)
    <3>1. send' = send /\ VisitBecomes(v, "refused") /\ visit[v] = "read"
      BY <1>2, <2>2 DEF consumeAccess
    <3>2. Counted' = Counted
      BY <3>1 DEF VisitBecomes, Counted, SendInv, SendAccessTypeOK
    <3>3. SendAccessTypeOK'
      BY <1>2, <3>1 DEF consumeAccess, VisitBecomes, SendInv, SendAccessTypeOK
    <3>. QED  BY <3>1, <3>2, <3>3, SameCount DEF SendInv
  <2>. QED  BY <2>1, <2>2
<1>3. ASSUME NEW v \in Visitors, answerVisit(v) PROVE SendInv'
  <2>1. Counted' = Counted
    BY <1>3 DEF answerVisit, VisitBecomes, Counted, SendInv, SendAccessTypeOK
  <2>2. SendAccessTypeOK' /\ send' = send
    BY <1>3 DEF answerVisit, VisitBecomes, SendInv, SendAccessTypeOK
  <2>. QED  BY <2>1, <2>2, SameCount DEF SendInv
\* The owner's requests write other columns.
<1>4. ASSUME NEW w \in SendEdits, requireSend(w) \/ updateSend(w) \/ deleteSend(w)
      PROVE  SendInv'
  <2>1. /\ send' \in SendRow /\ send'.count = send.count /\ send'.max = send.max
        /\ today' = today /\ visit' = visit
    <3>1. CASE requireSend(w)
      BY <1>0, <3>1 DEF requireSend
    <3>2. CASE updateSend(w)
      <4>. PICK disabled \in BOOLEAN, deletes \in Dates, expires \in Dates \cup {Nothing} :
             send' \in {send, [send EXCEPT !.disabled = disabled],
                        [send EXCEPT !.deletes = deletes],
                        [send EXCEPT !.expires = expires]}
        BY <3>2 DEF updateSend, LeftAlone
      <4>. QED  BY <1>0, <3>2 DEF updateSend, SendRow
    <3>3. CASE deleteSend(w)
      BY <1>0, <3>3 DEF deleteSend, SendRow
    <3>. QED  BY <1>4, <3>1, <3>2, <3>3
  <2>2. edit' \in [SendEdits -> [stage : {"new", "read", "done"}, count : Nat]]
    <3>1. CASE requireSend(w)
      BY <1>0, <3>1 DEF requireSend, SendInv, SendAccessTypeOK
    <3>2. CASE updateSend(w) \/ deleteSend(w)
      BY <3>2 DEF updateSend, deleteSend, SendInv, SendAccessTypeOK
    <3>. QED  BY <1>4, <3>1, <3>2
  <2>3. SendAccessTypeOK' /\ Counted' = Counted
    BY <2>1, <2>2 DEF SendInv, SendAccessTypeOK, Counted
  <2>. QED  BY <2>1, <2>3, SameCount DEF SendInv
<1>5. ASSUME DayPasses PROVE SendInv'
  <2>1. SendAccessTypeOK' /\ Counted' = Counted /\ send' = send
    BY <1>5, SendAccessAssumption DEF DayPasses, SendInv, SendAccessTypeOK, Days, Counted
  <2>. QED  BY <2>1, SameCount DEF SendInv
<1>6. CASE UNCHANGED sendAccessVars
  <2>1. SendAccessTypeOK' /\ Counted' = Counted /\ send' = send
    BY <1>6 DEF sendAccessVars, SendInv, SendAccessTypeOK, Counted
  <2>. QED  BY <2>1, SameCount DEF SendInv
<1>. QED  BY <1>1, <1>2, <1>3, <1>4, <1>5, <1>6 DEF SendAccessNext

\* The Send's row, the visits and the owner's requests keep their shapes.
THEOREM SendAccessTypes == SendAccessSpec => []SendAccessTypeOK
<1>1. SendInv => SendAccessTypeOK
  BY DEF SendInv
<1>. QED  BY <1>1, SendInvInit, SendInvStep, PTL DEF SendAccessSpec

\* Every visit let in is counted and no more are let in than the maximum
\* allows, for any number of visitors, whatever the owner writes between
\* (consumeAccess).
THEOREM VisitsStayWithinMaximum == SendAccessSpec => []GrantsWithinTheMaximum
<1>1. SendInv => GrantsWithinTheMaximum
  BY DEF SendInv
<1>. QED  BY <1>1, SendInvInit, SendInvStep, PTL DEF SendAccessSpec

-----------------------------------------------------------------------------

(* Storage. *)

\* The part of Storage that a behaviour drives runs as it would by itself, and
\* the others rest: so what is proved of each holds of their composition.
THEOREM PartsRunAsThemselves ==
  StorageSpec => Spec /\ RestoreSpec /\ BackupsSpec /\ SendAccessSpec
<1>1. StorageInit => Init /\ RestoreInit /\ BackupsInit /\ SendAccessInit
  BY DEF StorageInit, QuietBackups, QuietSendAccess
<1>2. [StorageNext]_storageVars => [Next]_vars
  BY DEF StorageNext, storageVars
<1>3. [StorageNext]_storageVars => [RestoreNext]_restoreTableVars
  BY DEF StorageNext, storageVars
<1>4. [StorageNext]_storageVars => [BackupsNext]_backupVars
  BY DEF StorageNext, storageVars
<1>5. [StorageNext]_storageVars => [SendAccessNext]_sendAccessVars
  BY DEF StorageNext, storageVars
<1>. QED
  BY <1>1, <1>2, <1>3, <1>4, <1>5, PTL
     DEF StorageSpec, Spec, RestoreSpec, BackupsSpec, SendAccessSpec

\* The types of the component a behaviour drives, and of the others at rest,
\* from those of each alone.
THEOREM StorageTypes == StorageSpec => []StorageTypeOK
<1>1. StorageSpec => []TypeOK /\ []RestoreTypeOK /\ []BackupsTypeOK /\ []SendAccessTypeOK
  BY PartsRunAsThemselves, TypeCorrect, RestoreTypes, BackupsTypes, SendAccessTypes
<1>2. StorageSpec => [](driven \in StorageParts)
  <2>1. StorageInit => driven \in StorageParts
    BY DEF StorageInit
  <2>2. driven \in StorageParts /\ [StorageNext]_storageVars => (driven \in StorageParts)'
    BY DEF StorageNext, storageVars
  <2>. QED  BY <2>1, <2>2, PTL DEF StorageSpec
<1>3. /\ TypeOK /\ RestoreTypeOK /\ BackupsTypeOK /\ SendAccessTypeOK
      /\ driven \in StorageParts
      => StorageTypeOK
  BY DEF StorageTypeOK
<1>. QED  BY <1>1, <1>2, <1>3, PTL
=============================================================================
