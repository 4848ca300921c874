--------------------------- MODULE BlobLifecycle ----------------------------
(***************************************************************************)
(* Encrypted file objects of attachments and file Sends: how a key gets    *)
(* stored in R2 or KV, referenced by a row of D1, replaced, queued for     *)
(* garbage collection and erased, while a restore may replace every row.   *)
(*                                                                         *)
(* Two stores are involved and no transaction spans them: D1 (row, ref,    *)
(* queue) and the object store (blobs).  Every request interleaves with    *)
(* every other; a request may die at any step, a D1 batch may commit and   *)
(* still throw, and a put or a delete may throw before or after its effect.*)
(* Time is abstracted: a due time that passes is a nondeterministic choice,*)
(* and a claim on a queue row is identified by the drain that made it.     *)
(***************************************************************************)
EXTENDS FiniteSets

CONSTANTS
    Attachments,   \* attachment ids
    FileSends,     \* ids of file Sends
    Uploads,       \* direct upload requests, each with a fresh object key
    Target,        \* the attachment or file Send each upload is for
    Drains,        \* runs of drainBlobGcQueue
    Restores,      \* runs of the backup importer
    NoKey,         \* "no storage key"
    Failures       \* which of {"upload", "gc", "restore"} may fail

Entities == Attachments \cup FileSends

UploadsFor(entities) == {u \in Uploads : Target[u] \in entities}

(***************************************************************************)
(* An upload's key is the upload itself and a restore's key for an entity  *)
(* is the pair: both carry a random part in the code.  A file Send is      *)
(* created with a key of its own under which nothing is ever stored; that  *)
(* placeholder is the Send itself.                                         *)
(***************************************************************************)
RestoreKeys == Restores \X Entities

Keys == Uploads \cup FileSends \cup RestoreKeys

ASSUME KeyAssumption ==
    /\ Attachments \cap FileSends = {}
    /\ Uploads \cap FileSends = {}
    /\ Uploads \cap RestoreKeys = {}
    /\ FileSends \cap RestoreKeys = {}
    /\ NoKey \notin Keys
    /\ Target \in [Uploads -> Entities]
    /\ {"absent", "due"} \cap Drains = {}

VARIABLES
    row,       \* each entity's row in D1
    ref,       \* the storage key in that row
    queue,     \* blob_gc_queue: absent, due, or the drain holding the claim
    blobs,     \* keys stored in the object store
    upload,    \* where each upload request is
    expected,  \* the Send key an upload read when it started
    drain,     \* where each drain is with its current queue row
    target,    \* the key of that queue row
    restore,   \* where each restore is
    archive,   \* the rows in the restore's shadow tables
    previous,  \* the keys the restore collected as "current"
    staged     \* entities whose files the restore has stored

database == <<row, ref, queue>>
uploadVars == <<upload, expected>>
drainVars == <<drain, target>>
restoreVars == <<restore, archive, previous, staged>>

vars == <<database, blobs, uploadVars, drainVars, restoreVars>>

(***************************************************************************)
(* "pending" is a row of attachment_uploads, "gone" an id that has no row  *)
(* any more and is never issued again.                                     *)
(***************************************************************************)
RowStates == {"unborn", "pending", "gone", "live", "deleted"}
ArchiveRows == [Entities -> {"gone", "live", "deleted"}]
UploadPhases ==
    {"idle", "putting", "stored", "rechecking", "discarding", "done", "dead"}
DrainPhases == {"idle", "claimed", "referenced", "unreferenced", "erased"}
RestorePhases == {"idle", "staging", "failed", "done"}

HasRow(e) == row[e] \in {"live", "deleted"}

\* A logically deleted row references its object as much as a live one.
Referenced(k) == \E e \in Entities : HasRow(e) /\ ref[e] = k

Init ==
    /\ row = [e \in Entities |-> "unborn"]
    /\ ref = [e \in Entities |-> NoKey]
    /\ queue = [k \in Keys |-> "absent"]
    /\ blobs = {}
    /\ upload = [u \in Uploads |-> "idle"]
    /\ expected = [u \in Uploads |-> NoKey]
    /\ drain = [d \in Drains |-> "idle"]
    /\ target = [d \in Drains |-> NoKey]
    /\ restore = [r \in Restores |-> "idle"]
    /\ archive = [r \in Restores |-> [e \in Entities |-> "gone"]]
    /\ previous = [r \in Restores |-> {}]
    /\ staged = [r \in Restores |-> {}]

\* INSERT OR IGNORE: a key that is already queued keeps its row and claim.
Enqueue(q, keys) ==
    [k \in Keys |-> IF k \in keys /\ q[k] = "absent" THEN "due" ELSE q[k]]

-----------------------------------------------------------------------------
(* Rows *)

CreateAttachment(a) ==
    /\ row[a] = "unborn"
    /\ row' = [row EXCEPT ![a] = "pending"]
    /\ UNCHANGED <<ref, queue, blobs, uploadVars, drainVars, restoreVars>>

\* Maintenance removes an upload row whose time is over.
ExpirePending(a) ==
    /\ row[a] = "pending"
    /\ row' = [row EXCEPT ![a] = "gone"]
    /\ UNCHANGED <<ref, queue, blobs, uploadVars, drainVars, restoreVars>>

CreateFileSend(s) ==
    /\ row[s] = "unborn"
    /\ row' = [row EXCEPT ![s] = "live"]
    /\ ref' = [ref EXCEPT ![s] = s]
    /\ UNCHANGED <<queue, blobs, uploadVars, drainVars, restoreVars>>

\* Deletion is logical: the row, its key and its object stay.
DeleteAttachment(a) ==
    /\ row[a] = "live"
    /\ row' = [row EXCEPT ![a] = "deleted"]
    /\ UNCHANGED <<ref, queue, blobs, uploadVars, drainVars, restoreVars>>

\* On request, or when the Send's deletion date passes.
DeleteSend(s) ==
    /\ row[s] = "live"
    /\ row' = [row EXCEPT ![s] = "deleted"]
    /\ UNCHANGED <<ref, queue, blobs, uploadVars, drainVars, restoreVars>>

-----------------------------------------------------------------------------
(* Direct uploads *)

AttachmentUploadStart(u) ==
    /\ Target[u] \in Attachments
    /\ upload[u] = "idle"
    /\ row[Target[u]] = "pending"
    /\ upload' = [upload EXCEPT ![u] = "putting"]
    /\ UNCHANGED <<database, blobs, expected, drainVars, restoreVars>>

SendUploadStart(u) ==
    /\ Target[u] \in FileSends
    /\ upload[u] = "idle"
    /\ row[Target[u]] = "live"
    /\ upload' = [upload EXCEPT ![u] = "putting"]
    /\ expected' = [expected EXCEPT ![u] = ref[Target[u]]]
    /\ UNCHANGED <<database, blobs, drainVars, restoreVars>>

UploadPut(u) ==
    /\ upload[u] = "putting"
    /\ upload' = [upload EXCEPT ![u] = "stored"]
    /\ blobs' = blobs \cup {u}
    /\ UNCHANGED <<database, expected, drainVars, restoreVars>>

\* The put throws; whether the object was stored is unknown to the handler.
UploadPutThrows(u) ==
    /\ "upload" \in Failures
    /\ upload[u] = "putting"
    /\ upload' = [upload EXCEPT ![u] = "discarding"]
    /\ blobs' \in {blobs, blobs \cup {u}}
    /\ expected' = [expected EXCEPT ![u] = NoKey]
    /\ UNCHANGED <<database, drainVars, restoreVars>>

\* Deviation: INSERT OR REPLACE, without the pending row.
PublishAttachmentAlways(u) ==
    /\ row' = [row EXCEPT ![Target[u]] = "live"]
    /\ ref' = [ref EXCEPT ![Target[u]] = u]
    /\ UNCHANGED queue

\* The batch: the row appears only in exchange for the pending one.
PublishAttachment(u) ==
    /\ IF row[Target[u]] = "pending"
       THEN /\ row' = [row EXCEPT ![Target[u]] = "live"]
            /\ ref' = [ref EXCEPT ![Target[u]] = u]
       ELSE UNCHANGED <<row, ref>>
    /\ UNCHANGED queue

CanPublishSend(u) ==
    row[Target[u]] = "live" /\ ref[Target[u]] = expected[u]

\* Deviation: the replaced key is not queued.
PublishSendOnly(u) ==
    /\ ref' = IF CanPublishSend(u)
              THEN [ref EXCEPT ![Target[u]] = u] ELSE ref
    /\ UNCHANGED <<row, queue>>

\* The batch: compare-and-set on the key read at the start; the replaced key
\* is queued with it.
PublishSend(u) ==
    /\ IF CanPublishSend(u)
       THEN /\ ref' = [ref EXCEPT ![Target[u]] = u]
            /\ queue' = Enqueue(queue, {expected[u]})
       ELSE UNCHANGED <<ref, queue>>
    /\ UNCHANGED row

AttachmentUploadPublish(u) ==
    /\ Target[u] \in Attachments
    /\ upload[u] = "stored"
    /\ PublishAttachment(u)
    /\ upload' = [upload EXCEPT ![u] = "rechecking"]
    /\ UNCHANGED <<blobs, expected, drainVars, restoreVars>>

\* The handler reads the row again to learn whether its key was published.
AttachmentUploadRecheck(u) ==
    /\ upload[u] = "rechecking"
    /\ upload' = [upload EXCEPT ![u] =
                     IF HasRow(Target[u]) /\ ref[Target[u]] = u
                     THEN "done" ELSE "discarding"]
    /\ UNCHANGED <<database, blobs, expected, drainVars, restoreVars>>

SendUploadPublish(u) ==
    /\ Target[u] \in FileSends
    /\ upload[u] = "stored"
    /\ PublishSend(u)
    /\ upload' = [upload EXCEPT ![u] =
                     IF CanPublishSend(u) THEN "done" ELSE "discarding"]
    /\ expected' = [expected EXCEPT ![u] = NoKey]
    /\ UNCHANGED <<blobs, drainVars, restoreVars>>

\* The batch throws, before or after it committed.
UploadPublishThrows(u) ==
    /\ "upload" \in Failures
    /\ upload[u] = "stored"
    /\ \/ UNCHANGED database
       \/ Target[u] \in Attachments /\ PublishAttachment(u)
       \/ Target[u] \in FileSends /\ PublishSend(u)
    /\ upload' = [upload EXCEPT ![u] = "discarding"]
    /\ expected' = [expected EXCEPT ![u] = NoKey]
    /\ UNCHANGED <<blobs, drainVars, restoreVars>>

UploadDiscard(u) ==
    /\ upload[u] = "discarding"
    /\ queue' = Enqueue(queue, {u})
    /\ upload' = [upload EXCEPT ![u] = "done"]
    /\ UNCHANGED <<row, ref, blobs, expected, drainVars, restoreVars>>

\* The Worker dies, or D1 refuses the queue row: the object is left behind.
UploadDies(u) ==
    /\ "upload" \in Failures
    /\ upload[u] \notin {"idle", "done", "dead"}
    /\ upload' = [upload EXCEPT ![u] = "dead"]
    /\ expected' = [expected EXCEPT ![u] = NoKey]
    /\ UNCHANGED <<database, blobs, drainVars, restoreVars>>

-----------------------------------------------------------------------------
(* Garbage collection of one queue row *)

\* Compare-and-set on the row's due time.  A row held by another drain is
\* due again once that drain's claim has run out.
GcClaim(d, k) ==
    /\ drain[d] = "idle"
    /\ queue[k] # "absent"
    /\ queue' = [queue EXCEPT ![k] = d]
    /\ drain' = [drain EXCEPT ![d] = "claimed"]
    /\ target' = [target EXCEPT ![d] = k]
    /\ UNCHANGED <<row, ref, blobs, uploadVars, restoreVars>>

GcCheck(d) ==
    /\ drain[d] = "claimed"
    /\ drain' = [drain EXCEPT ![d] =
                    IF Referenced(target[d]) THEN "referenced"
                                             ELSE "unreferenced"]
    /\ UNCHANGED <<database, blobs, target, uploadVars, restoreVars>>

\* DELETE ... WHERE the row still carries this drain's claim.
RemoveClaim(d) ==
    queue' = IF queue[target[d]] = d
             THEN [queue EXCEPT ![target[d]] = "absent"] ELSE queue

\* The drain is done with its row.
Rest(d) ==
    /\ drain' = [drain EXCEPT ![d] = "idle"]
    /\ target' = [target EXCEPT ![d] = NoKey]

GcDropReferenced(d) ==
    /\ drain[d] = "referenced"
    /\ RemoveClaim(d)
    /\ Rest(d)
    /\ UNCHANGED <<row, ref, blobs, uploadVars, restoreVars>>

GcErase(d) ==
    /\ drain[d] = "unreferenced"
    /\ blobs' = blobs \ {target[d]}
    /\ drain' = [drain EXCEPT ![d] = "erased"]
    /\ UNCHANGED <<database, target, uploadVars, restoreVars>>

\* Deviation: a failed delete takes the row out of the queue.
GcEraseFailsAndForgets(d) ==
    /\ "gc" \in Failures
    /\ drain[d] = "unreferenced"
    /\ blobs' \in {blobs, blobs \ {target[d]}}
    /\ RemoveClaim(d)
    /\ Rest(d)
    /\ UNCHANGED <<row, ref, uploadVars, restoreVars>>

\* The delete throws, with or without effect; the row is put off.
GcEraseFails(d) ==
    /\ "gc" \in Failures
    /\ drain[d] = "unreferenced"
    /\ blobs' \in {blobs, blobs \ {target[d]}}
    /\ queue' = IF queue[target[d]] = d
                THEN [queue EXCEPT ![target[d]] = "due"] ELSE queue
    /\ Rest(d)
    /\ UNCHANGED <<row, ref, uploadVars, restoreVars>>

GcForget(d) ==
    /\ drain[d] = "erased"
    /\ RemoveClaim(d)
    /\ Rest(d)
    /\ UNCHANGED <<row, ref, blobs, uploadVars, restoreVars>>

\* The Worker dies; its claim stays on the row until it runs out.
GcDies(d) ==
    /\ "gc" \in Failures
    /\ drain[d] # "idle"
    /\ Rest(d)
    /\ UNCHANGED <<database, blobs, uploadVars, restoreVars>>

-----------------------------------------------------------------------------
(* Restores, one at a time: they run under the data operation lease *)

Active(r) == restore[r] \in {"staging", "failed"}

ReferencedKeys == {ref[e] : e \in {x \in Entities : HasRow(x)}}

Archived(r) == {e \in Entities : archive[r][e] # "gone"}

NoRows == [e \in Entities |-> "gone"]

\* The keys in use are collected and the shadow tables filled; rows whose
\* file is missing from the archive do not survive into them.
RestoreStart(r) ==
    /\ restore[r] = "idle"
    /\ ~ \E other \in Restores : Active(other)
    /\ restore' = [restore EXCEPT ![r] = "staging"]
    /\ archive' \in {[archive EXCEPT ![r] = rows] : rows \in ArchiveRows}
    /\ previous' = [previous EXCEPT ![r] = ReferencedKeys]
    /\ UNCHANGED <<staged, database, blobs, uploadVars, drainVars>>

RestoreStage(r, e) ==
    /\ restore[r] = "staging"
    /\ e \in Archived(r) \ staged[r]
    /\ blobs' = blobs \cup {<<r, e>>}
    /\ staged' = [staged EXCEPT ![r] = @ \cup {e}]
    /\ UNCHANGED <<restore, archive, previous, database, uploadVars, drainVars>>

\* A put throws: its key is not remembered, whether it was stored or not.
RestoreStageThrows(r, e) ==
    /\ "restore" \in Failures
    /\ restore[r] = "staging"
    /\ e \in Archived(r) \ staged[r]
    /\ blobs' \in {blobs, blobs \cup {<<r, e>>}}
    /\ restore' = [restore EXCEPT ![r] = "failed"]
    /\ archive' = [archive EXCEPT ![r] = NoRows]
    /\ UNCHANGED <<previous, staged, database, uploadVars, drainVars>>

\* Any other step throws, the swap without having committed included.
RestoreFail(r) ==
    /\ "restore" \in Failures
    /\ restore[r] = "staging"
    /\ restore' = [restore EXCEPT ![r] = "failed"]
    /\ archive' = [archive EXCEPT ![r] = NoRows]
    /\ UNCHANGED <<previous, staged, database, blobs, uploadVars, drainVars>>

\* The batch that empties the live tables, queues the keys collected at the
\* start and copies the shadow tables.  Rows of attachment_uploads fall with
\* their ciphers.
SwapTables(r) ==
    /\ row' = [e \in Entities |->
                  IF e \in Archived(r) THEN archive[r][e]
                  ELSE IF row[e] = "unborn" THEN "unborn" ELSE "gone"]
    /\ ref' = [e \in Entities |->
                  IF e \in Archived(r) THEN <<r, e>> ELSE NoKey]
    /\ queue' = Enqueue(queue, previous[r])

\* Deviation: the tables are switched before every file is stored.
RestoreSwapEarly(r) ==
    /\ restore[r] = "staging"
    /\ SwapTables(r)
    /\ restore' = [restore EXCEPT ![r] = "done"]
    /\ archive' = [archive EXCEPT ![r] = NoRows]
    /\ previous' = [previous EXCEPT ![r] = {}]
    /\ staged' = [staged EXCEPT ![r] = {}]
    /\ UNCHANGED <<blobs, uploadVars, drainVars>>

RestoreSwap(r) ==
    /\ restore[r] = "staging"
    /\ staged[r] = Archived(r)
    /\ SwapTables(r)
    /\ restore' = [restore EXCEPT ![r] = "done"]
    /\ archive' = [archive EXCEPT ![r] = NoRows]
    /\ previous' = [previous EXCEPT ![r] = {}]
    /\ staged' = [staged EXCEPT ![r] = {}]
    /\ UNCHANGED <<blobs, uploadVars, drainVars>>

\* The batch committed and the call threw all the same: the importer takes
\* it for a failure.
RestoreSwapThrows(r) ==
    /\ "restore" \in Failures
    /\ restore[r] = "staging"
    /\ staged[r] = Archived(r)
    /\ SwapTables(r)
    /\ restore' = [restore EXCEPT ![r] = "failed"]
    /\ archive' = [archive EXCEPT ![r] = NoRows]
    /\ UNCHANGED <<previous, staged, blobs, uploadVars, drainVars>>

\* The failure path queues what it remembers having stored.
RestoreDiscard(r) ==
    /\ restore[r] = "failed"
    /\ queue' = Enqueue(queue, {r} \X staged[r])
    /\ restore' = [restore EXCEPT ![r] = "done"]
    /\ previous' = [previous EXCEPT ![r] = {}]
    /\ staged' = [staged EXCEPT ![r] = {}]
    /\ UNCHANGED <<archive, row, ref, blobs, uploadVars, drainVars>>

\* The Worker dies, or queueing fails and the failure is swallowed.
RestoreDies(r) ==
    /\ "restore" \in Failures
    /\ Active(r)
    /\ restore' = [restore EXCEPT ![r] = "done"]
    /\ archive' = [archive EXCEPT ![r] = NoRows]
    /\ previous' = [previous EXCEPT ![r] = {}]
    /\ staged' = [staged EXCEPT ![r] = {}]
    /\ UNCHANGED <<database, blobs, uploadVars, drainVars>>

-----------------------------------------------------------------------------

RowStep ==
    \/ \E a \in Attachments :
          CreateAttachment(a) \/ ExpirePending(a) \/ DeleteAttachment(a)
    \/ \E s \in FileSends : CreateFileSend(s) \/ DeleteSend(s)

\* The handlers differ in how an upload begins and is published.
AttachmentUploadStep(u) ==
    AttachmentUploadStart(u) \/ AttachmentUploadPublish(u) \/ AttachmentUploadRecheck(u)

SendUploadStep(u) == SendUploadStart(u) \/ SendUploadPublish(u)

AnyUploadStep(u) ==
    \/ UploadPut(u) \/ UploadPutThrows(u) \/ UploadPublishThrows(u)
    \/ UploadDiscard(u) \/ UploadDies(u)

GcStep(d) ==
    \/ \E k \in Keys : GcClaim(d, k)
    \/ GcCheck(d) \/ GcDropReferenced(d) \/ GcErase(d)
    \/ GcEraseFails(d) \/ GcForget(d) \/ GcDies(d)

RestoreStep(r) ==
    \/ RestoreStart(r)
    \/ \E e \in Entities : RestoreStage(r, e) \/ RestoreStageThrows(r, e)
    \/ RestoreFail(r) \/ RestoreSwap(r) \/ RestoreSwapThrows(r)
    \/ RestoreDiscard(r) \/ RestoreDies(r)

Next ==
    \/ RowStep
    \/ \E u \in UploadsFor(Attachments) : AttachmentUploadStep(u)
    \/ \E u \in UploadsFor(FileSends) : SendUploadStep(u)
    \/ \E u \in Uploads : AnyUploadStep(u)
    \/ \E d \in Drains : GcStep(d)
    \/ \E r \in Restores : RestoreStep(r)

Spec == Init /\ [][Next]_vars

(***************************************************************************)
(* Requests that do not die finish.  Maintenance runs every hour and takes *)
(* the queue rows that are due, so a row that stays queued is claimed and  *)
(* tried again and again, and a store that is only sometimes unavailable   *)
(* accepts one of the deletes.                                             *)
(***************************************************************************)
Fairness ==
    /\ \A u \in Uploads : WF_vars(UploadPut(u) \/ AttachmentUploadPublish(u)
                                  \/ AttachmentUploadRecheck(u)
                                  \/ SendUploadPublish(u) \/ UploadDiscard(u))
    /\ \A d \in Drains : WF_vars(GcDropReferenced(d) \/ GcForget(d))
    /\ \A k \in Keys : /\ SF_vars(\E d \in Drains : GcClaim(d, k))
                       /\ SF_vars(\E d \in Drains : target[d] = k /\ GcCheck(d))
                       /\ SF_vars(\E d \in Drains : target[d] = k /\ GcErase(d))

FairSpec == Spec /\ Fairness

-----------------------------------------------------------------------------
(* Properties *)

\* Rows, requests and queue rows have the shapes the code gives them.
TypeOK ==
    /\ row \in [Entities -> RowStates]
    /\ \A s \in FileSends : row[s] # "pending"
    /\ ref \in [Entities -> Keys \cup {NoKey}]
    /\ \A e \in Entities : HasRow(e) => ref[e] # NoKey
    /\ queue \in [Keys -> {"absent", "due"} \cup Drains]
    /\ blobs \subseteq Keys
    /\ upload \in [Uploads -> UploadPhases]
    /\ expected \in [Uploads -> Keys \cup {NoKey}]
    /\ drain \in [Drains -> DrainPhases]
    /\ target \in [Drains -> Keys \cup {NoKey}]
    /\ restore \in [Restores -> RestorePhases]
    /\ archive \in [Restores -> ArchiveRows]
    /\ previous \in [Restores -> SUBSET Keys]
    /\ staged \in [Restores -> SUBSET Entities]

(***************************************************************************)
(* No interleaving of uploads, garbage collection, failures and restores   *)
(* leaves a row, live or logically deleted, whose object is not stored.    *)
(* The one exception is a file Send nothing has been uploaded to.          *)
(***************************************************************************)
PublishedObjectsKept ==
    \A e \in Entities : HasRow(e) => ref[e] \in blobs \cup FileSends

(***************************************************************************)
(* An attachment's object is immutable: concurrent or repeated uploads for *)
(* one id never replace what the first published; only a restore does.     *)
(***************************************************************************)
AttachmentObjectImmutable ==
    [][\A a \in Attachments :
          HasRow(a) /\ ref'[a] # ref[a] => ref'[a] \in RestoreKeys \cup {NoKey}
      ]_vars

(***************************************************************************)
(* A queue row for an unreferenced key leaves the queue only after the     *)
(* object has been erased, whatever deletes fail, whoever's claim ran out. *)
(* Excepted are the rows under a verdict "referenced" that has gone stale: *)
(* the drain read the key in use, and a new upload or a restore replaced   *)
(* it before the drain removes the row.                                    *)
(***************************************************************************)
StaleVerdict(k) == \E d \in Drains :
    queue[k] = d /\ drain[d] = "referenced" /\ target[d] = k

QueuedUntilErased ==
    [][\A k \in Keys :
          queue[k] # "absent" /\ queue'[k] = "absent"
             => k \notin blobs \/ Referenced(k) \/ StaleVerdict(k)]_vars

(***************************************************************************)
(* While no restore runs, an object that lost its place (a Send's replaced *)
(* file, the loser of two uploads, what a failed request stored) is erased *)
(* in the end, although puts, batches and deletes fail and drains die.     *)
(* Excepted are what a dying upload leaves behind, which nothing names,    *)
(* and an object whose queue row goes under a stale verdict.               *)
(***************************************************************************)
Garbage(k) ==
    /\ k \in blobs
    /\ ~ Referenced(k)
    /\ k \in Uploads => upload[k] = "done"

GarbageCollected == \A k \in Keys :
    \/ Garbage(k) ~> k \notin blobs
    \/ <>(Garbage(k) /\ StaleVerdict(k))

(***************************************************************************)
(* docs/operations.md:71: old object keys are queued in the transaction    *)
(* that switches the tables.  At the switch, every stored object that      *)
(* loses its row is in the queue.                                          *)
(***************************************************************************)
OldKeysQueuedAtSwitch ==
    [][\A r \in Restores :
          RestoreSwap(r)
             => \A e \in Entities :
                   HasRow(e) /\ ref[e] \in blobs
                      => queue'[ref[e]] # "absent"]_vars
=============================================================================
