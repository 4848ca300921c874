------------------------ MODULE BlobLifecycleProofs -------------------------
(***************************************************************************)
(* Proofs about BlobLifecycle for every number of attachments, Sends,      *)
(* uploads, drains and restores, and every choice of what may fail.        *)
(*                                                                         *)
(* The argument: a key is undecided while the request that made it may     *)
(* still put it in a row.  Nothing undecided is ever queued, collected by  *)
(* a restore, or held by a drain; so a verdict "unreferenced" can not be   *)
(* overtaken by a publication, however long the erase that follows takes.  *)
(***************************************************************************)
EXTENDS BlobLifecycle, TLAPS

USE KeyAssumption

\* A step of an upload, whatever it is for.
UploadStep(u) == AttachmentUploadStep(u) \/ SendUploadStep(u) \/ AnyUploadStep(u)

AnyStep ==
    \/ RowStep
    \/ \E u \in Uploads : UploadStep(u)
    \/ \E d \in Drains : GcStep(d)
    \/ \E r \in Restores : RestoreStep(r)

LEMMA NextSteps == Next => AnyStep
BY DEF Next, AnyStep, UploadsFor, UploadStep

Undecided(k) ==
    \/ k \in Uploads /\ upload[k] \in {"idle", "putting", "stored"}
    \/ \E r \in Restores, e \in Entities :
          k = <<r, e>> /\ restore[r] \in {"idle", "staging"}

\* What a request has stored for its coming publication is there.
StoredForPublication ==
    /\ \A u \in Uploads : upload[u] = "stored" => u \in blobs
    /\ \A r \in Restores : restore[r] \in {"idle", "staging"}
          => \A e \in staged[r] : <<r, e>> \in blobs

QueueDecided == \A k \in Keys : queue[k] # "absent" => ~ Undecided(k)

DrainDecided == \A d \in Drains :
    drain[d] # "idle" => target[d] \in Keys /\ ~ Undecided(target[d])

VerdictHolds == \A d \in Drains :
    drain[d] = "unreferenced" /\ target[d] \notin FileSends
        => ~ Referenced(target[d])

RowDecided == \A e \in Entities :
    HasRow(e) => ref[e] \in Keys /\ ~ Undecided(ref[e])

PreviousDecided == \A r \in Restores : \A k \in previous[r] : ~ Undecided(k)

IInv ==
    /\ StoredForPublication
    /\ QueueDecided
    /\ DrainDecided
    /\ VerdictHolds
    /\ RowDecided
    /\ PreviousDecided
    /\ PublishedObjectsKept

\* Every variable keeps the shape the code gives it.
THEOREM TypeCorrect == Spec => []TypeOK
<1> USE DEF TypeOK, HasRow, RowStates, UploadPhases, DrainPhases, RestorePhases
<1>1. Init => TypeOK
  BY DEF Init, ArchiveRows, Entities
<1>2. ASSUME TypeOK, [Next]_vars PROVE TypeOK'
  <2> USE <1>2
  <2>1. CASE RowStep
    BY <2>1 DEF RowStep, CreateAttachment, ExpirePending, CreateFileSend,
       DeleteAttachment, DeleteSend, Entities, Keys, uploadVars, drainVars,
       restoreVars
  <2>2. ASSUME NEW u \in Uploads, UploadStep(u) PROVE TypeOK'
    <3> USE DEF database, uploadVars, drainVars, restoreVars
    <3>0. Target[u] \in Entities /\ u \in Keys
      BY DEF Keys
    <3>1. CASE AttachmentUploadStart(u)
      BY <3>1 DEF AttachmentUploadStart
    <3>2. CASE SendUploadStart(u)
      BY <3>2, <3>0 DEF SendUploadStart
    <3>3. CASE UploadPut(u) \/ UploadPutThrows(u)
      BY <3>3, <3>0 DEF UploadPut, UploadPutThrows
    <3>4. ASSUME PublishAttachment(u)
          PROVE  /\ row' \in [Entities -> RowStates]
                 /\ ref' \in [Entities -> Keys \cup {NoKey}]
                 /\ queue' \in [Keys -> {"absent", "due"} \cup Drains]
                 /\ \A s \in FileSends : row'[s] # "pending"
                 /\ \A e \in Entities : HasRow(e)' => ref'[e] # NoKey
      BY <3>4, <3>0 DEF PublishAttachment, Entities
    <3>5. ASSUME PublishSend(u)
          PROVE  /\ row' \in [Entities -> RowStates]
                 /\ ref' \in [Entities -> Keys \cup {NoKey}]
                 /\ queue' \in [Keys -> {"absent", "due"} \cup Drains]
                 /\ \A s \in FileSends : row'[s] # "pending"
                 /\ \A e \in Entities : HasRow(e)' => ref'[e] # NoKey
      BY <3>5, <3>0 DEF PublishSend, Enqueue
    <3>6. CASE AttachmentUploadPublish(u)
      BY <3>6, <3>4 DEF AttachmentUploadPublish
    <3>7. CASE AttachmentUploadRecheck(u)
      BY <3>7 DEF AttachmentUploadRecheck
    <3>8. CASE SendUploadPublish(u)
      BY <3>8, <3>5 DEF SendUploadPublish
    <3>9. CASE UploadPublishThrows(u)
      BY <3>9, <3>4, <3>5 DEF UploadPublishThrows
    <3>10. CASE UploadDiscard(u)
      BY <3>10 DEF UploadDiscard, Enqueue
    <3>11. CASE UploadDies(u)
      BY <3>11 DEF UploadDies
    <3> QED
      BY <2>2, <3>1, <3>2, <3>3, <3>6, <3>7, <3>8, <3>9, <3>10, <3>11
      DEF UploadStep, AttachmentUploadStep, SendUploadStep, AnyUploadStep
  <2>3. ASSUME NEW d \in Drains, GcStep(d) PROVE TypeOK'
    BY <2>3 DEF GcStep, GcClaim, GcCheck, GcDropReferenced, GcErase,
       GcEraseFails, GcForget, GcDies, RemoveClaim, Rest, database,
       uploadVars, restoreVars
  <2>4. ASSUME NEW r \in Restores, RestoreStep(r) PROVE TypeOK'
    <3> USE DEF database, uploadVars, drainVars
    <3>1. CASE RestoreStart(r)
      <4>1. ReferencedKeys \subseteq Keys
        BY DEF ReferencedKeys
      <4> QED
        BY <3>1, <4>1 DEF RestoreStart
    <3>2. ASSUME NEW e \in Entities, RestoreStage(r, e) \/ RestoreStageThrows(r, e)
          PROVE  TypeOK'
      <4>1. <<r, e>> \in Keys
        BY DEF Keys, RestoreKeys
      <4>2. NoRows \in ArchiveRows
        BY DEF NoRows, ArchiveRows
      <4> QED
        BY <3>2, <4>1, <4>2 DEF RestoreStage, RestoreStageThrows
    <3>3. NoRows \in ArchiveRows
      BY DEF NoRows, ArchiveRows
    <3>4. CASE RestoreFail(r) \/ RestoreDies(r)
      BY <3>3, <3>4 DEF RestoreFail, RestoreDies
    <3>5. ASSUME SwapTables(r)
          PROVE  /\ row' \in [Entities -> RowStates]
                 /\ ref' \in [Entities -> Keys \cup {NoKey}]
                 /\ queue' \in [Keys -> {"absent", "due"} \cup Drains]
                 /\ \A s \in FileSends : row'[s] # "pending"
                 /\ \A e \in Entities : HasRow(e)' => ref'[e] # NoKey
      <4>1. \A e \in Entities : <<r, e>> \in Keys
        BY DEF Keys, RestoreKeys
      <4> QED
        BY <3>5, <4>1 DEF SwapTables, Enqueue, Entities, ArchiveRows
    <3>6. CASE RestoreSwap(r)
      BY <3>3, <3>5, <3>6 DEF RestoreSwap
    <3>7. CASE RestoreSwapThrows(r)
      BY <3>3, <3>5, <3>7 DEF RestoreSwapThrows
    <3>8. CASE RestoreDiscard(r)
      BY <3>8 DEF RestoreDiscard, Enqueue
    <3> QED
      BY <2>4, <3>1, <3>2, <3>4, <3>6, <3>7, <3>8 DEF RestoreStep
  <2>5. CASE UNCHANGED vars
    BY <2>5 DEF vars, database, uploadVars, drainVars, restoreVars
  <2> QED
    BY <2>1, <2>2, <2>3, <2>4, <2>5, NextSteps DEF AnyStep
<1> QED
  BY <1>1, <1>2, PTL DEF Spec

-----------------------------------------------------------------------------

\* A key once decided stays decided.
LEMMA Monotone ==
    ASSUME TypeOK, AnyStep, NEW k, Undecided(k)'
    PROVE  Undecided(k)
<1> USE DEF TypeOK, Undecided
<1>1. CASE RowStep
  BY <1>1 DEF RowStep, CreateAttachment, ExpirePending, CreateFileSend,
     DeleteAttachment, DeleteSend, uploadVars, restoreVars
<1>2. ASSUME NEW u \in Uploads, UploadStep(u) PROVE Undecided(k)
  <2>1. \A x \in Uploads :
           upload'[x] \in {"idle", "putting", "stored"}
              => upload[x] \in {"idle", "putting", "stored"}
    BY <1>2 DEF UploadStep, AttachmentUploadStep, SendUploadStep, AnyUploadStep, AttachmentUploadStart, SendUploadStart, UploadPut,
       UploadPutThrows, AttachmentUploadPublish, AttachmentUploadRecheck,
       SendUploadPublish, UploadPublishThrows, UploadDiscard, UploadDies
  <2>2. UNCHANGED restore
    BY <1>2 DEF UploadStep, AttachmentUploadStep, SendUploadStep, AnyUploadStep, AttachmentUploadStart, SendUploadStart, UploadPut,
       UploadPutThrows, AttachmentUploadPublish, AttachmentUploadRecheck,
       SendUploadPublish, UploadPublishThrows, UploadDiscard, UploadDies,
       restoreVars
  <2> QED
    BY <2>1, <2>2
<1>3. ASSUME NEW d \in Drains, GcStep(d) PROVE Undecided(k)
  BY <1>3 DEF GcStep, GcClaim, GcCheck, GcDropReferenced, GcErase,
     GcEraseFails, GcForget, GcDies, uploadVars, restoreVars
<1>4. ASSUME NEW r \in Restores, RestoreStep(r) PROVE Undecided(k)
  <2>1. \A x \in Restores :
           restore'[x] \in {"idle", "staging"}
              => restore[x] \in {"idle", "staging"}
    BY <1>4 DEF RestoreStep, RestoreStart, RestoreStage, RestoreStageThrows,
       RestoreFail, RestoreSwap, RestoreSwapThrows, RestoreDiscard, RestoreDies
  <2>2. UNCHANGED upload
    BY <1>4 DEF RestoreStep, RestoreStart, RestoreStage, RestoreStageThrows,
       RestoreFail, RestoreSwap, RestoreSwapThrows, RestoreDiscard,
       RestoreDies, uploadVars
  <2> QED
    BY <2>1, <2>2
<1> QED
  BY <1>1, <1>2, <1>3, <1>4 DEF AnyStep

\* INSERT OR IGNORE queues the keys it is given and no other.
LEMMA EnqueueAdds ==
    ASSUME NEW q, NEW keys, NEW k \in Keys, Enqueue(q, keys)[k] # "absent"
    PROVE  q[k] # "absent" \/ k \in keys
BY DEF Enqueue

\* Rows, uploads and restores leave the drains alone; no publication reaches
\* a key that a drain holds.
LEMMA RowStepKeeps ==
    ASSUME TypeOK, IInv, RowStep
    PROVE  IInv'
<1> USE DEF TypeOK, IInv
<1>1. \A k : Undecided(k)' = Undecided(k)
  BY DEF RowStep, CreateAttachment, ExpirePending, CreateFileSend,
     DeleteAttachment, DeleteSend, uploadVars, restoreVars, Undecided
<1>2. /\ UNCHANGED <<queue, blobs, uploadVars, drainVars, restoreVars>>
      /\ \A e \in Entities : HasRow(e)' =>
            \/ HasRow(e) /\ ref'[e] = ref[e]
            \/ e \in FileSends /\ ref'[e] = e
  BY DEF RowStep, CreateAttachment, ExpirePending, CreateFileSend,
     DeleteAttachment, DeleteSend, HasRow, Entities
<1>3. \A s \in FileSends : s \in Keys /\ ~ Undecided(s)
  BY DEF Undecided, Keys, RestoreKeys, Entities
<1>4. StoredForPublication'
  BY <1>2 DEF StoredForPublication, uploadVars, restoreVars
<1>5. QueueDecided' /\ DrainDecided' /\ PreviousDecided'
  BY <1>1, <1>2 DEF QueueDecided, DrainDecided, PreviousDecided, drainVars,
     restoreVars
<1>6. VerdictHolds'
  BY <1>2 DEF VerdictHolds, Referenced, drainVars
<1>7. RowDecided'
  BY <1>1, <1>2, <1>3 DEF RowDecided
<1>8. PublishedObjectsKept'
  BY <1>2 DEF PublishedObjectsKept
<1> QED
  BY <1>4, <1>5, <1>6, <1>7, <1>8

LEMMA UploadStepKeeps ==
    ASSUME TypeOK, IInv, NEW u \in Uploads, UploadStep(u)
    PROVE  IInv'
<1> USE DEF TypeOK, IInv
<1>1. \A k : Undecided(k)' => Undecided(k)
  BY Monotone DEF AnyStep
<1>2. UNCHANGED <<drainVars, restoreVars>>
  BY DEF UploadStep, AttachmentUploadStep, SendUploadStep, AnyUploadStep, AttachmentUploadStart, SendUploadStart, UploadPut,
     UploadPutThrows, AttachmentUploadPublish, AttachmentUploadRecheck,
     SendUploadPublish, UploadPublishThrows, UploadDiscard, UploadDies
<1>3. blobs \subseteq blobs' /\ blobs' \subseteq blobs \cup {u}
  BY DEF UploadStep, AttachmentUploadStep, SendUploadStep, AnyUploadStep, AttachmentUploadStart, SendUploadStart, UploadPut,
     UploadPutThrows, AttachmentUploadPublish, AttachmentUploadRecheck,
     SendUploadPublish, UploadPublishThrows, UploadDiscard, UploadDies,
     database
<1>4. \A x \in Uploads : upload'[x] = "stored" => x \in blobs'
  BY <1>3 DEF UploadStep, AttachmentUploadStep, SendUploadStep, AnyUploadStep, AttachmentUploadStart, SendUploadStart, UploadPut,
     UploadPutThrows, AttachmentUploadPublish, AttachmentUploadRecheck,
     SendUploadPublish, UploadPublishThrows, UploadDiscard, UploadDies,
     StoredForPublication, uploadVars
<1>5. StoredForPublication'
  BY <1>2, <1>3, <1>4 DEF StoredForPublication, restoreVars
<1>6. \/ UNCHANGED <<row, ref>>
      \/ /\ upload[u] = "stored"
         /\ upload'[u] \notin {"idle", "putting", "stored"}
         /\ \A e \in Entities : HasRow(e)' =>
               \/ HasRow(e) /\ ref'[e] = ref[e]
               \/ ref'[e] = u
  <2>1. ASSUME PublishAttachment(u) \/ PublishSend(u)
        PROVE  \A e \in Entities : HasRow(e)' =>
                  \/ HasRow(e) /\ ref'[e] = ref[e]
                  \/ ref'[e] = u
    BY <2>1 DEF PublishAttachment, PublishSend, CanPublishSend, HasRow
  <2> QED
    BY <2>1 DEF UploadStep, AttachmentUploadStep, SendUploadStep, AnyUploadStep, AttachmentUploadStart, SendUploadStart, UploadPut,
       UploadPutThrows, AttachmentUploadPublish, AttachmentUploadRecheck,
       SendUploadPublish, UploadPublishThrows, UploadDiscard, UploadDies,
       database
<1>7. u \in Keys /\ (upload[u] = "stored" => Undecided(u) /\ u \in blobs)
  BY DEF Keys, Undecided, StoredForPublication
<1>8. upload'[u] \notin {"idle", "putting", "stored"} => ~ Undecided(u)'
  BY DEF Undecided, RestoreKeys
<1>9. QueueDecided'
  <2>1. ASSUME PublishAttachment(u) \/ PublishSend(u), NEW k \in Keys,
               queue'[k] # "absent"
        PROVE  ~ Undecided(k)
    <3>1. CASE queue[k] # "absent"
      BY <3>1 DEF QueueDecided
    <3>2. CASE queue[k] = "absent"
      <4>1. CanPublishSend(u) /\ k = ref[Target[u]]
        BY <2>1, <3>2, EnqueueAdds
        DEF PublishAttachment, PublishSend, CanPublishSend
      <4> QED
        BY <4>1 DEF CanPublishSend, RowDecided, HasRow
    <3> QED
      BY <3>1, <3>2
  <2>2. CASE UploadDiscard(u)
    <3>1. ~ Undecided(u)'
      BY <2>2, <1>8 DEF UploadDiscard
    <3>2. SUFFICES ASSUME NEW k \in Keys, queue'[k] # "absent"
                   PROVE  ~ Undecided(k)'
      BY DEF QueueDecided
    <3>3. queue[k] # "absent" \/ k = u
      BY <2>2, <3>2, EnqueueAdds DEF UploadDiscard
    <3> QED
      BY <1>1, <3>1, <3>3 DEF QueueDecided
  <2>3. CASE UNCHANGED queue
    BY <2>3, <1>1 DEF QueueDecided
  <2> QED
    BY <1>1, <2>1, <2>2, <2>3 DEF UploadStep, AttachmentUploadStep, SendUploadStep, AnyUploadStep, AttachmentUploadStart,
       SendUploadStart, UploadPut, UploadPutThrows, AttachmentUploadPublish,
       AttachmentUploadRecheck, SendUploadPublish, UploadPublishThrows,
       UploadDies, QueueDecided, database
<1>10. DrainDecided' /\ PreviousDecided'
  BY <1>1, <1>2 DEF DrainDecided, PreviousDecided, drainVars, restoreVars
<1>11. VerdictHolds'
  BY <1>2, <1>6, <1>7 DEF VerdictHolds, DrainDecided, Referenced, HasRow,
     drainVars
<1>12. RowDecided'
  BY <1>1, <1>6, <1>7, <1>8 DEF RowDecided, HasRow
<1>13. PublishedObjectsKept'
  BY <1>3, <1>6, <1>7 DEF PublishedObjectsKept, HasRow
<1> QED
  BY <1>5, <1>9, <1>10, <1>11, <1>12, <1>13

\* A drain erases a key no row references and no request can still publish.
LEMMA GcStepKeeps ==
    ASSUME TypeOK, IInv, NEW d \in Drains, GcStep(d)
    PROVE  IInv'
<1> USE DEF TypeOK, IInv
<1> USE DEF GcStep, GcClaim, GcCheck, GcDropReferenced, GcErase, GcEraseFails,
    GcForget, GcDies, RemoveClaim, Rest, database
<1>1. UNCHANGED <<row, ref, uploadVars, restoreVars>>
  OBVIOUS
<1>2. \A k : Undecided(k)' = Undecided(k)
  BY <1>1 DEF Undecided, uploadVars, restoreVars
<1>3. \A k \in Keys : Referenced(k)' = Referenced(k)
  BY <1>1 DEF Referenced, HasRow
<1>4. QueueDecided'
  BY <1>2 DEF QueueDecided
<1>5. DrainDecided'
  BY <1>2 DEF DrainDecided, QueueDecided
<1>6. VerdictHolds'
  BY <1>1 DEF VerdictHolds, DrainDecided, Referenced, HasRow
<1>7. RowDecided' /\ PreviousDecided'
  BY <1>1, <1>2 DEF RowDecided, PreviousDecided, HasRow, restoreVars
<1>8. \A k \in blobs \ blobs' :
         ~ Undecided(k) /\ (k \in FileSends \/ ~ Referenced(k))
  BY DEF VerdictHolds, DrainDecided
<1>9. StoredForPublication'
  BY <1>1, <1>8 DEF StoredForPublication, Undecided, uploadVars, restoreVars
<1>10. PublishedObjectsKept'
  BY <1>1, <1>8 DEF PublishedObjectsKept, Referenced, HasRow
<1> QED
  BY <1>4, <1>5, <1>6, <1>7, <1>9, <1>10

\* A restore puts its own keys in the rows, once every file is stored, and
\* queues keys that were decided when it collected them.
LEMMA RestoreStepKeeps ==
    ASSUME TypeOK, IInv, NEW r \in Restores, RestoreStep(r)
    PROVE  IInv'
<1> USE DEF TypeOK, IInv
<1>1. \A k : Undecided(k)' => Undecided(k)
  BY Monotone DEF AnyStep
<1>2. UNCHANGED <<uploadVars, drainVars>>
  BY DEF RestoreStep, RestoreStart, RestoreStage, RestoreStageThrows,
     RestoreFail, RestoreSwap, RestoreSwapThrows, RestoreDiscard, RestoreDies
<1>3. blobs \subseteq blobs'
  BY DEF RestoreStep, RestoreStart, RestoreStage, RestoreStageThrows,
     RestoreFail, RestoreSwap, RestoreSwapThrows, RestoreDiscard, RestoreDies
<1>4. StoredForPublication'
  <2>1. \A u \in Uploads : upload'[u] = "stored" => u \in blobs'
    BY <1>2, <1>3 DEF StoredForPublication, uploadVars
  <2>2. \A x \in Restores : restore'[x] \in {"idle", "staging"}
           => restore[x] \in {"idle", "staging"}
    BY DEF RestoreStep, RestoreStart, RestoreStage, RestoreStageThrows,
       RestoreFail, RestoreSwap, RestoreSwapThrows, RestoreDiscard, RestoreDies
  <2>3. \A x \in Restores : restore'[x] \in {"idle", "staging"}
           => \A e \in staged'[x] : e \in staged[x] \/ <<x, e>> \in blobs'
    BY DEF RestoreStep, RestoreStart, RestoreStage, RestoreStageThrows,
       RestoreFail, RestoreSwap, RestoreSwapThrows, RestoreDiscard, RestoreDies
  <2> QED
    BY <1>3, <2>1, <2>2, <2>3 DEF StoredForPublication
<1>5. PreviousDecided'
  <2>1. \A x \in Restores : \A k \in previous'[x] :
           k \in previous[x] \/ k \in ReferencedKeys
    BY DEF RestoreStep, RestoreStart, RestoreStage, RestoreStageThrows,
       RestoreFail, RestoreSwap, RestoreSwapThrows, RestoreDiscard, RestoreDies
  <2> QED
    BY <1>1, <2>1 DEF PreviousDecided, ReferencedKeys, RowDecided
<1>6. DrainDecided'
  BY <1>1, <1>2 DEF DrainDecided, drainVars
<1>7. restore'[r] \in {"failed", "done"}
         => \A e \in Entities : <<r, e>> \in Keys /\ ~ Undecided(<<r, e>>)'
  BY DEF Undecided, Keys, RestoreKeys
<1>8. \/ UNCHANGED <<row, ref>>
      \/ /\ restore[r] = "staging"
         /\ restore'[r] \in {"failed", "done"}
         /\ \A e \in Entities : HasRow(e)' =>
               ref'[e] = <<r, e>> /\ <<r, e>> \in blobs
  <2>1. ASSUME SwapTables(r), staged[r] = Archived(r), restore[r] = "staging"
        PROVE  \A e \in Entities : HasRow(e)' =>
                  ref'[e] = <<r, e>> /\ <<r, e>> \in blobs
    BY <2>1 DEF SwapTables, Archived, HasRow, StoredForPublication
  <2> QED
    BY <2>1 DEF RestoreStep, RestoreStart, RestoreStage, RestoreStageThrows,
       RestoreFail, RestoreSwap, RestoreSwapThrows, RestoreDiscard,
       RestoreDies, database
<1>9. QueueDecided'
  <2>1. \A k \in Keys : queue'[k] # "absent" =>
           \/ queue[k] # "absent"
           \/ k \in previous[r]
           \/ restore'[r] = "done" /\ \E e \in Entities : k = <<r, e>>
    <3>1. ASSUME SwapTables(r), NEW k \in Keys, queue'[k] # "absent"
          PROVE  queue[k] # "absent" \/ k \in previous[r]
      BY <3>1, EnqueueAdds DEF SwapTables
    <3>2. ASSUME RestoreDiscard(r), NEW k \in Keys, queue'[k] # "absent"
          PROVE  \/ queue[k] # "absent"
                 \/ restore'[r] = "done" /\ \E e \in Entities : k = <<r, e>>
      BY <3>2, EnqueueAdds DEF RestoreDiscard
    <3> QED
      BY <3>1, <3>2 DEF RestoreStep, RestoreStart, RestoreStage,
         RestoreStageThrows, RestoreFail, RestoreSwap, RestoreSwapThrows,
         RestoreDies, database
  <2> QED
    BY <1>1, <1>7, <2>1 DEF QueueDecided, PreviousDecided
<1>10. VerdictHolds'
  <2>1. restore[r] = "staging" => \A e \in Entities : Undecided(<<r, e>>)
    BY DEF Undecided
  <2>2. ASSUME NEW d \in Drains, drain[d] = "unreferenced",
               target[d] \notin FileSends, Referenced(target[d])'
        PROVE  FALSE
    <3>1. ~ Undecided(target[d]) /\ ~ Referenced(target[d])
      BY <1>2, <2>2 DEF VerdictHolds, DrainDecided, drainVars
    <3>2. PICK e \in Entities : HasRow(e)' /\ ref'[e] = target[d]
      BY <1>2, <2>2 DEF Referenced, drainVars
    <3>3. CASE UNCHANGED <<row, ref>>
      BY <3>1, <3>2, <3>3 DEF Referenced, HasRow
    <3>4. CASE restore[r] = "staging" /\ ref'[e] = <<r, e>>
      <4>1. Undecided(<<r, e>>) /\ target[d] = <<r, e>>
        BY <2>1, <3>2, <3>4
      <4> QED
        BY <3>1, <4>1
    <3> QED
      BY <1>8, <3>2, <3>3, <3>4
  <2> QED
    BY <1>2, <2>2 DEF VerdictHolds, drainVars
<1>11. RowDecided'
  BY <1>1, <1>7, <1>8 DEF RowDecided, HasRow
<1>12. PublishedObjectsKept'
  BY <1>3, <1>8 DEF PublishedObjectsKept, HasRow
<1> QED
  BY <1>4, <1>5, <1>6, <1>9, <1>10, <1>11, <1>12

(***************************************************************************)
(* A drain that has erased its key finds it erased still: only a request   *)
(* whose key is undecided stores anything.                                 *)
(***************************************************************************)
ErasedStaysErased ==
    \A d \in Drains : drain[d] = "erased" => target[d] \notin blobs

LEMMA OnlyUndecidedIsStored ==
    ASSUME TypeOK, AnyStep, NEW k \in blobs', k \notin blobs
    PROVE  Undecided(k)
<1> USE DEF TypeOK
<1>1. CASE RowStep
  BY <1>1 DEF RowStep, CreateAttachment, ExpirePending, CreateFileSend,
     DeleteAttachment, DeleteSend
<1>2. ASSUME NEW u \in Uploads, UploadStep(u) PROVE Undecided(k)
  <2>1. k = u /\ upload[u] = "putting"
    BY <1>2 DEF UploadStep, AttachmentUploadStep, SendUploadStep, AnyUploadStep, AttachmentUploadStart, SendUploadStart, UploadPut,
       UploadPutThrows, AttachmentUploadPublish, AttachmentUploadRecheck,
       SendUploadPublish, UploadPublishThrows, UploadDiscard, UploadDies
  <2> QED
    BY <2>1 DEF Undecided
<1>3. ASSUME NEW d \in Drains, GcStep(d) PROVE Undecided(k)
  BY <1>3 DEF GcStep, GcClaim, GcCheck, GcDropReferenced, GcErase,
     GcEraseFails, GcForget, GcDies
<1>4. ASSUME NEW r \in Restores, RestoreStep(r) PROVE Undecided(k)
  <2>1. restore[r] = "staging" /\ \E e \in Entities : k = <<r, e>>
    BY <1>4 DEF RestoreStep, RestoreStart, RestoreStage, RestoreStageThrows,
       RestoreFail, RestoreSwap, RestoreSwapThrows, RestoreDiscard, RestoreDies
  <2> QED
    BY <2>1 DEF Undecided
<1> QED
  BY <1>1, <1>2, <1>3, <1>4 DEF AnyStep

LEMMA Invariants == Spec => [](TypeOK /\ IInv /\ ErasedStaysErased)
<1>1. Init => IInv /\ ErasedStaysErased
  BY DEF Init, IInv, StoredForPublication, QueueDecided, DrainDecided,
     VerdictHolds, RowDecided, PreviousDecided, PublishedObjectsKept, HasRow,
     ErasedStaysErased
<1>2. ASSUME TypeOK, IInv, ErasedStaysErased, [Next]_vars
      PROVE  IInv' /\ ErasedStaysErased'
  <2>1. CASE UNCHANGED vars
    BY <1>2, <2>1 DEF IInv, StoredForPublication, QueueDecided, DrainDecided,
       VerdictHolds, RowDecided, PreviousDecided, PublishedObjectsKept,
       Undecided, Referenced, HasRow, ErasedStaysErased, vars, database,
       uploadVars, drainVars, restoreVars
  <2>2. CASE Next
    <3>1. IInv'
      BY <1>2, <2>2, RowStepKeeps, UploadStepKeeps, GcStepKeeps,
         RestoreStepKeeps, NextSteps DEF AnyStep
    <3>2. ASSUME NEW d \in Drains, drain'[d] = "erased"
          PROVE  \/ drain[d] = "erased" /\ target'[d] = target[d]
                 \/ target'[d] \notin blobs'
      <4>1. CASE UNCHANGED drainVars
        BY <3>2, <4>1 DEF drainVars
      <4>2. ASSUME NEW x \in Drains, GcStep(x)
            PROVE  \/ drain[d] = "erased" /\ target'[d] = target[d]
                   \/ target'[d] \notin blobs'
        BY <1>2, <3>2, <4>2 DEF TypeOK, GcStep, GcClaim, GcCheck,
           GcDropReferenced, GcErase, GcEraseFails, GcForget, GcDies, Rest
      <4>3. \/ UNCHANGED drainVars
            \/ \E x \in Drains : GcStep(x)
        <5>1. CASE RowStep
          BY <5>1 DEF RowStep, CreateAttachment, ExpirePending, CreateFileSend,
             DeleteAttachment, DeleteSend
        <5>2. ASSUME NEW u \in Uploads, UploadStep(u) PROVE UNCHANGED drainVars
          BY <5>2 DEF UploadStep, AttachmentUploadStep, SendUploadStep,
             AnyUploadStep, AttachmentUploadStart, SendUploadStart, UploadPut,
             UploadPutThrows, AttachmentUploadPublish, AttachmentUploadRecheck,
             SendUploadPublish, UploadPublishThrows, UploadDiscard, UploadDies
        <5>3. ASSUME NEW r \in Restores, RestoreStep(r) PROVE UNCHANGED drainVars
          BY <5>3 DEF RestoreStep, RestoreStart, RestoreStage,
             RestoreStageThrows, RestoreFail, RestoreSwap, RestoreSwapThrows,
             RestoreDiscard, RestoreDies
        <5> QED
          BY <2>2, <5>1, <5>2, <5>3, NextSteps DEF AnyStep
      <4> QED
        BY <4>1, <4>2, <4>3
    <3>3. ASSUME NEW d \in Drains, drain[d] = "erased", target[d] \in blobs'
          PROVE  FALSE
      BY <1>2, <2>2, <3>3, NextSteps, OnlyUndecidedIsStored
      DEF ErasedStaysErased, IInv, DrainDecided
    <3> QED
      BY <3>1, <3>2, <3>3 DEF ErasedStaysErased
  <2> QED
    BY <1>2, <2>1, <2>2
<1> QED
  BY <1>1, <1>2, TypeCorrect, PTL DEF Spec

\* No interleaving leaves a row without its stored object.
THEOREM ObjectsAreKept == Spec => []PublishedObjectsKept
BY Invariants, PTL DEF IInv

\* A queue row leaves the queue under a claim only, and a claim on an
\* unreferenced key is given up only once the object is gone.
THEOREM QueueIsKept == Spec => QueuedUntilErased
<1>1. ASSUME TypeOK, ErasedStaysErased, [Next]_vars, NEW k \in Keys,
             queue[k] # "absent", queue'[k] = "absent"
      PROVE  k \notin blobs \/ Referenced(k) \/ StaleVerdict(k)
  <2> USE <1>1 DEF TypeOK
  <2>1. ASSUME NEW q, NEW keys, Enqueue(q, keys)[k] = "absent"
        PROVE  q[k] = "absent"
    BY <2>1 DEF Enqueue
  <2>2. CASE RowStep \/ UNCHANGED vars
    BY <2>2 DEF RowStep, CreateAttachment, ExpirePending, CreateFileSend,
       DeleteAttachment, DeleteSend, vars, database
  <2>3. ASSUME NEW u \in Uploads, UploadStep(u) PROVE FALSE
    BY <2>1, <2>3 DEF UploadStep, AttachmentUploadStep, SendUploadStep, AnyUploadStep, AttachmentUploadStart, SendUploadStart,
       UploadPut, UploadPutThrows, AttachmentUploadPublish,
       AttachmentUploadRecheck, SendUploadPublish, UploadPublishThrows,
       UploadDiscard, UploadDies, PublishAttachment, PublishSend, database
  <2>4. ASSUME NEW r \in Restores, RestoreStep(r) PROVE FALSE
    BY <2>1, <2>4 DEF RestoreStep, RestoreStart, RestoreStage,
       RestoreStageThrows, RestoreFail, RestoreSwap, RestoreSwapThrows,
       RestoreDiscard, RestoreDies, SwapTables, database
  <2>5. ASSUME NEW d \in Drains, GcStep(d)
        PROVE  k \notin blobs \/ StaleVerdict(k)
    BY <2>5 DEF GcStep, GcClaim, GcCheck, GcDropReferenced, GcErase,
       GcEraseFails, GcForget, GcDies, RemoveClaim, StaleVerdict,
       ErasedStaysErased, database
  <2> QED
    BY <2>2, <2>3, <2>4, <2>5, NextSteps DEF AnyStep
<1>2. ASSUME TypeOK, ErasedStaysErased, [Next]_vars
      PROVE  [\A k \in Keys :
                 queue[k] # "absent" /\ queue'[k] = "absent"
                    => k \notin blobs \/ Referenced(k) \/ StaleVerdict(k)]_vars
  BY <1>1, <1>2
<1> QED
  BY <1>2, Invariants, PTL DEF Spec, QueuedUntilErased

\* Only a restore changes the object of a published attachment.
THEOREM AttachmentsAreImmutable == Spec => AttachmentObjectImmutable
<1>1. ASSUME TypeOK, [Next]_vars, NEW a \in Attachments,
             HasRow(a), ref'[a] # ref[a]
      PROVE  ref'[a] \in RestoreKeys \cup {NoKey}
  <2> USE <1>1 DEF TypeOK, Entities
  <2>1. CASE RowStep \/ UNCHANGED vars
    BY <2>1 DEF RowStep, CreateAttachment, ExpirePending, CreateFileSend,
       DeleteAttachment, DeleteSend, vars, database
  <2>2. ASSUME NEW u \in Uploads, UploadStep(u) PROVE FALSE
    <3>1. Target[u] \in Attachments => ~ PublishAttachment(u)
      BY DEF PublishAttachment, HasRow
    <3>2. Target[u] \in FileSends => ~ PublishSend(u)
      BY DEF PublishSend
    <3> QED
      BY <2>2, <3>1, <3>2 DEF UploadStep, AttachmentUploadStep, SendUploadStep, AnyUploadStep, AttachmentUploadStart,
         SendUploadStart, UploadPut, UploadPutThrows, AttachmentUploadPublish,
         AttachmentUploadRecheck, SendUploadPublish, UploadPublishThrows,
         UploadDiscard, UploadDies, database
  <2>3. ASSUME NEW d \in Drains, GcStep(d) PROVE FALSE
    BY <2>3 DEF GcStep, GcClaim, GcCheck, GcDropReferenced, GcErase,
       GcEraseFails, GcForget, GcDies, database
  <2>4. ASSUME NEW r \in Restores, RestoreStep(r)
        PROVE  ref'[a] \in RestoreKeys \cup {NoKey}
    BY <2>4 DEF RestoreStep, RestoreStart, RestoreStage, RestoreStageThrows,
       RestoreFail, RestoreSwap, RestoreSwapThrows, RestoreDiscard,
       RestoreDies, SwapTables, RestoreKeys, database
  <2> QED
    BY <2>1, <2>2, <2>3, <2>4, NextSteps DEF AnyStep
<1>2. ASSUME TypeOK, [Next]_vars
      PROVE  [\A a \in Attachments :
                 HasRow(a) /\ ref'[a] # ref[a]
                    => ref'[a] \in RestoreKeys \cup {NoKey}]_vars
  BY <1>1, <1>2
<1> QED
  BY <1>2, TypeCorrect, PTL DEF Spec, AttachmentObjectImmutable
=============================================================================
