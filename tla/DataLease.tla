----------------------------- MODULE DataLease ------------------------------
(***************************************************************************)
(* The lease that serialises backups, restores, backup settings updates    *)
(* and scheduled maintenance: one row of the D1 table "config", holding    *)
(* the owner's random token and the second its lease expires.              *)
(*                                                                         *)
(* A statement sent to D1 is two steps: the call, which reads the clock,   *)
(* and the execution, which may come later.  An operation's own belief     *)
(* about its lease is the expiry it keeps in memory.  Nothing tells an     *)
(* operation that its lease ran out; it learns so at its next renewal.     *)
(***************************************************************************)
EXTENDS Naturals

CONSTANTS
    Operations,        \* runs of data operations, each one its own token
    NoToken,           \* "the lease row does not exist"
    LeaseSeconds,      \* lifetime of a lease
    MinimumRemaining,  \* a checkpoint renews a lease with no more than this
    FaultsUntil,       \* bound: no renewal or failure after this second
    MaxTime            \* bound: the last second of the model

ASSUME LeaseAssumption ==
    /\ NoToken \notin Operations
    /\ LeaseSeconds \in Nat
    /\ MinimumRemaining \in Nat
    /\ MinimumRemaining < LeaseSeconds
    /\ FaultsUntil \in Nat
    /\ MaxTime \in Nat

VARIABLES
    clock,       \* seconds, the same for every Worker
    stored,      \* the lease row
    phase,       \* where each operation is
    called,      \* the timestamp captured by an operation's last statement
    expiry,      \* the expiry each operation keeps in memory
    checkpoint   \* ghost: when an operation last had its lease confirmed

vars == <<clock, stored, phase, called, expiry, checkpoint>>

Phases == {"waiting", "acquiring", "running", "renewing", "releasing", "ended"}

Working == {"running", "renewing"}   \* phases that may change shared data

NoLease == [token |-> NoToken, expiresAt |-> 0]

LeaseOf(o, timestamp) == [token |-> o, expiresAt |-> timestamp + LeaseSeconds]

\* Deviation: a lease near its end is taken early.
TakeableEarly(lease, timestamp) ==
    lease.expiresAt <= timestamp + MinimumRemaining

\* Deviation: only a released lease can be taken.
TakeableWhenReleased(lease, timestamp) == lease.token = NoToken

\* The upsert's WHERE clause; a missing row counts as expired at second 0.
Takeable(lease, timestamp) == lease.expiresAt <= timestamp

Holds(o) == phase[o] \in Working /\ clock < expiry[o]

Init ==
    /\ clock = 0
    /\ stored = NoLease
    /\ phase = [o \in Operations |-> "waiting"]
    /\ called = [o \in Operations |-> 0]
    /\ expiry = [o \in Operations |-> 0]
    /\ checkpoint = [o \in Operations |-> 0]

Tick ==
    /\ clock < MaxTime
    /\ clock' = clock + 1
    /\ UNCHANGED <<stored, phase, called, expiry, checkpoint>>

CallAcquire(o) ==
    /\ phase[o] = "waiting"
    /\ phase' = [phase EXCEPT ![o] = "acquiring"]
    /\ called' = [called EXCEPT ![o] = clock]
    /\ UNCHANGED <<clock, stored, expiry, checkpoint>>

\* Deviation: the in-memory expiry counts from the answer, not from the call.
AcquireGrantedFromAnswer(o) ==
    /\ phase[o] = "acquiring"
    /\ Takeable(stored, called[o])
    /\ stored' = LeaseOf(o, called[o])
    /\ expiry' = [expiry EXCEPT ![o] = clock + LeaseSeconds]
    /\ checkpoint' = [checkpoint EXCEPT ![o] = called[o]]
    /\ phase' = [phase EXCEPT ![o] = "running"]
    /\ UNCHANGED <<clock, called>>

AcquireGranted(o) ==
    /\ phase[o] = "acquiring"
    /\ Takeable(stored, called[o])
    /\ stored' = LeaseOf(o, called[o])
    /\ expiry' = [expiry EXCEPT ![o] = called[o] + LeaseSeconds]
    /\ checkpoint' = [checkpoint EXCEPT ![o] = called[o]]
    /\ phase' = [phase EXCEPT ![o] = "running"]
    /\ UNCHANGED <<clock, called>>

\* The caller answers "operation is running"; a later attempt draws a new
\* token that was never stored, so the model keeps the same name for it.
AcquireBusy(o) ==
    /\ phase[o] = "acquiring"
    /\ ~Takeable(stored, called[o])
    /\ phase' = [phase EXCEPT ![o] = "waiting"]
    /\ UNCHANGED <<clock, stored, called, expiry, checkpoint>>

\* The batch commits but its answer does not come back: the caller throws
\* before it has a lease to release.
AcquireAnswerLost(o) ==
    /\ phase[o] = "acquiring"
    /\ clock <= FaultsUntil
    /\ Takeable(stored, called[o])
    /\ stored' = LeaseOf(o, called[o])
    /\ phase' = [phase EXCEPT ![o] = "ended"]
    /\ UNCHANGED <<clock, called, expiry, checkpoint>>

\* Deviation: any time left is enough to go on.
PassFreshNoMargin(o) ==
    /\ phase[o] = "running"
    /\ expiry[o] > clock
    /\ checkpoint' = [checkpoint EXCEPT ![o] = clock]
    /\ UNCHANGED <<clock, stored, phase, called, expiry>>

\* A checkpoint that does not ask D1: enough of the lease is left in memory.
PassFresh(o) ==
    /\ phase[o] = "running"
    /\ expiry[o] > clock + MinimumRemaining
    /\ checkpoint' = [checkpoint EXCEPT ![o] = clock]
    /\ UNCHANGED <<clock, stored, phase, called, expiry>>

\* A checkpoint that renews, and every unconditional renewal.
CallRenew(o) ==
    /\ phase[o] = "running"
    /\ clock <= FaultsUntil
    /\ phase' = [phase EXCEPT ![o] = "renewing"]
    /\ called' = [called EXCEPT ![o] = clock]
    /\ UNCHANGED <<clock, stored, expiry, checkpoint>>

\* Deviation: the UPDATE does not compare the token.
RenewGrantedAnyToken(o) ==
    /\ phase[o] = "renewing"
    /\ stored' = LeaseOf(o, called[o])
    /\ expiry' = [expiry EXCEPT ![o] = called[o] + LeaseSeconds]
    /\ checkpoint' = [checkpoint EXCEPT ![o] = called[o]]
    /\ phase' = [phase EXCEPT ![o] = "running"]
    /\ UNCHANGED <<clock, called>>

RenewGranted(o) ==
    /\ phase[o] = "renewing"
    /\ stored.token = o
    /\ stored' = LeaseOf(o, called[o])
    /\ expiry' = [expiry EXCEPT ![o] = called[o] + LeaseSeconds]
    /\ checkpoint' = [checkpoint EXCEPT ![o] = called[o]]
    /\ phase' = [phase EXCEPT ![o] = "running"]
    /\ UNCHANGED <<clock, called>>

\* DataOperationLeaseLostError: the finally clause is all that is left.
RenewLost(o) ==
    /\ phase[o] = "renewing"
    /\ stored.token # o
    /\ phase' = [phase EXCEPT ![o] = "releasing"]
    /\ UNCHANGED <<clock, stored, called, expiry, checkpoint>>

\* D1 fails the renewal, having executed it or not.
RenewFailed(o) ==
    /\ phase[o] = "renewing"
    /\ clock <= FaultsUntil
    /\ \/ stored.token = o /\ stored' = LeaseOf(o, called[o])
       \/ UNCHANGED stored
    /\ phase' = [phase EXCEPT ![o] = "releasing"]
    /\ UNCHANGED <<clock, called, expiry, checkpoint>>

\* The callback returns or throws.
Finish(o) ==
    /\ phase[o] = "running"
    /\ phase' = [phase EXCEPT ![o] = "releasing"]
    /\ UNCHANGED <<clock, stored, called, expiry, checkpoint>>

Release(o) ==
    /\ phase[o] = "releasing"
    /\ stored' = IF stored.token = o THEN NoLease ELSE stored
    /\ phase' = [phase EXCEPT ![o] = "ended"]
    /\ UNCHANGED <<clock, called, expiry, checkpoint>>

\* The Worker is stopped, or D1 fails a statement that nothing follows: the
\* acquisition, or the release, whose error the finally clause swallows.
Abandon(o) ==
    /\ phase[o] \in {"acquiring", "running", "renewing", "releasing"}
    /\ clock <= FaultsUntil
    /\ phase' = [phase EXCEPT ![o] = "ended"]
    /\ UNCHANGED <<clock, stored, called, expiry, checkpoint>>

Operate(o) ==
    \/ CallAcquire(o) \/ AcquireGranted(o) \/ AcquireBusy(o)
    \/ AcquireAnswerLost(o) \/ PassFresh(o) \/ CallRenew(o)
    \/ RenewGranted(o) \/ RenewLost(o) \/ RenewFailed(o)
    \/ Finish(o) \/ Release(o) \/ Abandon(o)

Next == Tick \/ \E o \in Operations : Operate(o)

Spec == Init /\ [][Next]_vars

\* Time passes, D1 answers, callbacks are finite, and whoever was told
\* "operation is running" tries again (the hourly trigger does).
Fairness ==
    /\ WF_vars(Tick)
    /\ \A o \in Operations :
        /\ WF_vars(CallAcquire(o))
        /\ SF_vars(AcquireGranted(o))
        /\ WF_vars(AcquireBusy(o))
        /\ WF_vars(RenewGranted(o) \/ RenewLost(o))
        /\ SF_vars(Finish(o))
        /\ WF_vars(Release(o))

FairSpec == Spec /\ Fairness

-----------------------------------------------------------------------------

\* Invariant: the row, the clock and what the operations remember have the
\* types the code gives them.
TypeOK ==
    /\ clock \in Nat
    /\ stored \in [token : Operations \cup {NoToken}, expiresAt : Nat]
    /\ phase \in [Operations -> Phases]
    /\ called \in [Operations -> Nat]
    /\ expiry \in [Operations -> Nat]
    /\ checkpoint \in [Operations -> Nat]

\* While an operation's in-memory lease has not run out, the row is its own
\* and lives at least as long.  requireFreshDataOperationLease relies on it
\* when it lets an operation go on without asking D1.
MemoryImpliesRow ==
    \A o \in Operations :
        Holds(o) => stored.token = o /\ stored.expiresAt >= expiry[o]

\* An operation that acts within MinimumRemaining seconds of its last
\* checkpoint acts alone: the row is its own, unexpired, and no other
\* operation has an unexpired lease in memory.  This is what the margin of
\* requireFreshDataOperationLease buys the code between two checkpoints.
CheckpointWindow ==
    \A o \in Operations :
        phase[o] \in Working /\ clock <= checkpoint[o] + MinimumRemaining =>
            /\ stored.token = o
            /\ clock < stored.expiresAt
            /\ \A p \in Operations : Holds(p) => p = o

\* A lease changes hands only once it has run out or its owner let go of it,
\* although the acquirer compares the row with a clock read earlier.
NoTakeoverWhileLive ==
    [][ stored'.token # stored.token /\ stored'.token # NoToken
            => stored.expiresAt <= clock ]_vars

\* Every operation that keeps asking gets its turn, whatever became of the
\* leases of the operations that were stopped before they could release.
EveryOperationRuns == \A o \in Operations : <>(phase[o] = "ended")

\* The lease implements the mutex its callers rely on.
Mutex == INSTANCE OperationMutex WITH inside <- {o \in Operations : Holds(o)}

ImplementsMutex == Mutex!Spec
=============================================================================
