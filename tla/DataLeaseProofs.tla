-------------------------- MODULE DataLeaseProofs ---------------------------
(***************************************************************************)
(* The lease, for any set of operations and any lifetime and margin: who   *)
(* may believe what about the row, and that the beliefs form a mutex.      *)
(***************************************************************************)
EXTENDS DataLease, TLAPS

\* No statement carries a timestamp from the future, so an acquirer that
\* finds the row expired at its timestamp finds it expired now.
CalledInPast == \A o \in Operations : called[o] <= clock

\* A working operation's lease outlives its last checkpoint by the margin.
MarginAfterCheckpoint ==
    \A o \in Operations :
        phase[o] \in Working => expiry[o] > checkpoint[o] + MinimumRemaining

IInv == TypeOK /\ CalledInPast /\ MarginAfterCheckpoint /\ MemoryImpliesRow

-----------------------------------------------------------------------------

\* Every variable keeps its type, whatever the constants.
THEOREM TypeCorrect == Spec => []TypeOK
<1>1. Init => TypeOK
  BY LeaseAssumption DEF Init, TypeOK, NoLease, Phases
<1>2. TypeOK /\ [Next]_vars => TypeOK'
  <2> SUFFICES ASSUME TypeOK, [Next]_vars PROVE TypeOK'
    OBVIOUS
  <2> USE LeaseAssumption DEF TypeOK, Phases
  <2>1. CASE Tick
    BY <2>1 DEF Tick
  <2>2. ASSUME NEW o \in Operations, Operate(o) PROVE TypeOK'
    <3>1. CASE CallAcquire(o) \/ AcquireBusy(o) \/ CallRenew(o)
      BY <3>1 DEF CallAcquire, AcquireBusy, CallRenew
    <3>2. CASE AcquireGranted(o) \/ AcquireAnswerLost(o)
      BY <3>2 DEF AcquireGranted, AcquireAnswerLost, LeaseOf
    <3>3. CASE RenewGranted(o) \/ RenewFailed(o)
      BY <3>3 DEF RenewGranted, RenewFailed, LeaseOf
    <3>4. CASE PassFresh(o) \/ RenewLost(o) \/ Finish(o) \/ Abandon(o)
      BY <3>4 DEF PassFresh, RenewLost, Finish, Abandon
    <3>5. CASE Release(o)
      BY <3>5 DEF Release, NoLease
    <3> QED
      BY <2>2, <3>1, <3>2, <3>3, <3>4, <3>5 DEF Operate
  <2>3. CASE UNCHANGED vars
    BY <2>3 DEF vars
  <2> QED
    BY <2>1, <2>2, <2>3 DEF Next
<1> QED
  BY <1>1, <1>2, PTL DEF Spec

\* A step of one operation leaves the timestamps of the others alone.
LEMMA CalledInPastStep ==
  TypeOK /\ CalledInPast /\ [Next]_vars => CalledInPast'
<1> SUFFICES ASSUME TypeOK, CalledInPast, [Next]_vars PROVE CalledInPast'
  OBVIOUS
<1> USE DEF TypeOK, CalledInPast
<1>1. CASE Tick
  BY <1>1 DEF Tick
<1>2. ASSUME NEW o \in Operations, Operate(o) PROVE CalledInPast'
  <2>1. CASE CallAcquire(o) \/ CallRenew(o)
    BY <2>1 DEF CallAcquire, CallRenew
  <2>2. CASE UNCHANGED <<clock, called>>
    BY <2>2
  <2> QED
    BY <1>2, <2>1, <2>2 DEF Operate, AcquireGranted, AcquireBusy,
       AcquireAnswerLost, PassFresh, RenewGranted, RenewLost, RenewFailed,
       Finish, Release, Abandon
<1>3. CASE UNCHANGED vars
  BY <1>3 DEF vars
<1> QED
  BY <1>1, <1>2, <1>3 DEF Next

\* Whatever confirms a lease leaves the margin between its expiry and now.
LEMMA MarginStep ==
  TypeOK /\ MarginAfterCheckpoint /\ [Next]_vars => MarginAfterCheckpoint'
<1> SUFFICES ASSUME TypeOK, MarginAfterCheckpoint, [Next]_vars
             PROVE MarginAfterCheckpoint'
  OBVIOUS
<1> USE LeaseAssumption DEF TypeOK, MarginAfterCheckpoint, Working, Phases
<1>1. CASE Tick
  BY <1>1 DEF Tick
<1>2. ASSUME NEW o \in Operations, Operate(o) PROVE MarginAfterCheckpoint'
  <2>1. CASE AcquireGranted(o) \/ RenewGranted(o)
    BY <2>1 DEF AcquireGranted, RenewGranted
  <2>2. CASE PassFresh(o)
    BY <2>2 DEF PassFresh
  <2>3. CASE CallAcquire(o) \/ AcquireBusy(o) \/ AcquireAnswerLost(o)
    BY <2>3 DEF CallAcquire, AcquireBusy, AcquireAnswerLost
  <2>4. CASE CallRenew(o) \/ RenewLost(o) \/ RenewFailed(o)
    BY <2>4 DEF CallRenew, RenewLost, RenewFailed
  <2>5. CASE Finish(o) \/ Release(o) \/ Abandon(o)
    BY <2>5 DEF Finish, Release, Abandon
  <2> QED
    BY <1>2, <2>1, <2>2, <2>3, <2>4, <2>5 DEF Operate
<1>3. CASE UNCHANGED vars
  BY <1>3 DEF vars
<1> QED
  BY <1>1, <1>2, <1>3 DEF Next

\* The heart of the argument: an acquirer replaces the row only when every
\* belief has run out, a renewal and a release only touch their own row.
LEMMA MemoryStep ==
  TypeOK /\ CalledInPast /\ MemoryImpliesRow /\ [Next]_vars => MemoryImpliesRow'
<1> SUFFICES ASSUME TypeOK, CalledInPast, MemoryImpliesRow, [Next]_vars
             PROVE MemoryImpliesRow'
  OBVIOUS
<1> USE LeaseAssumption
    DEF TypeOK, CalledInPast, MemoryImpliesRow, Holds, Working, Phases
<1>1. CASE Tick
  BY <1>1 DEF Tick
<1>2. ASSUME NEW o \in Operations, Operate(o) PROVE MemoryImpliesRow'
  <2>1. CASE AcquireGranted(o)
    BY <2>1 DEF AcquireGranted, Takeable, LeaseOf
  <2>2. CASE AcquireAnswerLost(o)
    BY <2>2 DEF AcquireAnswerLost, Takeable, LeaseOf
  <2>3. CASE RenewGranted(o)
    BY <2>3 DEF RenewGranted, LeaseOf
  <2>4. CASE RenewFailed(o)
    BY <2>4 DEF RenewFailed, LeaseOf
  <2>5. CASE Release(o)
    BY <2>5 DEF Release, NoLease
  <2>6. CASE CallAcquire(o) \/ AcquireBusy(o) \/ CallRenew(o) \/ RenewLost(o)
    BY <2>6 DEF CallAcquire, AcquireBusy, CallRenew, RenewLost
  <2>7. CASE PassFresh(o) \/ Finish(o) \/ Abandon(o)
    BY <2>7 DEF PassFresh, Finish, Abandon
  <2> QED
    BY <1>2, <2>1, <2>2, <2>3, <2>4, <2>5, <2>6, <2>7 DEF Operate
<1>3. CASE UNCHANGED vars
  BY <1>3 DEF vars
<1> QED
  BY <1>1, <1>2, <1>3 DEF Next

THEOREM Inductive == Spec => []IInv
<1>1. Init => CalledInPast /\ MarginAfterCheckpoint /\ MemoryImpliesRow
  BY DEF Init, CalledInPast, MarginAfterCheckpoint, MemoryImpliesRow, Holds, Working
<1>2. TypeOK /\ CalledInPast /\ MarginAfterCheckpoint /\ MemoryImpliesRow
        /\ [Next]_vars
      => CalledInPast' /\ MarginAfterCheckpoint' /\ MemoryImpliesRow'
  BY CalledInPastStep, MarginStep, MemoryStep
<1> QED
  BY <1>1, <1>2, TypeCorrect, PTL DEF Spec, IInv

-----------------------------------------------------------------------------

\* What an operation remembers of its lease is never more than the row says.
THEOREM MemoryIsSafe == Spec => []MemoryImpliesRow
BY Inductive, PTL DEF IInv

\* Within the margin after a checkpoint an operation works alone.
THEOREM WindowIsExclusive == Spec => []CheckpointWindow
<1>1. IInv => CheckpointWindow
  BY LeaseAssumption DEF IInv, TypeOK, CheckpointWindow, MemoryImpliesRow,
     MarginAfterCheckpoint, Holds, Working
<1> QED
  BY <1>1, Inductive, PTL

\* Only an acquisition gives the row a new owner, and only when the row has
\* run out by a timestamp that is not in the future.
LEMMA TakeoverStep ==
  ASSUME IInv, [Next]_vars, stored'.token # stored.token, stored'.token # NoToken
  PROVE  stored.expiresAt <= clock
<1> USE LeaseAssumption DEF IInv, TypeOK, CalledInPast
<1>1. Next
  BY DEF vars
<1>2. PICK o \in Operations : AcquireGranted(o) \/ AcquireAnswerLost(o)
  BY <1>1 DEF Next, Operate, Tick, CallAcquire, AcquireBusy, PassFresh, CallRenew,
     RenewGranted, RenewLost, RenewFailed, Finish, Release, Abandon,
     NoLease, LeaseOf
<1> QED
  BY <1>2 DEF AcquireGranted, AcquireAnswerLost, Takeable

\* A live lease is never taken from its owner.
THEOREM LiveLeaseIsKept == Spec => NoTakeoverWhileLive
<1>1. IInv /\ [Next]_vars
        => [ stored'.token # stored.token /\ stored'.token # NoToken
               => stored.expiresAt <= clock ]_vars
  BY TakeoverStep
<1> QED
  BY <1>1, Inductive, PTL DEF Spec, NoTakeoverWhileLive

\* The operations that believe they own the data form a mutex: each step of
\* the lease is a step of OperationMutex or leaves its variable alone.
THEOREM LeaseImplementsMutex == Spec => ImplementsMutex
<1> DEFINE owners == {o \in Operations : Holds(o)}
<1>1. Init => Mutex!Init
  BY DEF Init, Mutex!Init, Holds, Working
<1>2. IInv /\ IInv' /\ [Next]_vars => [Mutex!Next]_owners
  <2> SUFFICES ASSUME IInv, IInv', [Next]_vars, owners' # owners
               PROVE  Mutex!Next
    BY DEF Mutex!Next
  <2>1. \A o, p \in owners : o = p
    BY DEF IInv, MemoryImpliesRow
  <2>2. \A o, p \in owners' : o = p
    BY DEF IInv, MemoryImpliesRow, Holds
  <2>3. CASE owners = {}
    <3>1. PICK o \in Operations : owners' = {o}
      BY <2>2, <2>3
    <3> QED
      BY <2>3, <3>1 DEF Mutex!Next, Mutex!Enter
  <2>4. CASE owners # {}
    <3>1. SUFFICES ASSUME NEW p \in owners' PROVE FALSE
      BY <2>4 DEF Mutex!Next, Mutex!Leave
    <3>2. PICK o \in owners : TRUE
      BY <2>4
    <3>3. o # p
      BY <2>1, <2>2, <3>1, <3>2
    <3>4. stored.token = o /\ stored'.token = p /\ clock < stored.expiresAt
      BY <3>1, <3>2 DEF IInv, TypeOK, MemoryImpliesRow, Holds
    <3> QED
      BY <3>3, <3>4, TakeoverStep, LeaseAssumption DEF IInv, TypeOK, Holds
  <2> QED
    BY <2>3, <2>4
<1> QED
  BY <1>1, <1>2, Inductive, PTL DEF Spec, ImplementsMutex, Mutex!Spec
=============================================================================
