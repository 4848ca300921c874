CONSTANTS
  MaxArrivals = 3
  Emails = {e, f}
  Invites = {i}
  Absent = none
  MaxRequests = 2
  MaxCounter = 1
  MaxChallenges = 2
  MaxPasskeys = 2
  Keys = {k1, k2}
  YubiKeys = {y}
  Nil = nil
  MaxSignIns = 2
  MaxPrompts = 2
  MaxClock = 2
  MaxStamps = 1
  Terminals = {t1}
  FailureLimit = 2
  FailureWindow = 1
  LockoutTime = 1
  PromptTtl = 1
  Retention = 2
  Void = void
SPECIFICATION Spec
CHECK_DEADLOCK FALSE
INVARIANTS TypeOK LocksNameTheAdmitted SessionsProveAFactor ProofsAreSpentOnce ApprovalsLetInOnce FailuresAreCounted
PROPERTIES RevokedInvitesAdmitNobody PasskeysAdvanceAndStay
