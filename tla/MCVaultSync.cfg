CONSTANTS
  u1 = u1
  Users = {u1, u2}
  Ciphers = {c1}
  Folders = {f1}
  FolderOwner <- FoldersOfOne
  Organization = org
  OrgOwner = u2
  None = none
  Requests = {r1}
  FolderRequests = {g1}
  Operations = {"share", "create", "import", "archive", "bulk", "members", "disband", "attach", "folder"}
  MaxWrites = 2
  MaxNow = 1
  Readers = {u1}
  MaxAttempts = 2
SYMMETRY Interchangeable
SPECIFICATION SyncSpec
CHECK_DEADLOCK FALSE
INVARIANTS SyncedVaultIsCurrent
PROPERTIES AnswersAreWhole
