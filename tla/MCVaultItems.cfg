CONSTANTS
  u1 = u1
  Users = {u1, u2}
  Ciphers = {c1}
  Folders = {}
  FolderOwner <- FoldersOfOne
  Organization = org
  OrgOwner = u2
  None = none
  Requests = {r1, r2}
  FolderRequests = {}
  Operations = {"edit", "update", "share", "trash", "erase", "restore", "archive", "unarchive", "purge", "members"}
  MaxWrites = 3
  MaxNow = 2
SYMMETRY Interchangeable
SPECIFICATION VaultSpec
CHECK_DEADLOCK FALSE
INVARIANTS TokensNameVersions EditsKeepNewer
PROPERTIES PurgeIsFinal
