CONSTANTS
  u1 = u1
  Users = {u1}
  Ciphers = {c1, c2}
  Folders = {f1}
  FolderOwner <- FoldersOfOne
  Organization = org
  OrgOwner = u1
  None = none
  Requests = {r1, r2}
  FolderRequests = {g1}
  Operations = {"share", "file", "bulk", "folder", "attach", "import", "create", "disband"}
  MaxWrites = 2
  MaxNow = 1
SYMMETRY Interchangeable
SPECIFICATION VaultSpec
CHECK_DEADLOCK FALSE
INVARIANTS FoldersHoldOwnItems
PROPERTIES SharedTogether
