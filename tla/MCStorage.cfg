CONSTANTS
  a1 = a1
  s1 = s1
  u1 = u1
  u2 = u2
  Attachments = {a1}
  FileSends = {s1}
  Uploads = {u1, u2}
  Target <- OneEach
  Drains = {d1}
  Restores = {r1}
  NoKey = NoKey
  Failures = {"upload", "gc", "restore"}
  MaxImports = 3
  Vacant = vacant
  Operations = 2
  MaxHour = 1
  Destinations = {x1, x2}
  RetentionCounts = {1, unset}
  Unset = unset
  Visitors = {v1, v2}
  SendEdits = {w1, w2}
  Maxima = {1, nothing}
  LastDay = 1
  Nothing = nothing
SPECIFICATION StorageSpec
CHECK_DEADLOCK FALSE
INVARIANTS StorageTypeOK PublishedObjectsKept RestoresAreWhole VerifiedBackupsSurvive GrantsWithinTheMaximum
PROPERTIES AttachmentObjectImmutable QueuedUntilErased SavesGoForward
