CONSTANTS
  Devices = {d1}
  Logins = {l1, l2}
  Recoveries = {}
  Refreshes = {}
  Changes = {}
  Removals = {x1}
  Start = start
  Unstamped = unstamped
  None = none
  d1 = d1
  l1 = l1
  l2 = l2
  x1 = x1
SYMMETRY Interchangeable
SPECIFICATION Spec
CHECK_DEADLOCK FALSE

PROPERTIES DeviceRevocationIsFinal
