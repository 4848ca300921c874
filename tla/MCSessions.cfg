CONSTANTS
  Devices = {d1, d2}
  Logins = {l1, l3}
  Recoveries = {l3}
  Refreshes = {r1, r2}
  Changes = {c1, c2}
  Removals = {x1}
  Start = start
  Unstamped = unstamped
  None = none
  c1 = c1
  c2 = c2
  d1 = d1
  d2 = d2
  l1 = l1
  l3 = l3
  r1 = r1
  r2 = r2
  x1 = x1
CONSTRAINT AtMostFive
SYMMETRY Interchangeable
SPECIFICATION Spec
CHECK_DEADLOCK FALSE
INVARIANTS TokensAreCurrent OneTokenPerLogin LoginsYieldOnlyToRevocation SessionsProveThePassword
PROPERTIES IssuedAccessIsAccepted RevocationIsFinal
