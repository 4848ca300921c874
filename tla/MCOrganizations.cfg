CONSTANTS
  Users = {o, u, v}
  Collections = {c1, c2}
  Items = {i1}
  Requests = {r1, r2}
  Owner = o
  First = c1
  Kinds <- AllKinds
  Offers <- FewOffers
  None = none
  o = o
  u = u
  v = v
  c1 = c1
  c2 = c2
  i1 = i1
  r1 = r1
  r2 = r2
SYMMETRY Interchangeable
SPECIFICATION Spec
CHECK_DEADLOCK FALSE
INVARIANTS TypeOK GrantsAreWhole DeletedAccountsBelongNowhere LinkedItemsStayLinked
PROPERTIES ChangesAreTold OnlyHigherRolesManage
