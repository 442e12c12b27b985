\* Two replicas, updated from any version of the schema.
SPECIFICATION FairSpec
CONSTANTS
  u1 = u1
  u2 = u2
  n1 = n1
  n2 = n2
  Replicas = {r1, r2}
  Orgs = {o1, o2}
  UIDs = {u1, u2}
  Names = {n1, n2}
  Default <- MCDefault
  Origins <- MCOrigins
  MaxRows = 2
  Null = Null
  None = None
  Orphan = Orphan
INVARIANTS TypeOK RecordIsTrue UnreadableIsOld
PROPERTIES ImplementsUpgrade EveryStartEnds
