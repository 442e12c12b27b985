SPECIFICATION Spec
CONSTANTS
  i1 = i1
  i2 = i2
  i3 = i3
  mine = mine
  other = other
  l1 = l1
  Ids = {i1, i2, i3}
  Orgs = {mine, other}
  Listers = {l1}
  OrgOf <- MCOrgOf
  Limit = 1
  MaxClock = 2
SYMMETRY Symmetry
INVARIANTS TypeOK OwnRowsOnly CountCoversPage WalkIsComplete
