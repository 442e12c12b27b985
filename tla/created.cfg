\* A create whose insert PostgreSQL refuses for a reason other than uniqueness.
SPECIFICATION Spec
CONSTANTS
  o1 = o1
  o2 = o2
  u1 = u1
  u2 = u2
  n1 = n1
  n2 = n2
  a1 = a1
  a2 = a2
  a3 = a3
  bare = bare
  masked = masked
  net = net
  sys = sys
  bad = bad
  System = System
  None = None
  Requests = {r1, r2}
  Orgs <- MCOrgs
  UIDs <- MCUIDs
  Names <- MCNames
  Addrs <- MCAddrs
  Blocks <- MCBlocks
  Malformed <- MCMalformed
  Contains <- MCContains
  WithMask <- MCWithMask
  SystemBlocks = {}
  Calls <- RegistrationCalls
  AllowlistEnabled = FALSE
  Faults = {"rejected"}
PROPERTIES CreatedIsRegistered
