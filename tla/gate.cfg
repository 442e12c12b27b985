\* Registrations through the allowlist gate against changes of the allowlist,
\* with every fault.
SPECIFICATION Spec
CONSTANTS
  o1 = o1
  o2 = o2
  u1 = u1
  u2 = u2
  n1 = n1
  n2 = n2
  a1 = a1
  a2 = a2
  a3 = a3
  bare = bare
  masked = masked
  net = net
  sys = sys
  bad = bad
  System = System
  None = None
  Requests = {r1, r2}
  Orgs <- MCOrgs
  UIDs <- MCUIDs
  Names <- MCNames
  Addrs <- MCAddrs
  Blocks <- MCBlocks
  Malformed <- MCMalformed
  Contains <- MCContains
  WithMask <- MCWithMask
  SystemBlocks <- GateSystemBlocks
  Calls <- GateCalls
  AllowlistEnabled = TRUE
  Faults = {"rejected", "lost", "shortread", "crash", "cutbody"}
INVARIANTS GateInvariant
PROPERTIES TenantIsolation OnlyVettedRegistrations
