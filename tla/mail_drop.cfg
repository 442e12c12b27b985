SPECIFICATION Spec
CONSTANTS
  alice = alice
  bob = bob
  aliceAt = aliceAt
  bobAt = bobAt
  carolAt = carolAt
  helpAt = helpAt
  Usernames = {alice, bob}
  Addresses = {aliceAt, bobAt, carolAt, helpAt}
  AddressOf <- MCAddressOf
  Unknown = Unknown
  ToEmail = helpAt
  UsersModule = "mock"
  Batches <- MCBatches
INVARIANT AddressesStay
