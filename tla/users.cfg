\* Two requests to a user module, or, without one, one to the catch-all server.
SPECIFICATION Spec
CONSTANTS
  o1 = o1
  o2 = o2
  Requests = {r1, r2}
  Modules = {"ams", "mock", "keycloak", ""}
  Beside = {""}
  Accounts <- MCAccounts
  Inputs <- MCInputs
  EmptyOrg = empty
  FailingName = errorTest
  FirstBindings <- MCFirstBindings
  PageSize = 1
  MaxWords = 2
  MaxOpen = 2
  MaxChanges = 1
  Torn = Torn
  Null = Null
  Roster <- MCRoster
  Incomplete <- MCIncomplete
  Calls <- MCCalls
  MaxListed = 3
  MaxEdits = 2
  Missing = Missing
INVARIANTS LookupTypeOK OwnTenantOnly AdminFlagsAreFresh OwnDirectionLast OnlyFailuresLeak RefusedStays400 CatchallTypeOK QueryIsExact LoginIsOwnUser
PROPERTIES UserServiceNeverHolds
