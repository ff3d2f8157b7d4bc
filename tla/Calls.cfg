\* A client, at most one sandbox, any number of calls.
SPECIFICATION Spec
CONSTANTS
  None = None
  China <- MCChina
  Configs <- MCConfigs
  Created <- MCCreated
  Users = {"", "u1"}
  Statuses = {200, 201, 202, 204, 400, 401, 403, 404, 409, 429, 500, 502}
INVARIANTS
  DomainAsDocumented
  OneCredential
  RootNeverByDefault
  FailuresAreErrors
  SuccessesAreResults
  FailureKeepsItsClass
