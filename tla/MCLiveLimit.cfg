SPECIFICATION SafeSpec
CONSTANTS
  anna = anna
  ben = ben
  annaSocket = annaSocket
  benSocket = benSocket
  annaRun1 = annaRun1
  annaRun2 = annaRun2
  benRun = benRun
  Unusable = Unusable
  NoRun = NoRun
  MaxChunks = 0
  Request <- SharedRequests
  Owner <- MCOwner
  OwnerOf <- MCOwnerOf
  RoleOf <- MCRoleOf
  Client <- SharedClients
  ClientOf <- MCClientOf
  StoredLimits <- OneAtATime
INVARIANT GlobalLimitKept
CHECK_DEADLOCK FALSE
