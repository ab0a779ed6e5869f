SPECIFICATION Spec
CONSTANTS
  anna = anna
  ben = ben
  annaSocket = annaSocket
  benSocket = benSocket
  annaRun1 = annaRun1
  annaRun2 = annaRun2
  benRun = benRun
  Unusable = Unusable
  NoRun = NoRun
  MaxChunks = 1
  Request <- AloneRequests
  Owner <- MCOwner
  OwnerOf <- MCOwnerOf
  RoleOf <- MCRoleOf
  Client <- AloneClients
  ClientOf <- MCClientOf
  StoredLimits <- TwoAtATime
INVARIANTS
  TypeOK
  NeverOvercounts
  ExactUnlessReleasedTwice
  
  RunningIsStoppable
  CleanEndKillsRuns
  RunProtocol
PROPERTIES
  
  RunEnds
CHECK_DEADLOCK FALSE
