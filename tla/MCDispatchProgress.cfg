SPECIFICATION Spec
CONSTANTS
  web = web
  lab = lab
  tess = tess
  NoWorker = NoWorker
  NoService = NoService
  Service <- MCService
  Worker <- MCWorker
  Able <- MCAble
  Manager <- OneManager
  Contained <- MCContained
  MaxJobs = 3
INVARIANT TypeOK
PROPERTIES
  RunsOnce
  ReportedOutcome
  StopIsDelivered
  QueuedIsServed
CHECK_DEADLOCK FALSE
