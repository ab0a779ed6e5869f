SPECIFICATION Spec
CONSTANTS
  web = web
  lab = lab
  tess = tess
  NoWorker = NoWorker
  NoService = NoService
  Service <- MCService
  Worker <- MCWorker
  Able <- MCAble
  Manager <- OneManager
  Contained <- MCContained
  MaxJobs = 1
PROPERTY StopRequestsArrive
CHECK_DEADLOCK FALSE
