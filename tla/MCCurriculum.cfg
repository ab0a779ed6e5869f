SPECIFICATION Spec
CONSTANTS
  dora = dora
  class = class
  leftTab = leftTab
  rightTab = rightTab
  m1 = m1
  m2 = m2
  m3 = m3
  yes = yes
  no = no
  other = other
  Final = Final
  Infinite = Infinite
  Largest = 4
  print = print
  Window = {print}
  HolderOf <- MCHolderOf
  Learner = {dora}
  Teacher = {}
  Group = {class}
  GroupsOf <- MCGroupsOf
  Tab = {leftTab, rightTab}
  LearnerOf <- MCLearnerOf
  FirstCourse <- MCFirstCourse
  RawCourses <- MCRawCourses
  Answer <- MCAnswer
  MaxAttempts = 4
  FirstReleases <- MCFirstReleases
  MaxEvents = 1
SYMMETRY MCTabs
INVARIANTS
  TypeOK
  NoSkipping
  CertificateEarned
  PassedIsCertified
PROPERTIES
  AcceptedCanBePassed
CHECK_DEADLOCK FALSE
