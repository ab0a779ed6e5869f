SPECIFICATION Spec
CONSTANTS
  admin = admin
  teacher = teacher
  student = student
  fresh = fresh
  class = class
  lab = lab
  t1 = t1
  t2 = t2
  User = {admin, teacher, student, fresh}
  Seed = {admin, teacher, student}
  SeedRole <- MCSeedRole
  SeedMember <- MCSeedMember
  SeedOverride <- MCSeedOverride
  SeedProject <- MCSeedProject
  Group = {class}
  Slug = {lab}
  Thread = {t1, t2}
  Perm <- MCPerm
  StudentDefault <- MCStudentDefault
  Overrides <- MCOverrides
  ChatRoom <- MCChatRoom
  Duration = {1}
  MaxRequests = 3
  MaxTime = 1
SYMMETRY MCSymmetry
INVARIANTS
  ManagerRemains
  ListedCanBeOpened
  MutedStaySilent
  RoleFitsPassword
CHECK_DEADLOCK FALSE
