SPECIFICATION Spec
CONSTANTS
  anna = anna
  ben = ben
  mrsM = mrsM
  class = class
  team = team
  page = page
  script = script
  t1 = t1
  t2 = t2
  User = {anna, ben, mrsM}
  Teacher = {mrsM}
  ByName <- MCByName
  Group = {class, team}
  MembersOf <- MCMembersOf
  Scope <- MCScope
  Author = {anna}
  Thread = {t1, t2}
  File = {page, script}
  Index = page
  Limit <- MCLimit
  FirstProjects <- MCFirstProjects
  MaxEvents = 1
  MaxCopies = 3
  MaxReviews = 1
SYMMETRY MCSymmetry
INVARIANTS
  QuotaOvershoot
  CopiesAreOfTheirTime
  StatusFollowsAssignments
CHECK_DEADLOCK FALSE
