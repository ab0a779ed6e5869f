SPECIFICATION Spec
CONSTANTS
  root = root
  tess = tess
  tessTab = tessTab
  anna = anna
  ben = ben
  adminTab = adminTab
  annaTab1 = annaTab1
  annaTab2 = annaTab2
  benTab = benTab
  Unusable = Unusable
  Request <- MCRequest
  Owner <- MCOwner
  OwnerOf <- MCOwnerOf
  RoleOf <- MCRoleOf
  SettingChoices <- MCSettingChoices
INVARIANTS
  TypeOK
  CountersExact
PROPERTIES
  SlotsRespected
  OnlyOutrankedStarve
