SPECIFICATION Spec
CONSTANTS
  anna = anna
  cleo = cleo
  first = first
  added = added
  Original = Original
  Elsewhere = Elsewhere
  Absent = Absent
  space = space
  text = text
  NoOutput = NoOutput
  Notice = Notice
  Output = {NoOutput, space, Notice, text}
  RunOutput = {text}
  Displayed <- MCDisplayed
  User = {anna, cleo}
  OnSocket = {anna}
  Cell = {first, added}
  FirstOrder <- MCFirstOrder
  FirstOutput <- MCFirstOutput
  MaxEdits <- MCMaxEdits
  MaxRev = 2
  MaxFaults = 1
INVARIANTS
  TypeOK
  BasesAreTrue
  SoloSyncIsExact
PROPERTIES
  SyncsKeepOthersEdits
  PollersConverge
CHECK_DEADLOCK FALSE
