\* Each screen alone, its calls in any order; a role page, a language or a slot is any of two.
CONSTANTS
  r1 = r1
  r2 = r2
  s1 = s1
  s2 = s2
  t1 = t1
  t2 = t2
  Screens = {"users", "names", "group", "role", "permissions", "assignments", "invitations", "dsl", "transfer", "preferences", "form", "setup", "menu", "sidebar", "own"}
  MaxVersion = 1
  MaxInFlight = 2
  MaxPlacements = 2
  MaxOthers = 3
  TransferRoles = {1, 2, 3}
  TakenNames = {"x", "y"}
  FileTexts = {1, 2}
  FileNames <- FilesOfTheRun
  RolesAtFirst <- RolesBefore
  MaxEpoch = 2
  MaxEdits = 3
  MaxSwitches = 1
  MaxRevision = 1
  MaxMenuChanges = 1
  MaxMyChanges = 1
  Languages = {ja, en}
  RoleIds = {r1, r2}
  NoRole = NoRole
  NoItem = NoItem
  NotKnown = NotKnown
SPECIFICATION
  Spec
SYMMETRY
  Symmetry
CHECK_DEADLOCK
  FALSE
INVARIANTS
  ScreensTypeOK
  ShownIsCurrent
  AnswersAreOfTheLastQuestion
PROPERTIES
  AppliesWhatWasChecked
  InputIsNotLost
  SidebarShowsThePage
