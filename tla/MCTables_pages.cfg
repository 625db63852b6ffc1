\* Each of the pages alone: two tables and two work roles, one change of
\* what a page rests on.
CONSTANTS
  t1 = t1
  t2 = t2
  r1 = r1
  r2 = r2
  c1 = c1
  c2 = c2
  a = a
  None = None
  Empty = Empty
  Bad = Bad
  Long = Long
  Parts = {"tables", "form", "search", "picker", "labels", "questions"}
  LastHour = 44
  NameLimit = 2
  AdminNameLimit = 2
  SearchLimit = 2
  PasswordShortest = 2
  PasswordBytes = 6
  PAGE_SIZE = 3
  MAX_PAGE = 4
  MaxChanges = 1
  MaxAccessChanges = 1
  MaxRow = 1
  Old = old
  Requests <- MCTables
  Values <- KeysReferredTo
  NoValue = None
SPECIFICATION
  Spec
SYMMETRY
  Symmetry
CHECK_DEADLOCK
  FALSE
INVARIANTS
  TablesTypeOK
  PagesFollowTheServer
  TimesMeanWhatIsShown
PROPERTIES
  EntriesAreKept
