SPECIFICATION Spec
CONSTANTS
  older = older
  current = current
  upgraded = upgraded
  renamed = renamed
  Daemons = {older, current, upgraded, renamed}
  Files <- FourInstalls
  KnownEvents <- FourReaders
  c1 = c1
  c2 = c2
  Callers = {c1, c2}
  Jobs = {"j1", "j2"}
  Ids = {1, 2}
  Fingerprints = {"f1", "f2"}
  Requests <- AllRequests
  Menus <- AllMenus
  Nil = Nil
INVARIANTS TypeOK ServerOwnsSchema BackendsAgree
PROPERTIES ImplementsStore
CHECK_DEADLOCK FALSE
