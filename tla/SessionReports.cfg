SPECIFICATION Spec
CONSTANTS
  e1 = e1
  e2 = e2
  u1 = u1
  Evictors = {e1, e2}
  Urls = {u1}
  Creator = creator
  ExportUrl = export
  MaxEvents = 2
CHECK_DEADLOCK FALSE
INVARIANTS
  TypeOK
  ExportLacksNothing
