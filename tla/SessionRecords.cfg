SPECIFICATION Spec
CONSTANTS
  SessionIds = {x1}
  NoSession = NoSession
  Tasks = {t1, t2, t3}
  Idle = Idle
  MaxEvents = 3
SYMMETRY Symmetry
INVARIANTS SessionRecordsTypeOK StatusIsLogged LogTellsStatus
