SPECIFICATION Spec
CONSTANTS
  Devices = {d1, d2}
  Codes = {c1, c2}
  Ids = {i1, i2}
  NoRow = NoRow
  Requests = {q1, q2}
  Idle = Idle
  MaxAttempts = 2
INVARIANTS SingleUse
