CONSTANTS
  c1 = c1  c2 = c2  c3 = c3
  a = a  b = b  z = z
  e1 = e1  e2 = e2  e3 = e3  e4 = e4
  Cpu = {c1, c2}
  Flow = {a, b}
  NoFlow = NoFlow
  Elem = {e1, e2, e3, e4}
  NoElem = NoElem
  FirstSpare <- Spare2
  Bucket <- OneBucket
  CounterMod = 4
  Frame <- Segments
  UserDeletes = TRUE
  MaxSeen = 2
SPECIFICATION Spec
INVARIANTS TypeOK NeverOverreports
PROPERTIES KeepsLedger UsesTable
CHECK_DEADLOCK FALSE
