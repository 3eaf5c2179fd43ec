CONSTANTS
  c1 = c1  c2 = c2
  a = a  b = b
  e1 = e1  e2 = e2  e3 = e3
  Cpu = {c1, c2}
  Flow = {a, b}
  NoFlow = NoFlow
  Elem = {e1, e2, e3}
  NoElem = NoElem
  ArrayElem <- InArray
  FirstSpare <- AtStart
  Shared = Shared
  MaxHandled = 3
SPECIFICATION Spec
INVARIANTS TypeOK NeverOvercounts SerialExact LosesOnlyRaced PerCpuExact Alternates
CHECK_DEADLOCK FALSE
