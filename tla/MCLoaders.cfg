CONSTANTS
  p = p  q = q
  Proc = {p, q}
  Mixes <- Pairs
  NoProc = NoProc
  Listed = {"8.8.8.8"}
  Cpu = {c1, c2}
  RingCap = 2
SPECIFICATION FairSpec
INVARIANTS TypeOK LinkHolds LostOnlyToAnother EventsWhole
PROPERTIES FilterSettled EventsHeard StopHonoured
CHECK_DEADLOCK FALSE
