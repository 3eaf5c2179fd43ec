CONSTANTS
  IfIndex <- LabIfIndex
  Frame <- Frames
  MaxLoads = 1
  CommandD = TRUE
SPECIFICATION Spec
INVARIANTS AddressesOfLink
CHECK_DEADLOCK FALSE
