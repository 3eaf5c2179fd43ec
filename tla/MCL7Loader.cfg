CONSTANTS
  IfIndex <- LabIfIndex
  Frame <- Frames
  MaxLoads = 2
  CommandD = TRUE
SPECIFICATION Spec
CONSTRAINT FewFrames
INVARIANTS TypeOK NeverMissteered OneProgram ReadyObeysPolicy
CHECK_DEADLOCK FALSE
