\* One exec session over pipes and wires that hold one frame.
CONSTANTS
  PipeCap = 1
  WireCap = 1
  MaxStdin = 1
  OutCap = 1
SPECIFICATION Spec
INVARIANT DisconnectKillsOnly
CHECK_DEADLOCK FALSE
