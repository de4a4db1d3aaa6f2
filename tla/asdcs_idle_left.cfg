SPECIFICATION Spec
CONSTANTS
  Tx = Tx
  Rx = Rx
  NumChannels = 3
  Listenable <- ThreeChannels
  FirstChannel = 1
  Switchable <- TwoSwitchable
  AsdcsInit = TRUE
  BackoffParts = 5
  MaxRounds = 2
PROPERTY IdleUntilRequested
CHECK_DEADLOCK FALSE
