SPECIFICATION Spec
CONSTANTS
  Tx = Tx
  Rx = Rx
  NumChannels = 3
  Listenable <- ThreeChannels
  FirstChannel = 1
  Switchable <- TwoSwitchable
  AsdcsInit = TRUE
  BackoffParts = 5
  MaxRounds = 2
INVARIANT ServerScanCovers
CHECK_DEADLOCK FALSE
