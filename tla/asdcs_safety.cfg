SPECIFICATION Spec
CONSTANTS
  Tx = Tx
  Rx = Rx
  NumChannels = 5
  Listenable <- WithGap
  FirstChannel = 1
  Switchable <- SwitchableWithGap
  AsdcsInit = TRUE
  BackoffParts = 5
  MaxRounds = 4
INVARIANTS
  TypeOK
  CommittedTogether
  ServerPhases
  CurrentRound
  ScanUnderWay
  ClientTuned
  NoStrayReply
  FirstScanCovers
PROPERTY AckMeansAgreed
CHECK_DEADLOCK FALSE
