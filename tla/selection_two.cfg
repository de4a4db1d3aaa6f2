SPECIFICATION Spec
CONSTANTS
  TxAddr = TxAddr
  RxAddr = RxAddr
  Others = {A, B, C}
  Surroundings <- MCSurroundings
  NUM_CHANNELS = 3
  Switchable <- TwoChannels
  HnThreshold = 20
  CsThreshold <- CS_MIN_DBM
  Noise = 1
  MaxRounds = 1
INVARIANTS
  SelectionCorrect
  Settles
  FewestHidden
CHECK_DEADLOCK FALSE
