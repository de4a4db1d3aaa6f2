SPECIFICATION Spec
CONSTANTS
  TxAddr = TxAddr
  RxAddr = RxAddr
  Others = {A, B, C}
  Surroundings <- MCSurroundings
  NUM_CHANNELS = 4
  Switchable <- ThreeChannels
  HnThreshold = 20
  CsThreshold <- CS_MIN_DBM
  Noise = 1
  MaxRounds = 1
INVARIANTS
  ThresholdInDb
CHECK_DEADLOCK FALSE
