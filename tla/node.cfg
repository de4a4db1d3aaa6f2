SPECIFICATION Spec
CONSTANTS
  None = None
  AnyIp = AnyIp
INVARIANTS OrderKept DatagramsWhole RoutesFollow BackplaneMoves UnicastOnce SessionsWhole RestartIsLocal EndsWhatItBegan
CHECK_DEADLOCK FALSE
