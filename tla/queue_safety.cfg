SPECIFICATION Spec
CONSTANTS
  m1 = m1 m2 = m2 m3 = m3 m4 = m4
  Msg <- MCMsg
  Size <- MCSize
  Limit = 4
  NoMsg = NoMsg
  InitialMax = 2
  MaxTime = 1
INVARIANTS TailFollowsHead
PROPERTIES ImplementsFifo
