SPECIFICATION Spec
CONSTANT None = None
PROPERTIES ChangeCompletes WaitsEnd OneSidedHeals EveryPacketEnds
CHECK_DEADLOCK FALSE
