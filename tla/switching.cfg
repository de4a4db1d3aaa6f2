SPECIFICATION Spec
CONSTANT None = None
INVARIANTS RadiosMeet ScansCover NeverStalls ListIsTrue
PROPERTIES AskedIsAnswered HeldLongEnough
CHECK_DEADLOCK FALSE
