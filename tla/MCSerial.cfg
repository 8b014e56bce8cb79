SPECIFICATION Spec
CONSTANTS
 MaxWrites = 3
 MaxUnplugs = 2
 MaxHalfOpens = 1
 CountModulus = 8
INVARIANTS NoStrandedWrite RequestStaysQueued ReaderAlive
PROPERTIES WriteReturns ReconnectsUnlessHalfOpen CloseIsFinal
CHECK_DEADLOCK FALSE
