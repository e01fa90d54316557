SPECIFICATION AllSpec
INVARIANT TreeIsExact
INVARIANT DdlIsExact
 
INVARIANT GateHolds
CHECK_DEADLOCK FALSE
