SPECIFICATION Spec
CONSTANT Scenes <- EveryScene
INVARIANTS OfferedIsServed RefusalIsSeen
CHECK_DEADLOCK FALSE
