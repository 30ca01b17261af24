\* run() returns once the abort loop is done: the engine really stops there.
CONSTANT MaxExits <- MCMaxExits
SPECIFICATION Spec
INVARIANT NoPartialLiveness
PROPERTY ShutdownCompletes
CHECK_DEADLOCK FALSE
