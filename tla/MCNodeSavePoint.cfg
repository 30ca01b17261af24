\* run() returns once the abort loop is done: the node really stops there.
CONSTANTS
    Calls <- MCCalls
    CallKind <- MCCallKind
    MailboxSize <- MCMailboxSize
    MaxExits <- MCMaxExits
    FinalizedOrder <- MCFinalizedOrder
SPECIFICATION Spec
INVARIANT SavePointNotAhead
CHECK_DEADLOCK FALSE
