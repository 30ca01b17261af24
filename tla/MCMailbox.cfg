\* A behaviour ends once its calls have returned and the receiver is gone;
\* calls stuck before that are caught by ImplementsAbstract, which requires them to return.
CONSTANTS
    Calls <- MCCalls
    CallKind <- MCCallKind
    MailboxSize <- MCMailboxSize
SPECIFICATION Spec
PROPERTY ImplementsAbstract
CHECK_DEADLOCK FALSE
