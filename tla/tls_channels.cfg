\* One session, four binds and two data connections.  A session ends, so deadlock is not checked.
SPECIFICATION Spec
CONSTANTS
  MaxBinds = 4
  MaxSockets = 4
INVARIANTS TypeOK HandlesSound SecureOverOwnConnection CrashNeedsClosedChannel ProtectionAsAsked
PROPERTIES ClosingLosesNothing
CHECK_DEADLOCK FALSE
