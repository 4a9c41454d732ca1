\* Two sessions and a small table.  All sessions may end, and the process may abort,
\* so deadlock is not checked.
SPECIFICATION Spec
CONSTANTS
  Session = {s1, s2}
  Server = Server
  MaxFd = 6
  PasvAttempts = 2
SYMMETRY Symmetry
INVARIANTS TypeOK OwnDescriptor CrossTalkNeedsStdin OnlySocketsAreLost
PROPERTIES TransfersDoNotLeak
CHECK_DEADLOCK FALSE
