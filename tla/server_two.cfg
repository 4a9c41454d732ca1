\* Two sessions and two observers, fair threads, clients that keep connecting.  A process
\* that aborted does nothing more, so deadlock is not checked.
SPECIFICATION FairSpec
CONSTANTS
  Session = {s1, s2}
  Observer = {o1, o2}
INVARIANTS TypeOK ServesLiveSessions
PROPERTIES EveryoneHears StopEnds
CHECK_DEADLOCK FALSE
