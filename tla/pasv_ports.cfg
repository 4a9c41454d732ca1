\* Two sessions, the ports 1 to 3 of two one-bit bytes, and a counter that runs past them
\* twice.  The counter is bounded, so deadlock is not checked.
SPECIFICATION FairSpec
CONSTANTS
  Session = {s1, s2}
  Byte = 2
  FirstPort = 2
  PasvAttempts = 2
  LastPort = 5
INVARIANTS TypeOK ToldWhatIsBound OwnPort
PROPERTIES PasvAnswered
CHECK_DEADLOCK FALSE
