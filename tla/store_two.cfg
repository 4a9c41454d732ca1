\* Two sessions, one upload each, to one file.  Clients may stop sending, so deadlock is not checked.
SPECIFICATION FairSpec
CONSTANTS
  Session = {s1, s2}
  Size = {0, 2}
  InitialSize = {0, 2}
  Chunk = 2
  MaxBytes = 3
  MaxLinks = 1
INVARIANTS TypeOK UploadsArePrefixes 
PROPERTIES UploadEnds ImplementsLog
CHECK_DEADLOCK FALSE
