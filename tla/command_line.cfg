\* One connection, lines of up to eight cells, one of which may follow another in flight.
\* A command that throws ends the process, so deadlock is not checked.
SPECIFICATION Spec
CONSTANTS
  Verb = {"QUIT", "STOR"}
  ArgumentVerb = {"STOR"}
  Line <- MCLine
  Garbage <- MCGarbage
  AddressFields = 1
  ByteBits = 2
  BufferSize = 8
  MaxWire = 8
  MaxPulls = 3
INVARIANTS TypeOK LeftoverIgnored PortAsSent
CHECK_DEADLOCK FALSE
