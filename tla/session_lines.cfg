\* One session, scheduled fairly: logins in every order, lines in flight, repeated AUTH,
\* failing handshakes, departures, exceptions.
\* The process may abort, so a state without successors is not an error.
SPECIFICATION FairSpec
CONSTANTS
  Empty = Empty
  Tls = Tls
  alice = alice
  bob = bob
  pwAlice = pwAlice
  pwBob = pwBob
  word = word
  number = number
  address = address
  Tilde = Tilde
  homeA = homeA
  homeB = homeB
  Session = {s1}
  Numeral = {number}
  Address = {address}
  MaxAuthAttempts = 2
  Window = 2
  Arg <- MCArg
  Users <- MCUsers
  Line <- SessionLines
INVARIANTS TypeOK AttemptBound GrantedIdentity SecureOverSession
PROPERTIES TerminatedIsFinal ImplementsLogin SessionEnds AbortHasCause
CHECK_DEADLOCK FALSE
