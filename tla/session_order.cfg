\* The refusal that the reply 530 announces.  Sessions end, so deadlock is not checked.
SPECIFICATION Spec
CONSTANTS
  Empty = Empty
  Tls = Tls
  alice = alice
  bob = bob
  pwAlice = pwAlice
  pwBob = pwBob
  word = word
  number = number
  address = address
  Tilde = Tilde
  homeA = homeA
  homeB = homeB
  Session = {s1}
  Numeral = {number}
  Address = {address}
  MaxAuthAttempts = 3
  Window = 1
  Arg <- MCArg
  Users <- MCUsers
  Line <- LoginLines
PROPERTIES OutOfOrderPassRefused
CHECK_DEADLOCK FALSE
