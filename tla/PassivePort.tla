------------------------------ MODULE PassivePort ------------------------------
(***************************************************************************)
(* The ports of PASV (ftp_session::command_pasv): all session threads draw   *)
(* from one static int that nothing protects, tell the client 16 bits of it  *)
(* and wait for a connection.                                              *)
(***************************************************************************)
EXTENDS Integers

CONSTANTS
  Session,
  Byte,          \* the number of values of a byte (256)
  FirstPort,     \* what DATA_PORT_ALLOCATION starts with (40150)
  PasvAttempts,  \* ports a PASV tries (20)
  LastPort       \* bound: no PASV begins with the counter above it

ASSUME PortAssumption ==
  /\ Byte \in Nat \ {0, 1}
  /\ FirstPort \in Nat
  /\ PasvAttempts \in Nat \ {0}
  /\ LastPort \in Nat

Port == 1 .. Byte * Byte - 1

VARIABLES
  counter,   \* DATA_PORT_ALLOCATION
  pc,        \* where each session's thread is in command_pasv
  port,      \* its variable port
  attempt,   \* the attempts that failed
  bound,     \* the port its listener has, 0 without one
  told,      \* the port its last 227 named
  busy       \* ports of connections, of their remnants and of other programs

vars == <<counter, pc, port, attempt, bound, told, busy>>

\* A listening socket has a port exactly from its bind to its close.
TypeOK ==
  /\ counter \in Nat
  /\ pc \in [Session -> {"idle", "load", "store", "bind", "reply", "accept"}]
  /\ port \in [Session -> Nat]
  /\ attempt \in [Session -> 0 .. PasvAttempts]
  /\ bound \in [Session -> Port \union {0}]
  /\ \A s \in Session : bound[s] # 0 <=> pc[s] \in {"reply", "accept"}
  /\ told \in [Session -> Port \union {0}]
  /\ busy \subseteq Port

Init ==
  /\ counter = FirstPort
  /\ pc = [s \in Session |-> "idle"]
  /\ port = [s \in Session |-> 0]
  /\ attempt = [s \in Session |-> 0]
  /\ bound = [s \in Session |-> 0]
  /\ told = [s \in Session |-> 0]
  /\ busy \in SUBSET Port

-----------------------------------------------------------------------------
(* Port numbers. *)

InUse(p) == p \in busy \/ \E t \in Session : bound[t] = p

\* The ports bind() may give to a listener for port n: htons keeps 16 bits, and of 0
\* the kernel makes a port of its choice.  SO_REUSEADDR is not set.
UsableIfIdle(n) ==   \* mutant: SO_REUSEADDR and SO_REUSEPORT are set
  LET p == n % (Byte * Byte)
  IN  IF p = 0 THEN Port ELSE {p}

Usable(n) ==
  LET p == n % (Byte * Byte)
  IN  {q \in Port : (p = 0 \/ q = p) /\ ~ InUse(q)}

\* The port that a client reads from the two numbers of the reply.
PortToldUnmasked(n) == (n \div Byte) * Byte + (n % Byte)   \* mutant: port >> 8
PortTold(n) == ((n \div Byte) % Byte) * Byte + (n % Byte)

-----------------------------------------------------------------------------
(* command_pasv *)

Goto(s, label) == pc' = [pc EXCEPT ![s] = label]

command_pasv(s) ==
  /\ pc[s] = "idle"
  /\ counter <= LastPort
  /\ attempt' = [attempt EXCEPT ![s] = 0]
  /\ Goto(s, "load")
  /\ UNCHANGED <<counter, port, bound, told, busy>>

\* port = DATA_PORT_ALLOCATION++, a load and a store with other threads in between.
Load(s) ==
  /\ pc[s] = "load"
  /\ port' = [port EXCEPT ![s] = counter]
  /\ Goto(s, "store")
  /\ UNCHANGED <<counter, attempt, bound, told, busy>>

\* After the last failure 500 is sent, with one more port drawn and not tried.
ExhaustedLate(n) == n > PasvAttempts   \* mutant: attempt <= 20
Exhausted(n) == n = PasvAttempts

Store(s) ==
  /\ pc[s] = "store"
  /\ counter' = port[s] + 1
  /\ Goto(s, IF Exhausted(attempt[s]) THEN "idle" ELSE "bind")
  /\ UNCHANGED <<port, attempt, bound, told, busy>>

\* bind() may fail for a port below 1024, or for want of a descriptor, as well.
BindAttempt(s) ==
  /\ pc[s] = "bind"
  /\ \/ \E p \in Usable(port[s]) :
          /\ bound' = [bound EXCEPT ![s] = p]
          /\ Goto(s, "reply")
          /\ UNCHANGED attempt
     \/ /\ attempt' = [attempt EXCEPT ![s] = @ + 1]
        /\ Goto(s, "load")
        /\ UNCHANGED bound
  /\ UNCHANGED <<counter, port, told, busy>>

\* Mutant: accept is called before 227 is sent, and needs a client that knows the port.
EnterPassiveLate(s) ==
  /\ pc[s] = "reply"
  /\ told[s] = bound[s]
  /\ Goto(s, "accept")
  /\ UNCHANGED <<counter, port, attempt, bound, told, busy>>

\* 227
EnterPassive(s) ==
  /\ pc[s] = "reply"
  /\ told' = [told EXCEPT ![s] = PortTold(port[s])]
  /\ Goto(s, "accept")
  /\ UNCHANGED <<counter, port, attempt, bound, busy>>

\* accept returns, with a connection that keeps the port or with an error, and the
\* listener is closed.
PassiveDone(s) ==
  /\ pc[s] = "accept"
  /\ bound' = [bound EXCEPT ![s] = 0]
  /\ busy' \in {busy, busy \union {bound[s]}}
  /\ Goto(s, "idle")
  /\ UNCHANGED <<counter, port, attempt, told>>

\* A connection or its time-wait ends; another program takes a port.
PortsChange ==
  /\ \E p \in Port : \/ p \in busy /\ busy' = busy \ {p}
                     \/ ~ InUse(p) /\ busy' = busy \union {p}
  /\ UNCHANGED <<counter, pc, port, attempt, bound, told>>

\* The steps of a thread that wait for nobody.
Thread(s) == Load(s) \/ Store(s) \/ BindAttempt(s) \/ EnterPassive(s)

Next == PortsChange \/ \E s \in Session : command_pasv(s) \/ Thread(s) \/ PassiveDone(s)

Spec == Init /\ [][Next]_vars

\* Threads are scheduled; nobody owes them a command or a connection.
Scheduled(s) == WF_vars(Thread(s))

Fairness == \A s \in Session : Scheduled(s)

FairSpec == Spec /\ Fairness

-----------------------------------------------------------------------------
(* Properties. *)

\* A client that waits for its data connection was told the port of its listener, how
\* far the counter may have grown past 16 bits; only a multiple of 65536 is announced
\* as port 0 while the kernel chose another (the reply's bytes and htons).
ToldWhatIsBound ==
  \A s \in Session : pc[s] = "accept" /\ told[s] # 0 => told[s] = bound[s]

\* Two clients are never sent to one port, although increments of the counter may be
\* lost and two threads then try the same ports (DATA_PORT_ALLOCATION++).
OwnPort ==
  \A s, t \in Session :
    s # t /\ pc[s] = "accept" /\ pc[t] = "accept" /\ told[s] # 0 => told[s] # told[t]

\* Each PASV is answered: with 227, in front of accept, or with 500 after the attempts
\* are used up, whatever the other threads draw from the counter meanwhile.
PasvAnswered ==
  \A s \in Session : pc[s] = "load" ~> pc[s] \in {"accept", "idle"}

=============================================================================
