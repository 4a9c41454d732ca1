------------------------------ MODULE FtpSession ------------------------------
(***************************************************************************)
(* The control-connection thread of every client (src/src/ftp_session.cpp):*)
(* the greeting, the pull loop, the dispatch of a parsed command, the login *)
(* commands, the switch of the control channel to TLS, and the two ways a  *)
(* session can take the whole process with it (SIGPIPE, and an exception   *)
(* that leaves the thread).                                                *)
(*                                                                         *)
(* A session is a detached thread of one server process, so the threads    *)
(* share nothing here but the process itself.  What the file commands and   *)
(* the data-connection commands do beside answering is the subject of other *)
(* modules; here they answer, block, and may end the process.               *)
(***************************************************************************)
EXTENDS Naturals, Sequences

CONSTANTS
  Session,          \* the client sessions, one thread each
  Arg,              \* the argument tokens that occur in command lines
  Empty,            \* the empty string ""
  Numeral,          \* the tokens std::stoi accepts
  Address,          \* those in whose fields PORT finds the numbers of a port
  Tilde,            \* the token "~"
  Line,             \* the command lines clients send, as the parser sees them
  Users,            \* FTP_USER_DATABASE: login -> [password, folder]
  MaxAuthAttempts,  \* MAX_AUTH_ATTEMPTS
  Window            \* bound: lines a client has in flight

\* The dispatch's FTP_COMMAND_SITE_UTIME is no verb here: the parser looks up the
\* first word of a line, and the table's key for it is two words.
LoginVerb   == {"USER", "PASS"}
NumericVerb == {"PBSZ", "ALLO"}
ReplyVerb   == {"SYST", "PWD", "TYPE", "FEAT", "PROT", "INCOMPLETE", "UNKNOWN"}
FileVerb    == {"CWD", "DELE", "RNFR", "RNTO"}
DataVerb    == {"PASV", "LIST", "STOR"}
Verb        == LoginVerb \union NumericVerb \union ReplyVerb \union FileVerb \union DataVerb
                 \union {"PORT", "AUTH", "QUIT"}

\* A home folder is just an opaque value of this module.
Folder == {Users[u].folder : u \in DOMAIN Users}

ASSUME SessionAssumption ==
  /\ Empty \in Arg
  /\ Numeral \subseteq Arg /\ Address \subseteq Arg /\ Tilde \in Arg
  /\ Line \subseteq [verb : Verb, arg : Arg]
  /\ DOMAIN Users \subseteq Arg \ {Empty}
  /\ \A u \in DOMAIN Users : Users[u].password \in Arg /\ Users[u].folder # Empty
  /\ MaxAuthAttempts \in Nat
  /\ Window \in Nat \ {0}

VARIABLES
  process,      \* the server process: "running" or "aborted"
  pc,           \* where each session's thread stands
  state,        \* m_state
  user,         \* m_user
  authAttempt,  \* m_auth_attempt
  secure,       \* m_control_channel.m_secure
  tls,          \* m_control_channel.m_session, seen from GnuTLS
  peer,         \* the client's end of the control connection
  inbox,        \* lines received by the kernel and not yet pulled
  granted       \* history: the login of the last "230 access is performed"

envVars  == <<peer, inbox>>
authVars == <<state, user, authAttempt, granted>>
tlsVars  == <<secure, tls>>
vars     == <<process, pc, authVars, tlsVars, envVars>>

\* Besides in pull and in a handshake a thread may block in PORT's connect, and with its
\* data connection in the middle of PASV, LIST or STOR.
ThreadState  == {"greet", "pull", "handshake", "connect", "transfer", "done"}
SessionState == {"WAIT_LOGIN", "WAIT_PASSWORD", "TERMINATED"}
\* A client that left may not have reset the connection yet; "sigpipe" records
\* that a send to it raised the signal.
PeerState    == {"up", "gone", "reset", "sigpipe"}
UserRecord   == [login : Arg, password : Arg, folder : Folder \union {Empty}]

TypeOK ==
  /\ process \in {"running", "aborted"}
  /\ pc \in [Session -> ThreadState]
  /\ state \in [Session -> SessionState]
  /\ user \in [Session -> UserRecord]
  /\ authAttempt \in [Session -> 0 .. MaxAuthAttempts + 1]
  /\ secure \in [Session -> BOOLEAN]
  /\ tls \in [Session -> {"none", "bound", "established"}]
  /\ peer \in [Session -> PeerState]
  /\ inbox \in [Session -> Seq(Line)]
  /\ granted \in [Session -> DOMAIN Users \union {Empty}]

Init ==
  /\ process = "running"
  /\ pc = [s \in Session |-> "greet"]
  /\ state = [s \in Session |-> "WAIT_LOGIN"]
  /\ user = [s \in Session |-> [login |-> Empty, password |-> Empty, folder |-> Empty]]
  /\ authAttempt = [s \in Session |-> 0]
  /\ secure = [s \in Session |-> FALSE]
  /\ tls = [s \in Session |-> "none"]
  /\ peer = [s \in Session |-> "up"]
  /\ inbox = [s \in Session |-> <<>>]
  /\ granted = [s \in Session |-> Empty]

-----------------------------------------------------------------------------
(* The client and the network. *)

\* A client sends a line, without waiting for earlier replies if it likes.
ClientSend(s) ==
  /\ process = "running"
  /\ peer[s] = "up"
  /\ Len(inbox[s]) < Window
  /\ \E line \in Line : inbox' = [inbox EXCEPT ![s] = Append(@, line)]
  /\ UNCHANGED <<process, pc, authVars, tlsVars, peer>>

ClientLeave(s) ==
  /\ process = "running"
  /\ peer[s] = "up"
  /\ peer' = [peer EXCEPT ![s] = "gone"]
  /\ UNCHANGED <<process, pc, authVars, tlsVars, inbox>>

\* What n consecutive calls of push() can leave of the client's end p.  The
\* first send to a client that left is accepted and answered by a reset; a send
\* after the reset raises SIGPIPE.  GnuTLS may refuse the write of an
\* invalidated session before it reaches the socket.
AfterPush(p, isSecure, n) ==
  CASE n = 0 \/ p = "up" -> {p}
    [] p = "gone"        -> {"gone", "reset"} \union (IF n > 1 THEN {"sigpipe"} ELSE {})
    [] OTHER             -> {"sigpipe"} \union (IF isSecure THEN {p} ELSE {})

\* No code installs a handler, so the signal ends the process.
Push(s, n) ==
  \E p \in AfterPush(peer[s], secure[s], n) :
    /\ peer' = [peer EXCEPT ![s] = p]
    /\ process' = IF p = "sigpipe" THEN "aborted" ELSE process

-----------------------------------------------------------------------------
(* The thread's loop. *)

At(s, label) == process = "running" /\ pc[s] = label

Goto(s, label) == pc' = [pc EXCEPT ![s] = label]

Greet(s) ==
  /\ At(s, "greet")
  /\ Push(s, 1)
  /\ Goto(s, "pull")
  /\ UNCHANGED <<authVars, tlsVars, inbox>>

\* Mutant: the loop's guard on m_state is missing.
ReceiveAlways(s, line) ==
  /\ At(s, "pull")
  /\ inbox[s] # <<>>
  /\ line = Head(inbox[s])
  /\ inbox' = [inbox EXCEPT ![s] = Tail(@)]

\* One pull takes what the kernel has, possibly several lines; the parser reads
\* the first of them and the rest of the buffer is forgotten.
Receive(s, line) ==
  /\ At(s, "pull")
  /\ state[s] # "TERMINATED"
  /\ inbox[s] # <<>>
  /\ line = Head(inbox[s])
  /\ \E n \in 1 .. Len(inbox[s]) :
       inbox' = [inbox EXCEPT ![s] = SubSeq(@, n + 1, Len(@))]

\* ftp_user::set_login leaves the password and the folder of the record.
LoginEnteredFresh(record, login) ==   \* mutant: USER starts a new record
  [login |-> login, password |-> Empty, folder |-> Empty]

LoginEntered(record, login) == [record EXCEPT !.login = login]

\* USER: the "500 incorrect command order" reply does not stop the handler.
command_user(s, line) ==
  /\ line.verb = "USER"
  /\ Receive(s, line)
  /\ user' = [user EXCEPT ![s] = LoginEntered(@, line.arg)]
  /\ state' = [state EXCEPT ![s] = "WAIT_PASSWORD"]
  /\ Push(s, IF state[s] = "WAIT_LOGIN" THEN 1 ELSE 2)
  /\ UNCHANGED <<pc, authAttempt, granted, tlsVars>>

\* ftp_user_database::get
FoundByLogin(login, password) == login \in DOMAIN Users   \* mutant: the password is not compared

Found(login, password) == login \in DOMAIN Users /\ Users[login].password = password

\* The state a session is left in by its n-th failed PASS, and three slips of it:
\* one attempt too many, one too few, no limit.
StateAfterFailureLate(n)  == IF n > MaxAuthAttempts + 1 THEN "TERMINATED" ELSE "WAIT_LOGIN"
StateAfterFailureEarly(n) == IF n >= MaxAuthAttempts THEN "TERMINATED" ELSE "WAIT_LOGIN"
StateAfterFailureNever(n) == "WAIT_LOGIN"

StateAfterFailure(n) == IF n > MaxAuthAttempts THEN "TERMINATED" ELSE "WAIT_LOGIN"

\* PASS: likewise, "530 incorrect command order" is sent and the lookup goes on.
command_pass(s, line) ==
  /\ line.verb = "PASS"
  /\ Receive(s, line)
  /\ Push(s, IF state[s] = "WAIT_PASSWORD" THEN 1 ELSE 2)
  /\ LET login == user[s].login
     IN  \/ /\ Found(login, line.arg)
            /\ user' = [user EXCEPT ![s] = [login    |-> login,
                                            password |-> line.arg,
                                            folder   |-> Users[login].folder]]
            /\ granted' = [granted EXCEPT ![s] = login]
            /\ UNCHANGED <<state, authAttempt>>
         \/ /\ ~ Found(login, line.arg)
            /\ user' = [user EXCEPT ![s].password = line.arg]
            /\ authAttempt' = [authAttempt EXCEPT ![s] = @ + 1]
            /\ state' = [state EXCEPT ![s] = StateAfterFailure(authAttempt[s] + 1)]
            /\ UNCHANGED granted
  /\ UNCHANGED <<pc, tlsVars>>

\* The lines whose handling ends in an exception, which leaves the thread's function:
\* std::stoi refuses the argument of PBSZ or ALLO, or a field of PORT's while the line is
\* parsed; CWD asks for the path behind "~" where there is none.
Throws(line) ==
  \/ line.verb \in NumericVerb /\ line.arg \notin Numeral
  \/ line.verb = "PORT" /\ line.arg \notin Address
  \/ line.verb = "CWD" /\ line.arg = Tilde

command_throws(s, line) ==
  /\ Throws(line)
  /\ Receive(s, line)
  /\ process' = "aborted"
  /\ UNCHANGED <<pc, authVars, tlsVars, peer>>

\* Handlers, and the default branches of the dispatch, that answer once.
command_reply(s, line) ==
  /\ line.verb \in ReplyVerb \union NumericVerb \union FileVerb
  /\ ~ Throws(line)
  /\ Receive(s, line)
  /\ Push(s, 1)
  /\ UNCHANGED <<pc, authVars, tlsVars>>

command_port(s, line) ==
  /\ line.verb = "PORT" /\ ~ Throws(line)
  /\ Receive(s, line)
  /\ Goto(s, "connect")
  /\ UNCHANGED <<process, authVars, tlsVars, peer>>

\* A connection that is established is answered twice.
PortConnected(s) ==
  /\ At(s, "connect")
  /\ \E n \in 1 .. 2 : Push(s, n)
  /\ Goto(s, "pull")
  /\ UNCHANGED <<authVars, tlsVars, inbox>>

\* 227 or 150 opens a transfer; a PASV that found no port is over with its 500.
command_data(s, line) ==
  /\ line.verb \in DataVerb
  /\ Receive(s, line)
  /\ Push(s, 1)
  /\ Goto(s, "transfer") \/ (line.verb = "PASV" /\ UNCHANGED pc)
  /\ UNCHANGED <<authVars, tlsVars>>

\* LIST and STOR answer once more.
TransferDone(s) ==
  /\ At(s, "transfer")
  /\ \E n \in 0 .. 1 : Push(s, n)
  /\ Goto(s, "pull")
  /\ UNCHANGED <<authVars, tlsVars, inbox>>

\* What is written to a data connection, a listing or TLS records, raises SIGPIPE too when
\* the socket was never connected or was reset.  A secure one that an earlier transfer
\* closed has no TLS session any more, and GnuTLS is handed a null pointer.
TransferBreaks(s) ==
  /\ At(s, "transfer")
  /\ process' = "aborted"
  /\ UNCHANGED <<pc, authVars, tlsVars, envVars>>

command_quit(s, line) ==
  /\ line.verb = "QUIT"
  /\ Receive(s, line)
  /\ state' = [state EXCEPT ![s] = "TERMINATED"]
  /\ UNCHANGED <<process, pc, user, authAttempt, granted, tlsVars, peer>>

-----------------------------------------------------------------------------
(* AUTH TLS: tls_session::bind, then a handshake in which the client takes part. *)

CONSTANT Tls   \* the token "TLS"

ASSUME TlsAssumption == Tls \in Arg

\* bind() fails when the certificate cannot be loaded and then keeps the session
\* it had; otherwise gnutls_init overwrites it, even in the middle of a TLS session.
command_auth(s, line) ==
  /\ line.verb = "AUTH"
  /\ Receive(s, line)
  /\ Push(s, 1)
  /\ \/ UNCHANGED <<pc, tls>>
     \/ /\ line.arg = Tls
        /\ tls' = [tls EXCEPT ![s] = "bound"]
        /\ Goto(s, "handshake")
  /\ UNCHANGED <<authVars, secure>>

\* set_tls assigns the result of the handshake to m_secure, whatever it was before.
SecureAfterEither(before, result) == before \/ result   \* mutant: m_secure is only raised

SecureAfter(before, result) == result

HandshakeOk(s) ==
  /\ At(s, "handshake")
  /\ peer[s] = "up"
  /\ inbox[s] = <<>>
  /\ tls' = [tls EXCEPT ![s] = "established"]
  /\ secure' = [secure EXCEPT ![s] = SecureAfter(@, TRUE)]
  /\ Goto(s, "pull")
  /\ UNCHANGED <<process, authVars, envVars>>

\* Mutant: a failed handshake throws.
HandshakeFailThrows(s) ==
  /\ At(s, "handshake")
  /\ process' = "aborted"
  /\ UNCHANGED <<pc, authVars, tlsVars, peer, inbox>>

\* A fatal error: lines sent in the clear were read as records, or the peer left,
\* before or after the server's first flights.  gnutls_deinit, and the channel
\* goes on unprotected.
HandshakeFail(s) ==
  /\ At(s, "handshake")
  /\ \E n \in 0 .. 2 : Push(s, n)
  /\ \E n \in 0 .. Len(inbox[s]) :
       inbox' = [inbox EXCEPT ![s] = SubSeq(@, n + 1, Len(@))]
  /\ tls' = [tls EXCEPT ![s] = "none"]
  /\ secure' = [secure EXCEPT ![s] = SecureAfter(@, FALSE)]
  /\ Goto(s, "pull")
  /\ UNCHANGED authVars

-----------------------------------------------------------------------------
(* The end of the loop, and of the thread. *)

\* tcp_transport::close and tls_session::close.  In a TLS session gnutls_bye
\* writes one more record first.
CloseControl(s) ==
  /\ Push(s, IF secure[s] THEN 1 ELSE 0)
  /\ tls' = [tls EXCEPT ![s] = IF secure[s] THEN "none" ELSE @]
  /\ state' = [state EXCEPT ![s] = "TERMINATED"]
  /\ Goto(s, "done")
  /\ UNCHANGED <<user, authAttempt, granted, secure, inbox>>

\* Mutant: only an error ends the loop, an orderly end of the input does not.
EndOfInputOnError(s) ==
  /\ At(s, "pull")
  /\ state[s] # "TERMINATED"
  /\ secure[s]
  /\ CloseControl(s)

\* pull returned 0 or an error.  A TLS session also reports record errors.
EndOfInput(s) ==
  /\ At(s, "pull")
  /\ state[s] # "TERMINATED"
  /\ secure[s] \/ (peer[s] # "up" /\ inbox[s] = <<>>)
  /\ CloseControl(s)

LeaveLoop(s) ==
  /\ At(s, "pull")
  /\ state[s] = "TERMINATED"
  /\ CloseControl(s)

-----------------------------------------------------------------------------
Handle(s, line) ==
  \/ command_user(s, line)
  \/ command_pass(s, line)
  \/ command_throws(s, line)
  \/ command_reply(s, line)
  \/ command_port(s, line)
  \/ command_data(s, line)
  \/ command_quit(s, line)
  \/ command_auth(s, line)

\* The steps the thread takes by itself once its system call can return.
Thread(s) ==
  \/ Greet(s)
  \/ \E line \in Line : Handle(s, line)
  \/ EndOfInput(s)
  \/ LeaveLoop(s)

Next ==
  \E s \in Session :
    \/ ClientSend(s)
    \/ ClientLeave(s)
    \/ Thread(s)
    \/ HandshakeOk(s)
    \/ HandshakeFail(s)
    \/ PortConnected(s)
    \/ TransferDone(s)
    \/ TransferBreaks(s)

Spec == Init /\ [][Next]_vars

\* Every thread is scheduled, and a handshake with a client that left fails.
\* Nothing bounds how long a present client may leave a handshake, or any peer a
\* connect or a transfer, pending: the code sets no timeout.
HandshakeAbandoned(s) == peer[s] # "up" /\ HandshakeFail(s)

Scheduled(s) == WF_vars(Thread(s)) /\ WF_vars(HandshakeAbandoned(s))

Fairness == \A s \in Session : Scheduled(s)

FairSpec == Spec /\ Fairness

-----------------------------------------------------------------------------
(* Properties. *)

\* Of the failed PASS commands of a session no more than MAX_AUTH_ATTEMPTS + 1
\* are ever counted, a login in between not resetting the count, and the session
\* is over from the moment the bound is passed (command_pass).
AttemptBound ==
  \A s \in Session :
    authAttempt[s] > MaxAuthAttempts => state[s] = "TERMINATED"

\* The home folder of a session is that of the last login it was granted, also
\* after later USER and PASS commands that failed (command_user and command_pass
\* overwrite the login and the password of m_user long before the lookup).
GrantedIdentity ==
  \A s \in Session :
    user[s].folder = IF granted[s] = Empty THEN Empty ELSE Users[granted[s]].folder

\* As long as its thread pulls and pushes, a control channel is marked secure
\* only over an established TLS session, whatever mix of repeated AUTH commands,
\* failed handshakes and failed certificate loads came before (set_tls).
SecureOverSession ==
  \A s \in Session :
    pc[s] \in {"pull", "connect", "transfer"} /\ secure[s] => tls[s] = "established"

\* A terminated session handles nothing more: its login state stays as it is and
\* the only thing its thread still does is to close the channel.
TerminatedIsFinal ==
  [][\A s \in Session :
       state[s] = "TERMINATED" =>
         /\ state'[s] = "TERMINATED"
         /\ UNCHANGED <<user[s], authAttempt[s], granted[s], secure[s]>>
         /\ pc'[s] # pc[s] => pc'[s] = "done"]_vars

\* A session whose client left, or that was told to end, closes its control
\* channel, unless a connect or a transfer keeps it or the process is gone.
SessionEnds ==
  \A s \in Session :
    (peer[s] # "up" \/ state[s] = "TERMINATED")
      ~> (pc[s] \in {"done", "connect", "transfer"} \/ process = "aborted")

\* The session implements the login protocol: access is granted by a PASS whose password
\* the database has for the login named last, and by no other line; a PASS that it refutes
\* counts, and none is passed over but behind another line of one segment or in a handshake;
\* the last failure, a QUIT or the end of the connection end the session for good.
Login == INSTANCE LoginProtocol WITH
  Nobody      <- Empty,
  MaxFailures <- MaxAuthAttempts,
  queue       <- inbox,
  login       <- [s \in Session |-> user[s].login],
  access      <- granted,
  failures    <- authAttempt,
  upgrading   <- {s \in Session : pc[s] = "handshake"},
  ended       <- {s \in Session : state[s] = "TERMINATED"}

ImplementsLogin == Login!LSpec

\* "530 PASS incorrect command order" (ftp_session.cpp:215) refuses a PASS that
\* no USER precedes: such a PASS grants nothing.
OutOfOrderPassRefused ==
  [][\A s \in Session : granted'[s] # granted[s] => state[s] = "WAIT_PASSWORD"]_granted

\* A client that stays does not end the process, and with it every other session, but by a
\* line that makes its handler throw or by a data connection that breaks during a transfer:
\* a reply does so only after its client left.  No order of logins, no failed handshake
\* and no refused certificate does (push, command_auth, set_tls).
AbortHasCause ==
  [][process' # process =>
       \E s \in Session :
         \/ peer[s] # "up" /\ peer'[s] = "sigpipe"
         \/ pc[s] = "pull" /\ inbox[s] # <<>> /\ Throws(Head(inbox[s]))
         \/ pc[s] = "transfer" /\ UNCHANGED <<pc, envVars>>]_vars

=============================================================================
